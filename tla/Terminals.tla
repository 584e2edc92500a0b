------------------------------ MODULE Terminals ------------------------------
(***************************************************************************)
(* The terminals of the core (retcon-core/src/spikes/terminal.rs): a row   *)
(* in the database, an entry in the map of live terminals, the shell, the  *)
(* task that takes its output and the task that waits for its exit.  No    *)
(* handler waits in between, so none is cut short but by the end of the    *)
(* core; they run on several threads all the same.  What is typed is       *)
(* modelled by whether there is text on the line, output by its chunks.    *)
(***************************************************************************)
EXTENDS Naturals

CONSTANTS
  Terminals,   \* the terminals that may be started
  MaxInputs,   \* bounds the commands that are entered into one
  MaxChunks    \* bounds the output that a shell writes

ASSUME MaxInputsAssumption == MaxInputs \in Nat
ASSUME MaxChunksAssumption == MaxChunks \in Nat

VARIABLES
  session,   \* the rows of terminal_sessions and of commands
  live,      \* the map: its terminals with their trackers and scrollbacks
  shell,     \* the processes and what they have written
  starting,  \* the handlers of terminal.start
  watcher,   \* the tasks that wait for an exit
  killing,   \* the handlers of terminal.kill that took a terminal from the map
  keyboard,  \* what was typed since the last Enter, and the commands entered
  running    \* the core runs, has drained the map, or is down

terminalVars == <<session, live, shell, starting, watcher, killing, keyboard, running>>

SessionStatus == {"none", "running", "failed", "ended", "interrupted"}
NoSession == [status |-> "none", ends |-> 0, commands |-> 0, log |-> FALSE]

\* An entry of the map: is the terminal in it, is there text on the line that
\* its tracker has seen, and output in its scrollback?
Entry == [held: BOOLEAN, line: BOOLEAN, scrollback: BOOLEAN]
NotLive == [held |-> FALSE, line |-> FALSE, scrollback |-> FALSE]
NewEntry == [NotLive EXCEPT !.held = TRUE]

TerminalTypeOK ==
  /\ session \in [Terminals -> [status: SessionStatus, ends: Nat, commands: Nat, log: BOOLEAN]]
  /\ live \in [Terminals -> Entry]
  /\ shell \in [Terminals -> [state: {"none", "alive", "exited"},
                              written: 0..MaxChunks, taken: 0..MaxChunks]]
  /\ starting \in [Terminals -> {"none", "spawn", "insert", "watch"}]
  /\ watcher \in [Terminals -> {"none", "polling", "exited", "over"}]
  /\ killing \in [Terminals -> {"none", "finish", "kill"}]
  /\ keyboard \in [Terminals -> [text: BOOLEAN, entered: 0..MaxInputs]]
  /\ running \in {"up", "drained", "down"}

TerminalInit ==
  /\ session = [t \in Terminals |-> NoSession]
  /\ live = [t \in Terminals |-> NotLive]
  /\ shell = [t \in Terminals |-> [state |-> "none", written |-> 0, taken |-> 0]]
  /\ starting = [t \in Terminals |-> "none"]
  /\ watcher = [t \in Terminals |-> "none"]
  /\ killing = [t \in Terminals |-> "none"]
  /\ keyboard = [t \in Terminals |-> [text |-> FALSE, entered |-> 0]]
  /\ running = "up"

-----------------------------------------------------------------------------
(***************************************************************************)
(* The map and the rows.                                                   *)
(***************************************************************************)

IsLive(t) == live[t].held

\* TerminalSessionRepository::finish writes over whatever the row says.
Finished(t, status) == [session EXCEPT ![t].status = status, ![t].ends = @ + 1]

\* with_session and append_scrollback work on a copy of the entry, and
\* LiveTerminal::clone copies what its mutexes hold: the copy is dropped, and
\* the entry stays as it was.
Kept(t, entry) == live[t]

\* flush_scrollback: the log becomes what the scrollback holds, if anything.
FlushedBy(sessions, t, scrollback) ==
  IF scrollback THEN [sessions EXCEPT ![t].log = TRUE] ELSE sessions

-----------------------------------------------------------------------------
(***************************************************************************)
(* terminal.start.                                                         *)
(***************************************************************************)

CreateSession(t) ==
  /\ running # "down" /\ session[t].status = "none" /\ starting[t] = "none"
  /\ session' = [session EXCEPT ![t].status = "running"]
  /\ starting' = [starting EXCEPT ![t] = "spawn"]
  /\ UNCHANGED <<live, shell, watcher, killing, keyboard, running>>

SpawnShell(t) ==
  /\ starting[t] = "spawn"
  /\ starting' = [starting EXCEPT ![t] = "insert"]
  /\ shell' = [shell EXCEPT ![t].state = "alive"]
  /\ UNCHANGED <<session, live, watcher, killing, keyboard, running>>

SpawnFails(t) ==
  /\ starting[t] = "spawn"
  /\ starting' = [starting EXCEPT ![t] = "none"]
  /\ session' = Finished(t, "failed")
  /\ UNCHANGED <<live, shell, watcher, killing, keyboard, running>>

\* Mutation of InsertLive: the watcher waits before the terminal is in the map.
WatchFirst(t) ==
  /\ starting[t] \in {"insert", "watch"}
  /\ IF starting[t] = "insert"
     THEN /\ watcher' = [watcher EXCEPT ![t] = "polling"] /\ UNCHANGED live
          /\ starting' = [starting EXCEPT ![t] = "watch"]
     ELSE /\ live' = [live EXCEPT ![t] = NewEntry] /\ UNCHANGED watcher
          /\ starting' = [starting EXCEPT ![t] = "none"]
  /\ UNCHANGED <<session, shell, killing, keyboard, running>>

InsertLive(t) ==
  /\ starting[t] = "insert"
  /\ starting' = [starting EXCEPT ![t] = "watch"]
  /\ live' = [live EXCEPT ![t] = NewEntry]
  /\ UNCHANGED <<session, shell, watcher, killing, keyboard, running>>

SpawnWatcher(t) ==
  /\ starting[t] = "watch"
  /\ starting' = [starting EXCEPT ![t] = "none"]
  /\ watcher' = [watcher EXCEPT ![t] = "polling"]
  /\ UNCHANGED <<session, live, shell, killing, keyboard, running>>

-----------------------------------------------------------------------------
(***************************************************************************)
(* The shell (external) and the two tasks of a terminal.                   *)
(***************************************************************************)

\* It writes output, which the reader thread sends to the output task.
ShellWrites(t) ==
  /\ shell[t].state = "alive" /\ shell[t].written < MaxChunks
  /\ shell' = [shell EXCEPT ![t].written = @ + 1]
  /\ UNCHANGED <<session, live, starting, watcher, killing, keyboard, running>>

ShellExits(t) ==
  /\ shell[t].state = "alive"
  /\ shell' = [shell EXCEPT ![t].state = "exited"]
  /\ UNCHANGED <<session, live, starting, watcher, killing, keyboard, running>>

\* append_scrollback puts the chunk behind what the scrollback holds.
Scrolled(t) == Kept(t, [live[t] EXCEPT !.scrollback = TRUE])

\* What the output task does with a chunk that fills the scrollback by itself (8192 bytes
\* that are no text become three times as many), or does not; output of a
\* terminal that is not in the map is not kept.
TakeOutput(t, fills) ==
  /\ running # "down" /\ shell[t].taken < shell[t].written
  /\ shell' = [shell EXCEPT ![t].taken = @ + 1]
  /\ IF IsLive(t)
     THEN /\ live' = [live EXCEPT ![t] = Scrolled(t)]
          /\ session' = FlushedBy(session, t, fills)
     ELSE UNCHANGED <<live, session>>
  /\ UNCHANGED <<starting, watcher, killing, keyboard, running>>

WatcherSees(t) ==
  /\ running # "down" /\ watcher[t] = "polling" /\ shell[t].state = "exited"
  /\ watcher' = [watcher EXCEPT ![t] = "exited"]
  /\ UNCHANGED <<session, live, shell, starting, killing, keyboard, running>>

\* Mutation of WatcherRemoves: the row is finished whoever took the terminal.
RemovesAnyway(t) ==
  /\ watcher[t] = "exited"
  /\ live' = [live EXCEPT ![t] = NotLive]
  /\ session' = Finished(t, "ended")
  /\ watcher' = [watcher EXCEPT ![t] = "over"]
  /\ UNCHANGED <<shell, starting, killing, keyboard, running>>

\* Under the lock of the map it takes the terminal out and finishes the row; a
\* terminal that is not there any more is somebody else's to finish.
WatcherRemoves(t) ==
  /\ watcher[t] = "exited"
  /\ live' = [live EXCEPT ![t] = NotLive]
  /\ session' = IF IsLive(t)
                THEN FlushedBy(Finished(t, "ended"), t, live[t].scrollback) ELSE session
  /\ watcher' = [watcher EXCEPT ![t] = "over"]
  /\ UNCHANGED <<shell, starting, killing, keyboard, running>>

-----------------------------------------------------------------------------
(***************************************************************************)
(* terminal.input and terminal.kill.                                       *)
(***************************************************************************)

\* What is sent: text, Enter, a whole line with its Enter, or a new size, which
\* goes to the shell and leaves the line alone.
Typed == {"text", "enter", "line", "resize"}

\* push_input: does the input complete a command, and what is left on the line?
Completes(text, input) == IF input = "line" \/ (input = "enter" /\ text) THEN 1 ELSE 0
LeftOver(text, input) == input = "text" \/ (text /\ input = "resize")

\* with_session hands the terminal's entry to the tracker.
TypedInto(t, input) == Kept(t, [live[t] EXCEPT !.line = LeftOver(live[t].line, input)])

\* CommandRepository::create, for each command that the input completes.
Recorded(t, input) == [session EXCEPT ![t].commands = @ + Completes(live[t].line, input)]

InputTerminal(t, input) ==
  /\ running # "down" /\ IsLive(t)
  /\ keyboard[t].entered + Completes(keyboard[t].text, input) <= MaxInputs
  /\ session' = Recorded(t, input)
  /\ live' = [live EXCEPT ![t] = TypedInto(t, input)]
  /\ keyboard' = [keyboard EXCEPT ![t] =
                    [text |-> LeftOver(@.text, input),
                     entered |-> @.entered + Completes(@.text, input)]]
  /\ UNCHANGED <<shell, starting, watcher, killing, running>>

\* The map is unlocked before the row is finished and the shell is killed.
KillTerminal(t) ==
  /\ running # "down" /\ IsLive(t)
  /\ live' = [live EXCEPT ![t] = NotLive]
  /\ session' = FlushedBy(session, t, live[t].scrollback)
  /\ killing' = [killing EXCEPT ![t] = "finish"]
  /\ UNCHANGED <<shell, starting, watcher, keyboard, running>>

KillFinishes(t) ==
  /\ killing[t] = "finish"
  /\ session' = Finished(t, "ended")
  /\ killing' = [killing EXCEPT ![t] = "kill"]
  /\ UNCHANGED <<live, shell, starting, watcher, keyboard, running>>

KillShell(t) ==
  /\ killing[t] = "kill"
  /\ killing' = [killing EXCEPT ![t] = "none"]
  /\ shell' = [shell EXCEPT ![t].state = "exited"]
  /\ UNCHANGED <<session, live, starting, watcher, keyboard, running>>

-----------------------------------------------------------------------------
(***************************************************************************)
(* The end of the core and its next start.                                 *)
(***************************************************************************)

\* TerminalRegistry::shutdown empties the map and kills the shells; the rows
\* are left for the next start.  A terminal.start that is under way goes on.
ShutdownTerminals ==
  /\ running = "up"
  /\ running' = "drained"
  /\ live' = [t \in Terminals |-> NotLive]
  /\ shell' = [t \in Terminals |-> IF IsLive(t) THEN [shell[t] EXCEPT !.state = "exited"]
                                   ELSE shell[t]]
  /\ UNCHANGED <<session, starting, watcher, killing, keyboard>>

\* The process ends, drained or killed; the consoles of its shells close.
TerminalsGo ==
  /\ running # "down"
  /\ running' = "down"
  /\ live' = [t \in Terminals |-> NotLive]
  /\ shell' = [t \in Terminals |->
       [shell[t] EXCEPT !.state = IF @ = "alive" THEN "exited" ELSE @, !.taken = shell[t].written]]
  /\ starting' = [t \in Terminals |-> "none"]
  /\ watcher' = [t \in Terminals |-> "none"]
  /\ killing' = [t \in Terminals |-> "none"]
  /\ UNCHANGED <<session, keyboard>>

\* recover_interrupted.
RecoverTerminals ==
  /\ running = "down"
  /\ running' = "up"
  /\ session' = [t \in Terminals |->
       IF session[t].status = "running"
       THEN [session[t] EXCEPT !.status = "interrupted", !.ends = @ + 1] ELSE session[t]]
  /\ UNCHANGED <<live, shell, starting, watcher, killing, keyboard>>

TerminalStep(t) ==
  \/ CreateSession(t) \/ SpawnShell(t) \/ SpawnFails(t) \/ InsertLive(t) \/ SpawnWatcher(t)
  \/ ShellWrites(t) \/ ShellExits(t) \/ \E fills \in BOOLEAN : TakeOutput(t, fills)
  \/ WatcherSees(t) \/ WatcherRemoves(t)
  \/ \E input \in Typed : InputTerminal(t, input)
  \/ KillTerminal(t) \/ KillFinishes(t) \/ KillShell(t)

TerminalNext ==
  \/ \E t \in Terminals : TerminalStep(t)
  \/ ShutdownTerminals \/ TerminalsGo \/ RecoverTerminals

TerminalSpec == TerminalInit /\ [][TerminalNext]_terminalVars

-----------------------------------------------------------------------------
(***************************************************************************)
(* Properties.                                                             *)
(***************************************************************************)

\* While the core serves, nothing that runs is forgotten: a row that is running
\* has somebody who will end it, and a shell that is alive has somebody who can
\* kill it, in whatever order start, kill and exit meet (start, kill_terminal and
\* the watcher all go through the map).
RunningTerminalsAreAttended ==
  running = "up" =>
    \A t \in Terminals :
      /\ session[t].status = "running" =>
           \/ starting[t] # "none" \/ killing[t] = "finish"
           \/ IsLive(t) /\ watcher[t] \in {"polling", "exited"}
      /\ shell[t].state = "alive" =>
           starting[t] # "none" \/ IsLive(t) \/ killing[t] # "none"

\* A terminal ends once: the kill, the watcher, the failed start and the next
\* start of the core never end what another of them has ended, so that ended_at
\* and the status of a finished session stand (finish has no condition of its own).
TerminalsEndOnce ==
  \A t \in Terminals :
    session[t].ends = IF session[t].status \in {"failed", "ended", "interrupted"} THEN 1 ELSE 0

\* "Accumulates keystrokes until Enter and emits completed command lines"
\* (command_tracker.rs:3): every command that was entered is in the table.
EnteredCommandsAreRecorded ==
  \A t \in Terminals : session[t].commands = keyboard[t].entered

=============================================================================
