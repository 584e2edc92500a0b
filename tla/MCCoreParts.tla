----------------------------- MODULE MCCoreParts -----------------------------
(***************************************************************************)
(* Values for the instances of FileWatch, Terminals and CoreStorage.  The  *)
(* three share no state and no step, so that one run checks each of them   *)
(* by itself: a behaviour is a behaviour of one part, in which the others  *)
(* stay as they start.                                                     *)
(***************************************************************************)
EXTENDS FileWatch, Terminals, CoreStorage, TLC

CONSTANT Parts   \* the parts that are run
VARIABLE part    \* the part that this behaviour is about

partsVars == <<part, vars, terminalVars, storageVars>>

PartsInit ==
  /\ part \in Parts
  /\ Init /\ TerminalInit
  /\ StorageInit /\ (part # "storage" => named[Main] = 0)

WatchRuns == part = "watch" /\ Next /\ UNCHANGED <<part, terminalVars, storageVars>>
TerminalsRun == part = "terminals" /\ TerminalNext /\ UNCHANGED <<part, vars, storageVars>>
StorageRuns == part = "storage" /\ StorageNext /\ UNCHANGED <<part, vars, terminalVars>>

PartsNext == WatchRuns \/ TerminalsRun \/ StorageRuns
PartsSpec == PartsInit /\ [][PartsNext]_partsVars

Symmetry == Permutations(Paths) \cup Permutations(Contents) \cup Permutations(Cores)

=============================================================================
