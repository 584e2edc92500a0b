------------------------- MODULE MCBrowserSessions -------------------------
(***************************************************************************)
(* Values for the instance of BrowserSessions.                             *)
(***************************************************************************)
EXTENDS BrowserSessions, TLC

\* A session that may not leave this machine.
Restricted == [s \in Sessions |-> "loopback"]

\* The methods of sessions and takeovers, an observation and the automation
\* that opens and closes tabs.
Representatives ==
  {"session.start", "session.stop", "observation.snapshot", "tab.open", "tab.close",
   "takeover.start", "takeover.stop"}

\* Connections are interchangeable.
Symmetry == Permutations(Clients)

=============================================================================
