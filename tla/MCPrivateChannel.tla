-------------------------- MODULE MCPrivateChannel --------------------------
(***************************************************************************)
(* Small instances of the private channel.  A scenario gives the stamp of  *)
(* the session the container holds at launch (0: logged out) and how often *)
(* each event may happen.                                                  *)
(***************************************************************************)
EXTENDS PrivateChannel

Events == {"state", "access", "recover", "provision", "status", "login", "logout", "ready", "start", "switch", "admit",
           "fails", "stopfails", "expires", "close", "launch"}

Scenario(session, once, twice) ==
  [session |-> session,
   left |-> [e \in Events |-> IF e \in twice THEN 2 ELSE IF e \in once THEN 1 ELSE 0]]

ChannelScenarios == {
  Scenario(0, {"state", "login", "logout", "fails"}, {}),
  Scenario(0, {"state", "login", "close"}, {}),
  Scenario(0, {"login", "logout", "close", "launch"}, {}),
  Scenario(0, {"login", "access", "start"}, {}),
  Scenario(1, {"state", "logout", "start", "stopfails"}, {"ready"}),
  Scenario(1, {"ready", "access", "recover", "start", "fails", "expires"}, {}),
  Scenario(1, {"ready", "recover", "logout", "expires"}, {}),
  Scenario(1, {"ready", "recover", "provision", "close", "launch", "fails"}, {}),
  Scenario(1, {"ready", "status", "provision", "recover", "logout"}, {}),
  Scenario(1, {"ready", "logout", "login"}, {}),
  Scenario(1, {"ready", "state", "start", "switch", "launch", "admit", "close", "stopfails"}, {}),
  Scenario(1, {"ready", "access", "logout", "close", "launch"}, {})}
=============================================================================
