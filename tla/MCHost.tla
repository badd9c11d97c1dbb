------------------------------- MODULE MCHost -------------------------------
(***************************************************************************)
(* What runs around a client, checked in one run: the calls of an agent,    *)
(* the session of a profile, the start of its server and the pushes it      *)
(* hands on, the login it hands out, what the owner forbids and configures,  *)
(* the logins with a browser, a code or a token, and the records of the      *)
(* runs.  Each keeps its own files and fields: a behaviour moves one.        *)
(***************************************************************************)
EXTENDS McpHost, ProfileSession, PushRelay, Permits, BrowserLogin, ServerStart, RunRecords, SignIn,
        Settings, LiveLogin, TLC

VARIABLE part

vars == << part, mcpVars, sessionStateVars, relayVars, permitVars, browserVars, startVars, runVars, signVars,
           settingsVars, liveVars >>

Init ==
  /\ part \in {"mcp", "session", "relay", "permits", "browser", "server", "runs", "sign", "settings", "live"}
  /\ McpInit /\ SessionInit /\ RelayInit /\ PermitsInit /\ BrowserInit /\ StartInit /\ RunsInit
  /\ SignInInit /\ SettingsInit /\ LiveInit
  \* one start is enough for a part that does not move
  /\ part # "mcp" => ~bounded /\ named = CHOOSE r \in Rooms : TRUE
  /\ part # "session" => kept = NoToken
  /\ part # "browser" => deadline = "none"
  /\ part # "sign" => budget = "none" /\ ~passwords.needed
  /\ part # "settings" => config.defaultProfile = Missing /\ \A s \in AllSettings : config.defaults[s] = Missing

Next ==
  /\ UNCHANGED part
  /\ \/ /\ part = "mcp" /\ McpNext
        /\ UNCHANGED << sessionStateVars, relayVars, permitVars, browserVars, startVars, runVars, signVars, settingsVars, liveVars >>
     \/ /\ part = "session" /\ SessionNext
        /\ UNCHANGED << mcpVars, relayVars, permitVars, browserVars, startVars, runVars, signVars, settingsVars, liveVars >>
     \/ /\ part = "relay" /\ RelayNext
        /\ UNCHANGED << mcpVars, sessionStateVars, permitVars, browserVars, startVars, runVars, signVars, settingsVars, liveVars >>
     \/ /\ part = "permits" /\ PermitsNext
        /\ UNCHANGED << mcpVars, sessionStateVars, relayVars, browserVars, startVars, runVars, signVars, settingsVars, liveVars >>
     \/ /\ part = "browser" /\ BrowserNext
        /\ UNCHANGED << mcpVars, sessionStateVars, relayVars, permitVars, startVars, runVars, signVars, settingsVars, liveVars >>
     \/ /\ part = "server" /\ ~raced /\ StartNext     \* an exception of OneServer ends the behaviour
        /\ UNCHANGED << mcpVars, sessionStateVars, relayVars, permitVars, browserVars, runVars, signVars, settingsVars, liveVars >>
     \/ /\ part = "runs" /\ RunsNext
        /\ UNCHANGED << mcpVars, sessionStateVars, relayVars, permitVars, browserVars, startVars, signVars, settingsVars, liveVars >>
     \/ /\ part = "sign" /\ SignInNext
        /\ UNCHANGED << mcpVars, sessionStateVars, relayVars, permitVars, browserVars, startVars, runVars, settingsVars, liveVars >>
     \/ /\ part = "settings" /\ SettingsNext
        /\ UNCHANGED << mcpVars, sessionStateVars, relayVars, permitVars, browserVars, startVars, runVars, signVars, liveVars >>
     \/ /\ part = "live" /\ LiveNext
        /\ UNCHANGED << mcpVars, sessionStateVars, relayVars, permitVars, browserVars, startVars, runVars, signVars, settingsVars >>

Spec == Init /\ [][Next]_vars

\* Every variable of the part that moves has its type.
TypeOK ==
  CASE part = "mcp" -> McpTypeOK
    [] part = "session" -> SessionTypeOK
    [] part = "relay" -> RelayTypeOK
    [] part = "permits" -> PermitsTypeOK
    [] part = "browser" -> BrowserTypeOK
    [] part = "server" -> StartTypeOK
    [] part = "runs" -> RunsTypeOK
    [] part = "sign" -> SignInTypeOK
    [] part = "settings" -> SettingsTypeOK
    [] part = "live" -> LiveTypeOK

WhensHere == { [by |-> "in", n |-> 1], [by |-> "at", n |-> 2] }
PartnerOf == [c \in Chats |-> CHOOSE p \in People : TRUE]
Symmetry == Permutations(Calls) \cup Permutations(LiveChats)
=============================================================================
