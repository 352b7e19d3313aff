-------------------------------- MODULE QtCli --------------------------------
(***************************************************************************)
(* A program around the Qt client core: tunnel-cli, which logs in and then *)
(* starts the client once (cli/main.cpp), or the window, whose user starts *)
(* and stops it (AppState.cpp).  The login of the window is followed while *)
(* its client is off; so are the logins of tunnel-lite, which has no Qt    *)
(* client.                                                                 *)
(***************************************************************************)
EXTENDS DeviceLogin, QtClient

Init == LoginInit /\ ClientInit

\* The tokenReceived slot of tunnel-cli: setConfig and start.
Enter(p) ==
  /\ TokenReceived(p)
  /\ IF login = "cli" /\ ~running THEN Start ELSE UNCHANGED clientVars

LoginSteps == LoginStep /\ UNCHANGED clientVars

\* Signals come until the program exits; only the window has buttons.
ClientSteps ==
  /\ login \in {"cli", "token"} /\ ~Exited
  /\ Signal \/ (login = "token" /\ User)
  /\ UNCHANGED loginVars

Next == LoginSteps \/ ClientSteps \/ \E p \in Poll : Enter(p)

Spec == Init /\ [][Next]_<<loginVars, clientVars>>

=============================================================================
