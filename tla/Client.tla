------------------------------- MODULE Client -------------------------------
(***************************************************************************)
(* What a device promises the server about its registration: one request   *)
(* at a time, in the order name, certificate, start; each is made once at  *)
(* most, and given up without an answer if need be.  Device implements it; *)
(* System puts several of these clients in front of the server.            *)
(***************************************************************************)
CONSTANTS Names,   \* the names of players, the empty one among them
          NoName   \* the empty name, of a device that was given none

VARIABLES step,     \* what the device will do next
          waiting,  \* its request is on the way
          name,     \* the name it was given
          cert      \* the name it has a certificate for, as a set

clientState == <<step, waiting, name, cert>>

\* After a request comes the next step, whatever the answer was.
After == [register |-> "csr", csr |-> "certificate", start |-> "play"]
Asking == DOMAIN After

Init ==
  /\ step = "register"
  /\ waiting = FALSE
  /\ name = NoName
  /\ cert = {}

Ask ==
  /\ step \in Asking
  /\ ~waiting
  /\ waiting' = TRUE
  /\ UNCHANGED <<step, name, cert>>

\* The device cannot even make the request.
Skip ==
  /\ step \in Asking
  /\ ~waiting
  /\ step' = After[step]
  /\ UNCHANGED <<waiting, name, cert>>

Named(n) ==
  /\ step = "register"
  /\ waiting
  /\ name' = n
  /\ UNCHANGED <<step, waiting, cert>>

\* A certificate is for the name the device had when it asked.
Certified ==
  /\ step = "csr"
  /\ waiting
  /\ cert' = {name}
  /\ UNCHANGED <<step, waiting, name>>

\* The request has been answered, has failed or has timed out.
Done ==
  /\ waiting
  /\ waiting' = FALSE
  /\ step' = After[step]
  /\ UNCHANGED <<name, cert>>

\* Without a certificate the device waits for ever.
MoveOn ==
  /\ step = "certificate"
  /\ cert # {}
  /\ step' = "start"
  /\ UNCHANGED <<waiting, name, cert>>

Restart ==
  /\ step' = "register"
  /\ waiting' = FALSE
  /\ name' = NoName
  /\ cert' = {}

Next ==
  \/ Ask
  \/ Skip
  \/ \E n \in Names : Named(n)
  \/ Certified
  \/ Done
  \/ MoveOn
  \/ Restart

Spec == Init /\ [][Next]_clientState

=============================================================================
