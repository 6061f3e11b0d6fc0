---------------------------- MODULE KeyAgreement ----------------------------
(***************************************************************************)
(* What the two ends of a handshake are promised, whatever messages they   *)
(* exchange.  Each end makes one key for the exchange, at most once, and   *)
(* keeps it.  Where a share of the key is the client's to choose, the      *)
(* server has no key before the client has one.  The client is told that   *)
(* the exchange is finished only when both ends have the key that is due.  *)
(*                                                                         *)
(* A failure that nobody looks at may spoil the exchange: from then on a   *)
(* key may be anything, but is still made at most once.  A message that    *)
(* was not sent is less: the client may make a wrong key from what it      *)
(* reads instead, but then it is never told that the exchange is finished. *)
(***************************************************************************)
CONSTANTS Exchanges, Unset

VARIABLES due,   \* the key that either end should make in each exchange
          led,   \* does the server need the client's share to make it
          sound, \* has nothing spoiled a key
          told,  \* was every message sent
          ckey, skey,  \* the keys of the client and of the server
          finished     \* has the client read that the exchange is finished
vars == <<due, led, sound, told, ckey, skey, finished>>

Init ==
  /\ \A x \in Exchanges : due[x] # Unset
  /\ ckey = [x \in Exchanges |-> Unset]
  /\ skey = [x \in Exchanges |-> Unset]
  /\ finished = [x \in Exchanges |-> FALSE]

\* The key of x is made, whatever it is, and no other.
Makes(key, x) ==
  /\ key[x] = Unset /\ key'[x] # Unset
  /\ key' = [key EXCEPT ![x] = key'[x]]

ClientMakes(x) ==
  /\ Makes(ckey, x)
  /\ sound' /\ told' => ckey'[x] = due[x]
  /\ UNCHANGED <<skey, finished>>

ServerMakes(x) ==
  /\ Makes(skey, x)
  /\ sound' => skey'[x] = due[x] /\ (led[x] => ckey[x] # Unset)
  /\ UNCHANGED <<ckey, finished>>

Finish(x) ==
  /\ ~finished[x]
  /\ sound' => ckey[x] = due[x] /\ skey[x] = due[x]
  /\ finished' = [finished EXCEPT ![x] = TRUE]
  /\ UNCHANGED <<ckey, skey>>

Fail == ~(sound' /\ told') /\ UNCHANGED <<ckey, skey, finished>>

Next ==
  /\ UNCHANGED <<due, led>>
  /\ (sound' => sound) /\ (told' => told)
  /\ \/ \E x \in Exchanges : ClientMakes(x) \/ ServerMakes(x) \/ Finish(x)
     \/ Fail

Spec == Init /\ [][Next]_vars

\* Both ends of a finished exchange that nothing spoiled have the key due, a
\* server never has it before a client whose share it needs, and where every
\* message was sent nobody has any other.
Agreement ==
  sound =>
    \A x \in Exchanges :
      /\ finished[x] => ckey[x] = due[x] /\ skey[x] = due[x]
      /\ skey[x] \in {Unset, due[x]}
      /\ skey[x] # Unset /\ led[x] => ckey[x] # Unset
      /\ told => ckey[x] \in {Unset, due[x]}
=============================================================================
