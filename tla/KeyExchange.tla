---------------------------- MODULE KeyExchange -----------------------------
(***************************************************************************)
(* What a caller of the crypto engine is promised, whatever strategy runs  *)
(* underneath.  A call needs one or both of two shares, the classical one  *)
(* ("ecdh") and the post-quantum one ("kem").  Each needed share is        *)
(* attempted at most once, an attempt may fail, no attempt happens outside *)
(* the call it is for, and the call ends only when every needed share was  *)
(* attempted or one attempt failed.  It succeeds exactly when every needed *)
(* share was obtained, and obtained by this call.                          *)
(***************************************************************************)

VARIABLES phase,  \* "idle" between calls, "busy" during one
          needs,  \* the shares the last call needs
          tried,  \* the shares attempted so far in the call under way
          share,  \* for each share, "absent" or "fresh" (made by this call)
          ok      \* did the last call succeed
vars == <<phase, needs, tried, share, ok>>

Shares == {"ecdh", "kem"}

TypeOK ==
  /\ phase \in {"idle", "busy"}
  /\ needs \in SUBSET Shares
  /\ tried \in SUBSET needs
  /\ share \in [Shares -> {"absent", "fresh"}]
  /\ ok \in BOOLEAN

NoShare == [k \in Shares |-> "absent"]

Init ==
  /\ phase = "idle"
  /\ needs = {}
  /\ tried = {}
  /\ share = NoShare
  /\ ok = FALSE

Begin ==
  /\ phase = "idle"
  /\ phase' = "busy"
  /\ needs' \in (SUBSET Shares) \ {{}}
  /\ tried' = {}
  /\ share' = NoShare
  /\ UNCHANGED ok

\* The engine is not initialised: the call fails and nothing else changes.
Refuse ==
  /\ phase = "idle"
  /\ ok' = FALSE
  /\ UNCHANGED <<phase, needs, tried, share>>

Attempt(k) ==
  /\ phase = "busy"
  /\ k \in needs \ tried
  /\ tried' = tried \cup {k}
  /\ \E s \in {"absent", "fresh"} : share' = [share EXCEPT ![k] = s]
  /\ UNCHANGED <<phase, needs, ok>>

End ==
  /\ phase = "busy"
  /\ needs \subseteq tried \/ \E k \in tried : share[k] = "absent"
  /\ ok' = (\A k \in needs : share[k] = "fresh")
  /\ phase' = "idle"
  /\ tried' = {}
  /\ UNCHANGED <<needs, share>>

Next == Begin \/ Refuse \/ (\E k \in Shares : Attempt(k)) \/ End

Spec == Init /\ [][Next]_vars

\* A call that began ends: attempts and the end are not postponed forever.
Fairness == WF_vars((\E k \in Shares : Attempt(k)) \/ End)
FairSpec == Spec /\ Fairness
=============================================================================
