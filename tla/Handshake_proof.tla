-------------------------- MODULE Handshake_proof ---------------------------
(* Proofs about Handshake, for any number of clients, any suites of the    *)
(* table and any set of failures.                                          *)
EXTENDS Handshake, SequenceTheorems, TLAPS

(* Sequences of at most two messages *)

LEMMA Sequences012 ==
  ASSUME NEW m, NEW n
  PROVE  /\ Append(<< >>, m) = <<m>> /\ Append(<<m>>, n) = <<m, n>>
         /\ Head(<<m>>) = m /\ Head(<<m, n>>) = m
         /\ Tail(<<m>>) = << >> /\ Tail(<<m, n>>) = <<n>>
         /\ <<m>> # << >> /\ <<m, n>> # << >>
<1>1. Append(<< >>, m) = <<m>>
  OBVIOUS
<1>2. Append(<<m>>, n) = <<m, n>>
  <2> DEFINE S == {m, n}
  <2>1. <<m>> \in Seq(S) /\ <<m, n>> \in Seq(S) /\ n \in S
    OBVIOUS
  <2>2. /\ Append(<<m>>, n) \in Seq(S) /\ Len(Append(<<m>>, n)) = 2
        /\ Append(<<m>>, n)[1] = m /\ Append(<<m>>, n)[2] = n
    BY <2>1, AppendProperties
  <2>3. Len(<<m, n>>) = 2 /\ <<m, n>>[1] = m /\ <<m, n>>[2] = n
    OBVIOUS
  <2>4. \A i \in 1..2 : Append(<<m>>, n)[i] = <<m, n>>[i]
    BY <2>2, <2>3
  <2> QED
    BY <2>1, <2>2, <2>3, <2>4, SeqEqual
<1>3. Head(<<m>>) = m /\ Head(<<m, n>>) = m
  OBVIOUS
<1>4. Tail(<<m>>) = << >>
  OBVIOUS
<1>5. Tail(<<m, n>>) = <<n>>
  OBVIOUS
<1>6. <<m>> # << >> /\ <<m, n>> # << >>
  OBVIOUS
<1> QED
  BY <1>1, <1>2, <1>3, <1>4, <1>5, <1>6

(* The suite table *)

\* A suite's number identifies its row.
LEMMA IdIdentifies ==
  ASSUME NEW s \in ALGORITHM_COMBOS
  PROVE  get_combo_by_id(s.id) = {s}
BY DEF get_combo_by_id, ALGORITHM_COMBOS, Combo

LEMMA SuiteFacts ==
  ASSUME NEW s \in Suites
  PROVE  /\ s.id \in Nat
         /\ get_combo_by_id(s.id) = {s}
         /\ ~HasKem(s) => s.profile = "PURE_CLASSICAL"
         /\ HasEcdh(s) \/ HasKem(s)
         /\ s.profile = "HYBRID" => HasEcdh(s) /\ HasKem(s)
<1>1. s \in ALGORITHM_COMBOS
  BY HandshakeAssumption
<1>2. get_combo_by_id(s.id) = {s}
  BY <1>1, IdIdentifies
<1>3. s.profile \in Profiles /\ s.id \in Nat
  BY <1>1 DEF ALGORITHM_COMBOS, Combo, Profiles
<1> QED
  BY <1>2, <1>3 DEF HasKem, HasEcdh, Profiles

\* Without the failures nobody looks at, the crypto functions have one outcome.
LEMMA OneOutcome ==
  ASSUME Faults \cap KeyFaults = {}, NEW b \in BOOLEAN, NEW s \in Suites
  PROVE  /\ Exported(b) = {b}
         /\ Derived(b) = {Wanted(b, "dh")}
         /\ Decapsulated(TRUE) = {"kem"}
         /\ \A k \in ClientEncaps(s) : k \in {Wanted(HasKem(s), "kem"), "none"}
<1>1. \A f \in {"export", "load", "derive", "encaps", "decaps", "kdf"} : ~May(f)
  BY DEF May, KeyFaults, SilentFaults
<1> QED
  BY <1>1 DEF Exported, Derived, Decapsulated, ClientEncaps, Wanted

LEMMA OneKey ==
  ASSUME Faults \cap KeyFaults = {}, NEW kdf, NEW id, NEW e, NEW k
  PROVE  Finalised(kdf, id, e, k) = {[kdf |-> kdf, id |-> id, ecdh |-> e, kem |-> k]}
<1>1. ~May("kdf")
  BY DEF May, KeyFaults, SilentFaults
<1> QED
  BY <1>1 DEF Finalised

----------------------------------------------------------------------------
(* A step of one connection leaves the others alone *)

Conn(c) == SocketInv(c) /\ RequestInv(c) /\ ReplyInv(c) /\ KeyInv(c)

Same(d) ==
  /\ cpc'[d] = cpc[d] /\ ckey'[d] = ckey[d]
  /\ finished'[d] = finished[d] /\ unsent'[d] = unsent[d]
  /\ spc'[d] = spc[d] /\ shello'[d] = shello[d]
  /\ secdh'[d] = secdh[d] /\ skem'[d] = skem[d] /\ skey'[d] = skey[d]
  /\ toServer'[d] = toServer[d] /\ toClient'[d] = toClient[d]
  /\ copen'[d] = copen[d] /\ sopen'[d] = sopen[d] /\ reset'[d] = reset[d]

\* Every step but SigPipe.
OwnStep(c) ==
  \/ ClientStep(c) \/ Kill(c)
  \/ Accept(c) \/ ReadClientHello(c) \/ HandlerEOF(c) \/ ServerSetupFails(c)
  \/ SendServerHello(c) \/ ReadCiphertext(c) \/ SendFinished(c) \/ WriteFails(c)

USE DEF clientVars, serverVars, socketVars, DueKey

LEMMA OthersSame ==
  ASSUME TypeOK, NEW c \in Clients, NEW d \in Clients \ {c}, OwnStep(c)
  PROVE  Same(d)
<1> USE DEF TypeOK, Same, CloseClient, CloseHandler, HandlerWrite, ClientWrite
<1>1. CASE Connect(c)
  BY <1>1 DEF Connect
<1>2. CASE ClientSetupFails(c)
  BY <1>2 DEF ClientSetupFails
<1>3. CASE SendClientHello(c)
  BY <1>3 DEF SendClientHello
<1>4. CASE PkAllocFails(c)
  BY <1>4 DEF PkAllocFails
<1>5. CASE ComputeShares(c)
  BY <1>5 DEF ComputeShares
<1>6. CASE ReadServerFinished(c)
  BY <1>6 DEF ReadServerFinished
<1>7. CASE ClientEOF(c)
  BY <1>7 DEF ClientEOF
<1>8. CASE Kill(c)
  BY <1>8 DEF Kill
<1>9. CASE Accept(c)
  BY <1>9 DEF Accept
<1>10. CASE ReadClientHello(c)
  BY <1>10 DEF ReadClientHello
<1>11. CASE HandlerEOF(c)
  BY <1>11 DEF HandlerEOF
<1>12. CASE ServerSetupFails(c)
  BY <1>12 DEF ServerSetupFails
<1>13. CASE SendServerHello(c)
  BY <1>13 DEF SendServerHello
<1>14. CASE ReadCiphertext(c)
  BY <1>14 DEF ReadCiphertext
<1>15. CASE SendFinished(c)
  BY <1>15 DEF SendFinished
<1>16. CASE WriteFails(c)
  BY <1>16 DEF WriteFails
<1> QED
  BY <1>1, <1>2, <1>3, <1>4, <1>5, <1>6, <1>7, <1>8, <1>9, <1>10, <1>11,
     <1>12, <1>13, <1>14, <1>15, <1>16
  DEF OwnStep, ClientStep

LEMMA SameConn ==
  ASSUME NEW d \in Clients, Same(d), req' = req, server' = server, Conn(d)
  PROVE  Conn(d)'
<1> USE DEF Same
<1>1. SocketInv(d)'
  BY DEF Conn, SocketInv, Early, Reading, Writing, Running, Waiting
<1>2. Hellos(d)' = Hellos(d) /\ Replies(d)' = Replies(d)
  BY DEF Hellos, Replies, Exported, ClientHello, ServerHello, HasEcdh, May
<1>3. RequestInv(d)'
  BY <1>2 DEF Conn, RequestInv, HasKem, PQCCiphertext
<1>4. ReplyInv(d)'
  BY <1>2 DEF Conn, ReplyInv, HasKem, ServerFinished
<1>5. KeyInv(d)'
  BY DEF Conn, KeyInv, HasKem, HasEcdh, ServerFinished, Complete, Wanted,
         KeyFaults, SilentFaults
<1> QED
  BY <1>1, <1>3, <1>4, <1>5 DEF Conn

----------------------------------------------------------------------------
(* Each step keeps the invariant of its own connection *)

LEMMA ConnectKeeps ==
  ASSUME TypeOK, NEW c \in Clients, Conn(c), Connect(c)
  PROVE  Conn(c)'
<1> USE DEF TypeOK, Connect, CloseClient, CloseHandler, HandlerWrite,
            ClientWrite, Conn
<1>1. SocketInv(c)'
  BY DEF SocketInv, RequestInv, ReplyInv, Early, Reading, Writing, Running,
         Waiting
<1>2. req' = req /\ Hellos(c)' = Hellos(c) /\ Replies(c)' = Replies(c)
  BY DEF Hellos, Replies, Exported, ClientHello, ServerHello, HasEcdh, May
<1>3. RequestInv(c)'
  BY <1>2, Sequences012
  DEF SocketInv, RequestInv, ReplyInv, HasKem, PQCCiphertext, Early, Reading,
      Writing, Running, Waiting
<1>4. ReplyInv(c)'
  BY <1>2, Sequences012
  DEF SocketInv, RequestInv, ReplyInv, HasKem, ServerFinished, Early, Reading,
      Writing, Running, Waiting
<1>5. KeyInv(c)'
  BY <1>2, Sequences012
  DEF SocketInv, RequestInv, ReplyInv, KeyInv, HasKem, HasEcdh,
      ServerFinished, Complete, Wanted, Early, Reading, Writing, Running,
      Waiting
<1> QED
  BY <1>1, <1>3, <1>4, <1>5

LEMMA ClientSetupFailsKeeps ==
  ASSUME TypeOK, NEW c \in Clients, Conn(c), ClientSetupFails(c)
  PROVE  Conn(c)'
<1> USE DEF TypeOK, ClientSetupFails, CloseClient, CloseHandler, HandlerWrite,
            ClientWrite, Conn
<1>1. SocketInv(c)'
  BY DEF SocketInv, RequestInv, ReplyInv, Early, Reading, Writing, Running,
         Waiting
<1>2. req' = req /\ Hellos(c)' = Hellos(c) /\ Replies(c)' = Replies(c)
  BY DEF Hellos, Replies, Exported, ClientHello, ServerHello, HasEcdh, May
<1>3. RequestInv(c)'
  BY <1>2, Sequences012
  DEF SocketInv, RequestInv, ReplyInv, HasKem, PQCCiphertext, Early, Reading,
      Writing, Running, Waiting
<1>4. ReplyInv(c)'
  BY <1>2, Sequences012
  DEF SocketInv, RequestInv, ReplyInv, HasKem, ServerFinished, Early, Reading,
      Writing, Running, Waiting
<1>5. KeyInv(c)'
  BY <1>2, Sequences012
  DEF SocketInv, RequestInv, ReplyInv, KeyInv, HasKem, HasEcdh,
      ServerFinished, Complete, Wanted, Early, Reading, Writing, Running,
      Waiting
<1> QED
  BY <1>1, <1>3, <1>4, <1>5

LEMMA SendClientHelloKeeps ==
  ASSUME TypeOK, NEW c \in Clients, Conn(c), SendClientHello(c)
  PROVE  Conn(c)'
<1> USE DEF TypeOK, Conn, ClientWrite
<1>a. PICK m \in Hellos(c) : ClientWrite(c, m)
  BY DEF SendClientHello, Hellos
<1>b. /\ cpc[c] = "connected" /\ cpc' = [cpc EXCEPT ![c] = "await_hello"]
      /\ UNCHANGED <<req, ckey, finished, unsent, serverVars, toClient, copen, sopen,
                     reset>>
  BY DEF SendClientHello
<1>1. SocketInv(c)'
  BY <1>b DEF SocketInv, Early, Reading, Writing, Running, Waiting
<1>2. req' = req /\ Hellos(c)' = Hellos(c) /\ Replies(c)' = Replies(c)
  BY <1>b DEF Hellos, Replies, Exported, ClientHello, ServerHello, HasEcdh, May
<1>3. RequestInv(c)'
  <2>1. toServer'[c] = IF sopen[c] THEN <<m>> ELSE <<>>
    BY <1>a, <1>b, Sequences012 DEF RequestInv
  <2>2. <<m>> # <<>>
    BY Sequences012
  <2> QED
    BY <2>1, <2>2, <1>2, <1>b
    DEF SocketInv, RequestInv, Early, Reading, Writing, Running, Waiting
<1>4. ReplyInv(c)'
  BY <1>2, <1>b DEF SocketInv, RequestInv, ReplyInv, HasKem, ServerFinished,
                    Early, Reading, Writing, Running, Waiting
<1>5. KeyInv(c)'
  BY <1>2, <1>b
  DEF RequestInv, KeyInv, HasKem, HasEcdh, ServerFinished, Complete, Wanted,
                    Early, Reading, Writing, Running, Waiting
<1> QED
  BY <1>1, <1>3, <1>4, <1>5

LEMMA PkAllocFailsKeeps ==
  ASSUME TypeOK, NEW c \in Clients, Conn(c), PkAllocFails(c)
  PROVE  Conn(c)'
<1> USE DEF TypeOK, PkAllocFails, CloseClient, CloseHandler, HandlerWrite,
            ClientWrite, Conn
<1>1. SocketInv(c)'
  BY DEF SocketInv, RequestInv, ReplyInv, Early, Reading, Writing, Running,
         Waiting
<1>2. req' = req /\ Hellos(c)' = Hellos(c) /\ Replies(c)' = Replies(c)
  BY DEF Hellos, Replies, Exported, ClientHello, ServerHello, HasEcdh, May
<1>3. RequestInv(c)'
  BY <1>2, Sequences012
  DEF SocketInv, RequestInv, ReplyInv, HasKem, PQCCiphertext, Early, Reading,
      Writing, Running, Waiting
<1>4. ReplyInv(c)'
  BY <1>2, Sequences012
  DEF SocketInv, RequestInv, ReplyInv, HasKem, ServerFinished, Early, Reading,
      Writing, Running, Waiting
<1>5. KeyInv(c)'
  BY <1>2, Sequences012
  DEF SocketInv, RequestInv, ReplyInv, KeyInv, HasKem, HasEcdh,
      ServerFinished, Complete, Wanted, Early, Reading, Writing, Running,
      Waiting
<1> QED
  BY <1>1, <1>3, <1>4, <1>5

LEMMA ComputeSharesKeeps ==
  ASSUME TypeOK, NEW c \in Clients, Conn(c), ComputeShares(c)
  PROVE  Conn(c)'
<1> USE DEF TypeOK, Conn, CloseClient, ClientWrite
<1> DEFINE s == req[c].suite
           Error == cpc' = [cpc EXCEPT ![c] = "error"]
           GoOn == cpc' = [cpc EXCEPT ![c] = "await_fin"]
           Ct(kem) == PQCCiphertext(kem = "kem")
<1>a. s \in Suites /\ HasEcdh(s) \in BOOLEAN
  BY DEF Request, HasEcdh
<1>b. PICK r \in Replies(c) : toClient[c] \in {<<r>>, <<r, ServerFinished>>}
  BY DEF ComputeShares, ReplyInv
<1>c. /\ Head(toClient[c]) = r
      /\ toClient'[c] = IF toClient[c] = <<r>> THEN <<>> ELSE <<ServerFinished>>
      /\ \A i \in DOMAIN toClient'[c] : toClient'[c][i] = ServerFinished
                /\ \E j \in DOMAIN toClient[c] : toClient[c][j] = ServerFinished
  <2>1. toClient' = [toClient EXCEPT ![c] = Tail(@)]
    BY DEF ComputeShares
  <2>2. Head(toClient[c]) = r
    BY <1>b, Sequences012
  <2>3. CASE toClient[c] = <<r>>
    <3>1. toClient'[c] = <<>>
      BY <2>1, <2>3, Sequences012
    <3> QED
      BY <2>2, <2>3, <3>1
  <2>4. CASE toClient[c] = <<r, ServerFinished>>
    <3>1. toClient'[c] = <<ServerFinished>> /\ toClient[c] # <<r>>
      BY <2>1, <2>4, Sequences012
    <3>2. 2 \in DOMAIN toClient[c] /\ toClient[c][2] = ServerFinished
      BY <2>4
    <3> QED
      BY <2>2, <3>1, <3>2
  <2> QED
    BY <1>b, <2>3, <2>4
<1>d. /\ cpc[c] = "await_hello" /\ copen[c] /\ ~reset[c]
      /\ UNCHANGED <<req, finished, serverVars, sopen>>
  BY DEF ComputeShares, SocketInv, Running, Waiting
<1>e. /\ spc[c] \in {"ct", "finish", "closed"}
      /\ spc[c] = "ct" => HasKem(s) /\ toServer[c] = <<>>
      /\ spc[c] = "finish" => ~HasKem(s) /\ toServer[c] = <<>>
      /\ spc[c] \in {"ct", "finish"} => toClient'[c] = <<>>
  <2>1. toClient[c] # <<>>
    BY <1>b, Sequences012
  <2>2. spc[c] \in {"ct", "finish"} => toClient[c] = <<r>>
    BY <1>b, <1>d, Sequences012 DEF ReplyInv
  <2> QED
    BY <2>1, <2>2, <1>c, <1>d
    DEF ReplyInv, RequestInv, SocketInv, Early, Reading, Writing
<1>f. PICK ecdh \in Derived(HasEcdh(s) /\ r.srv_pub), kem \in ClientEncaps(s) :
       \/ /\ GivesUp(s, ecdh, kem) /\ Error
          /\ CloseClient(c, Len(toClient[c]) > 1)
          /\ UNCHANGED <<ckey, unsent, toServer>>
       \/ /\ ~GivesUp(s, ecdh, kem) /\ GoOn
          /\ \E k \in Finalised(req[c].kdf, s.id, ecdh, kem) :
               ckey' = [ckey EXCEPT ![c] = k]
          /\ \/ ~HasKem(s) /\ UNCHANGED <<unsent, toServer>>
             \/ /\ HasKem(s) /\ ClientWrite(c, PQCCiphertext(kem = "kem"))
                /\ UNCHANGED unsent
             \/ /\ HasKem(s) /\ unsent' = [unsent EXCEPT ![c] = TRUE]
                /\ UNCHANGED toServer
          /\ UNCHANGED <<copen, reset>>
  BY <1>c DEF ComputeShares
<1>g. GivesUp(s, ecdh, kem) => HasKem(s)
  BY DEF GivesUp, HasKem
<1>h. toServer'[c] # toServer[c] => GoOn /\ spc[c] = "ct" /\ sopen[c]
        /\ ~GivesUp(s, ecdh, kem) /\ toServer'[c] = <<Ct(kem)>>
  BY <1>e, <1>f, Sequences012 DEF SocketInv, Early, Reading, Writing
<1>i. sopen[c] <=> spc[c] \in {"ct", "finish"}
  BY <1>e DEF SocketInv, Early, Reading, Writing
<1>1. SocketInv(c)'
  BY <1>d, <1>e, <1>f DEF SocketInv, Early, Reading, Writing, Running, Waiting
<1>2. req' = req /\ Hellos(c)' = Hellos(c) /\ Replies(c)' = Replies(c)
  BY <1>d DEF Hellos, Replies, Exported, ClientHello, ServerHello, HasEcdh, May
<1>3. RequestInv(c)'
  <2>1. CASE Error
    BY <2>1, <1>2, <1>d, <1>e, <1>h DEF RequestInv, Early, Writing
  <2>2. CASE GoOn
    <3>1. spc[c] = "ct" =>
            \/ toServer'[c] = <<Ct(kem)>>
            \/ toServer'[c] = <<>> /\ unsent'[c]
      <4> HIDE DEF Ct
      <4>1. ~GivesUp(s, ecdh, kem)
        BY <2>2, <1>f
      <4>2. CASE toServer'[c] = toServer[c]
        BY <4>1, <4>2, <1>e, <1>f, <1>i, Sequences012 DEF Ct
      <4>3. CASE toServer'[c] # toServer[c]
        BY <4>3, <1>h
      <4> QED
        BY <4>2, <4>3
    <3>2. (kem = "kem") \in BOOLEAN
      OBVIOUS
    <3>3. GoOn /\ ~reset'[c]
      BY <2>2, <1>d, <1>f
    <3>4. spc[c] = "ct" => toServer'[c] \in {<<>>} \cup
                             {<<PQCCiphertext(g)>> : g \in BOOLEAN}
      BY <3>1, <3>2
    <3>5. spc[c] = "ct" /\ toServer'[c] = <<>> => unsent'[c]
      BY <3>1, Sequences012
    <3>6. cpc'[c] = "await_fin" /\ spc' = spc /\ shello' = shello
      BY <2>2, <1>d
    <3>7. spc[c] # "ct" => toServer'[c] = toServer[c]
      BY <1>h
    <3> QED
      BY <3>3, <3>4, <3>5, <3>6, <3>7, <1>2, <1>d, <1>e
      DEF RequestInv, Early, Writing
  <2> QED
    BY <2>1, <2>2, <1>f
<1>4. ReplyInv(c)'
  BY <1>2, <1>c, <1>d, <1>e, <1>f, <1>g, <1>i, Sequences012
  DEF ReplyInv, Early, Writing, Waiting
<1>5. KeyInv(c)'
  <2> USE DEF KeyInv
  <2>1. ~finished[c]
    BY <1>d
  <2>2. CASE Error
    BY <2>1, <2>2, <1>2, <1>c, <1>d, <1>e, <1>h DEF Early
  <2>3. CASE GoOn
    <3> SUFFICES ASSUME Faults \cap KeyFaults = {}
                 PROVE  KeyInv(c)'
      BY <2>1, <2>3, <1>d
    <3>1. ~GivesUp(s, ecdh, kem)
      BY <2>3, <1>f
    <3>2. r.srv_pub = HasEcdh(s)
      <4>1. PICK p \in Exported(HasEcdh(s)) : r = ServerHello("SEQUENTIAL", p)
        BY DEF Replies
      <4>2. p = HasEcdh(s)
        <5>1. Exported(HasEcdh(s)) = {HasEcdh(s)}
          BY <1>a, OneOutcome
        <5> QED
          BY <4>1, <5>1
      <4> QED
        BY <4>1, <4>2 DEF ServerHello
    <3>3. ecdh = Wanted(HasEcdh(s), "dh")
      BY <3>2, <1>a, <1>f, OneOutcome
    <3>4. kem = Wanted(HasKem(s), "kem")
      BY <3>1, <1>a, <1>f, OneOutcome DEF GivesUp, Wanted
    <3>5. Complete(ckey'[c], req[c])
      <4>1. ckey' = [ckey EXCEPT ![c] =
               [kdf |-> req[c].kdf, id |-> s.id, ecdh |-> ecdh, kem |-> kem]]
        BY <3>1, <1>f, OneKey
      <4> QED
        BY <4>1, <3>3, <3>4 DEF Complete, Wanted
    <3>6. spc[c] = "ct" => \A i \in DOMAIN toServer'[c] : toServer'[c][i].good
      <4>1. CASE toServer'[c] = toServer[c]
        BY <4>1, <1>e
      <4>2. CASE toServer'[c] # toServer[c]
        <5>1. kem = "kem"
          BY <4>2, <1>e, <1>h, <3>4 DEF Wanted
        <5> QED
          BY <4>2, <5>1, <1>h DEF PQCCiphertext
      <4> QED
        BY <4>1, <4>2
    <3> QED
      BY <2>1, <2>3, <3>5, <3>6, <1>2, <1>c, <1>d, <1>e DEF Early
  <2> QED
    BY <2>2, <2>3, <1>f
<1> QED
  BY <1>1, <1>3, <1>4, <1>5

LEMMA ReadServerFinishedKeeps ==
  ASSUME TypeOK, NEW c \in Clients, Conn(c), ReadServerFinished(c)
  PROVE  Conn(c)'
<1> USE DEF TypeOK, ReadServerFinished, CloseClient, CloseHandler,
            HandlerWrite, ClientWrite, Conn
<1>1. SocketInv(c)'
  BY DEF SocketInv, RequestInv, ReplyInv, Early, Reading, Writing, Running,
         Waiting
<1>2. req' = req /\ Hellos(c)' = Hellos(c) /\ Replies(c)' = Replies(c)
  BY DEF Hellos, Replies, Exported, ClientHello, ServerHello, HasEcdh, May
<1>3. RequestInv(c)'
  BY <1>2, Sequences012
  DEF SocketInv, RequestInv, ReplyInv, HasKem, PQCCiphertext, Early, Reading,
      Writing, Running, Waiting
<1>4. ReplyInv(c)'
  BY <1>2, Sequences012
  DEF SocketInv, RequestInv, ReplyInv, HasKem, ServerFinished, Early, Reading,
      Writing, Running, Waiting
<1>5. KeyInv(c)'
  BY <1>2, Sequences012
  DEF SocketInv, RequestInv, ReplyInv, KeyInv, HasKem, HasEcdh,
      ServerFinished, Complete, Wanted, Early, Reading, Writing, Running,
      Waiting
<1> QED
  BY <1>1, <1>3, <1>4, <1>5

LEMMA ClientEOFKeeps ==
  ASSUME TypeOK, NEW c \in Clients, Conn(c), ClientEOF(c)
  PROVE  Conn(c)'
<1> USE DEF TypeOK, ClientEOF, CloseClient, CloseHandler, HandlerWrite,
            ClientWrite, Conn
<1>1. SocketInv(c)'
  BY DEF SocketInv, RequestInv, ReplyInv, Early, Reading, Writing, Running,
         Waiting
<1>2. req' = req /\ Hellos(c)' = Hellos(c) /\ Replies(c)' = Replies(c)
  BY DEF Hellos, Replies, Exported, ClientHello, ServerHello, HasEcdh, May
<1>3. RequestInv(c)'
  BY <1>2, Sequences012
  DEF SocketInv, RequestInv, ReplyInv, HasKem, PQCCiphertext, Early, Reading,
      Writing, Running, Waiting
<1>4. ReplyInv(c)'
  BY <1>2, Sequences012
  DEF SocketInv, RequestInv, ReplyInv, HasKem, ServerFinished, Early, Reading,
      Writing, Running, Waiting
<1>5. KeyInv(c)'
  BY <1>2, Sequences012
  DEF SocketInv, RequestInv, ReplyInv, KeyInv, HasKem, HasEcdh,
      ServerFinished, Complete, Wanted, Early, Reading, Writing, Running,
      Waiting
<1> QED
  BY <1>1, <1>3, <1>4, <1>5

LEMMA KillKeeps ==
  ASSUME TypeOK, NEW c \in Clients, Conn(c), Kill(c)
  PROVE  Conn(c)'
<1> USE DEF TypeOK, Kill, CloseClient, CloseHandler, HandlerWrite,
            ClientWrite, Conn
<1>1. SocketInv(c)'
  BY DEF SocketInv, RequestInv, ReplyInv, Early, Reading, Writing, Running,
         Waiting
<1>2. req' = req /\ Hellos(c)' = Hellos(c) /\ Replies(c)' = Replies(c)
  BY DEF Hellos, Replies, Exported, ClientHello, ServerHello, HasEcdh, May
<1>3. RequestInv(c)'
  BY <1>2, Sequences012
  DEF SocketInv, RequestInv, ReplyInv, HasKem, PQCCiphertext, Early, Reading,
      Writing, Running, Waiting
<1>4. ReplyInv(c)'
  BY <1>2, Sequences012
  DEF SocketInv, RequestInv, ReplyInv, HasKem, ServerFinished, Early, Reading,
      Writing, Running, Waiting
<1>5. KeyInv(c)'
  BY <1>2, Sequences012
  DEF SocketInv, RequestInv, ReplyInv, KeyInv, HasKem, HasEcdh,
      ServerFinished, Complete, Wanted, Early, Reading, Writing, Running,
      Waiting
<1> QED
  BY <1>1, <1>3, <1>4, <1>5

LEMMA AcceptKeeps ==
  ASSUME TypeOK, NEW c \in Clients, Conn(c), Accept(c)
  PROVE  Conn(c)'
<1> USE DEF TypeOK, Accept, CloseClient, CloseHandler, HandlerWrite,
            ClientWrite, Conn
<1>1. SocketInv(c)'
  BY DEF SocketInv, RequestInv, ReplyInv, Early, Reading, Writing, Running,
         Waiting
<1>2. req' = req /\ Hellos(c)' = Hellos(c) /\ Replies(c)' = Replies(c)
  BY DEF Hellos, Replies, Exported, ClientHello, ServerHello, HasEcdh, May
<1>3. RequestInv(c)'
  BY <1>2, Sequences012
  DEF SocketInv, RequestInv, ReplyInv, HasKem, PQCCiphertext, Early, Reading,
      Writing, Running, Waiting
<1>4. ReplyInv(c)'
  BY <1>2, Sequences012
  DEF SocketInv, RequestInv, ReplyInv, HasKem, ServerFinished, Early, Reading,
      Writing, Running, Waiting
<1>5. KeyInv(c)'
  BY <1>2, Sequences012
  DEF SocketInv, RequestInv, ReplyInv, KeyInv, HasKem, HasEcdh,
      ServerFinished, Complete, Wanted, Early, Reading, Writing, Running,
      Waiting
<1> QED
  BY <1>1, <1>3, <1>4, <1>5

LEMMA ReadClientHelloKeeps ==
  ASSUME TypeOK, NEW c \in Clients, Conn(c), ReadClientHello(c)
  PROVE  Conn(c)'
<1> USE DEF TypeOK, ReadClientHello, CloseClient, CloseHandler, HandlerWrite,
            ClientWrite, Conn
<1>1. SocketInv(c)'
  BY DEF SocketInv, RequestInv, ReplyInv, Early, Reading, Writing, Running,
         Waiting
<1>2. req' = req /\ Hellos(c)' = Hellos(c) /\ Replies(c)' = Replies(c)
  BY DEF Hellos, Replies, Exported, ClientHello, ServerHello, HasEcdh, May
<1>3. RequestInv(c)'
  BY <1>2, Sequences012
  DEF SocketInv, RequestInv, ReplyInv, HasKem, PQCCiphertext, Early, Reading,
      Writing, Running, Waiting
<1>4. ReplyInv(c)'
  BY <1>2, Sequences012
  DEF SocketInv, RequestInv, ReplyInv, HasKem, ServerFinished, Early, Reading,
      Writing, Running, Waiting
<1>5. KeyInv(c)'
  BY <1>2, Sequences012
  DEF SocketInv, RequestInv, ReplyInv, KeyInv, HasKem, HasEcdh,
      ServerFinished, Complete, Wanted, Early, Reading, Writing, Running,
      Waiting
<1> QED
  BY <1>1, <1>3, <1>4, <1>5

LEMMA HandlerEOFKeeps ==
  ASSUME TypeOK, NEW c \in Clients, Conn(c), HandlerEOF(c)
  PROVE  Conn(c)'
<1> USE DEF TypeOK, HandlerEOF, CloseClient, CloseHandler, HandlerWrite,
            ClientWrite, Conn
<1>1. SocketInv(c)'
  BY DEF SocketInv, RequestInv, ReplyInv, Early, Reading, Writing, Running,
         Waiting
<1>2. req' = req /\ Hellos(c)' = Hellos(c) /\ Replies(c)' = Replies(c)
  BY DEF Hellos, Replies, Exported, ClientHello, ServerHello, HasEcdh, May
<1>3. RequestInv(c)'
  BY <1>2, Sequences012
  DEF SocketInv, RequestInv, ReplyInv, HasKem, PQCCiphertext, Early, Reading,
      Writing, Running, Waiting
<1>4. ReplyInv(c)'
  BY <1>2, Sequences012
  DEF SocketInv, RequestInv, ReplyInv, HasKem, ServerFinished, Early, Reading,
      Writing, Running, Waiting
<1>5. KeyInv(c)'
  BY <1>2, Sequences012
  DEF SocketInv, RequestInv, ReplyInv, KeyInv, HasKem, HasEcdh,
      ServerFinished, Complete, Wanted, Early, Reading, Writing, Running,
      Waiting
<1> QED
  BY <1>1, <1>3, <1>4, <1>5

LEMMA ServerSetupFailsKeeps ==
  ASSUME TypeOK, NEW c \in Clients, Conn(c), ServerSetupFails(c)
  PROVE  Conn(c)'
<1> USE DEF TypeOK, ServerSetupFails, CloseClient, CloseHandler, HandlerWrite,
            ClientWrite, Conn
<1>1. SocketInv(c)'
  BY DEF SocketInv, RequestInv, ReplyInv, Early, Reading, Writing, Running,
         Waiting
<1>2. req' = req /\ Hellos(c)' = Hellos(c) /\ Replies(c)' = Replies(c)
  BY DEF Hellos, Replies, Exported, ClientHello, ServerHello, HasEcdh, May
<1>3. RequestInv(c)'
  BY <1>2, Sequences012
  DEF SocketInv, RequestInv, ReplyInv, HasKem, PQCCiphertext, Early, Reading,
      Writing, Running, Waiting
<1>4. ReplyInv(c)'
  BY <1>2, Sequences012
  DEF SocketInv, RequestInv, ReplyInv, HasKem, ServerFinished, Early, Reading,
      Writing, Running, Waiting
<1>5. KeyInv(c)'
  BY <1>2, Sequences012
  DEF SocketInv, RequestInv, ReplyInv, KeyInv, HasKem, HasEcdh,
      ServerFinished, Complete, Wanted, Early, Reading, Writing, Running,
      Waiting
<1> QED
  BY <1>1, <1>3, <1>4, <1>5

LEMMA SendServerHelloKeeps ==
  ASSUME TypeOK, NEW c \in Clients, Conn(c), SendServerHello(c)
  PROVE  Conn(c)'
<1> USE DEF TypeOK, Conn
<1> DEFINE s == req[c].suite
           after == IF HasKem(s) THEN "ct" ELSE "finish"
<1>a. s \in Suites /\ req[c].kdf \in KdfTypes /\ HasEcdh(s) \in BOOLEAN
  BY DEF Request, HasEcdh
<1>b. shello[c] \in Hellos(c) /\ shello[c].id = s.id
  BY DEF SendServerHello, RequestInv, Hellos, ClientHello, Writing
<1>c. PICK ecdh \in Derived(HasEcdh(s) /\ shello[c].c_pub), pub \in Exported(HasEcdh(s)) :
        /\ secdh' = [secdh EXCEPT ![c] = ecdh]
        /\ HandlerWrite(c, ServerHello("SEQUENTIAL", pub))
        /\ spc' = [spc EXCEPT ![c] = after]
  <2>1. get_combo_by_id(shello[c].id) = {s}
    BY <1>a, <1>b, SuiteFacts
  <2>2. PICK t \in {s} :
          /\ \E ecdh \in Derived(HasEcdh(t) /\ shello[c].c_pub) :
               secdh' = [secdh EXCEPT ![c] = ecdh]
          /\ \E pub \in Exported(HasEcdh(t)) :
               HandlerWrite(c, ServerHello("SEQUENTIAL", pub))
          /\ spc' = [spc EXCEPT ![c] = AfterReply(t)]
    BY <2>1 DEF SendServerHello
  <2> HIDE DEF s
  <2>3. t = s
    BY <2>2
  <2> QED
    BY <2>2, <2>3 DEF AfterReply
<1>d. /\ spc[c] = "reply"
      /\ UNCHANGED <<clientVars, server, shello, skem, skey, toServer, copen, sopen>>
  BY DEF SendServerHello
<1>e. PICK r \in Replies(c) : r = ServerHello("SEQUENTIAL", pub)
  BY <1>c DEF Replies
<1>f. /\ toClient[c] = <<>>
      /\ toClient' = [toClient EXCEPT ![c] = IF copen[c] THEN <<r>> ELSE <<>>]
      /\ reset' = [reset EXCEPT ![c] = ~copen[c]]
  BY <1>c, <1>d, <1>e, Sequences012 DEF ReplyInv, HandlerWrite
<1>g. spc'[c] = after /\ after \in {"ct", "finish"}
  BY <1>c
<1>1. SocketInv(c)'
  BY <1>d, <1>f, <1>g
  DEF SocketInv, ReplyInv, Early, Reading, Writing, Running, Waiting
<1>2. req' = req /\ Hellos(c)' = Hellos(c) /\ Replies(c)' = Replies(c)
  BY <1>d DEF Hellos, Replies, Exported, ClientHello, ServerHello, HasEcdh, May
<1>3. RequestInv(c)'
  BY <1>2, <1>b, <1>d, <1>f, <1>g
  DEF SocketInv, RequestInv, ReplyInv, HasKem, Early, Reading, Writing, Running, Waiting
<1>4. ReplyInv(c)'
  <2>1. r # ServerFinished
    BY <1>e DEF ServerHello, ServerFinished
  <2>2. \A i \in DOMAIN toClient'[c] : toClient'[c][i] # ServerFinished
    BY <1>f, <2>1
  <2> QED
    BY <2>2, <1>2, <1>d, <1>f, <1>g
    DEF SocketInv, RequestInv, ReplyInv, HasKem, Early, Reading, Writing, Running, Waiting
<1>5. KeyInv(c)'
  <2>1. Faults \cap KeyFaults = {} => secdh'[c] = Wanted(HasEcdh(s), "dh")
    <3> SUFFICES ASSUME Faults \cap KeyFaults = {}
                 PROVE  ecdh = Wanted(HasEcdh(s), "dh")
      BY <1>c
    <3>1. shello[c].c_pub = HasEcdh(s)
      <4>1. PICK p \in Exported(HasEcdh(s)) : shello[c] = ClientHello(req[c], p)
        BY <1>b DEF Hellos
      <4>2. p = HasEcdh(s)
        <5>1. Exported(HasEcdh(s)) = {HasEcdh(s)}
          BY <1>a, OneOutcome
        <5> QED
          BY <4>1, <5>1
      <4> QED
        BY <4>1, <4>2 DEF ClientHello
    <3> QED
      BY <3>1, <1>a, <1>c, OneOutcome
  <2>2. \A i \in DOMAIN toClient'[c] : toClient'[c][i] # ServerFinished
    BY <1>4, <1>g DEF ReplyInv
  <2>3. cpc'[c] # "ok" /\ cpc'[c] # "await_fin"
    BY <1>d DEF ReplyInv
  <2> QED
    BY <2>1, <2>2, <2>3, <1>2, <1>d, <1>f, <1>g
    DEF KeyInv, RequestInv, ReplyInv, Wanted, HasKem, HasEcdh, Early, Reading, Writing, Running, Waiting
<1> QED
  BY <1>1, <1>3, <1>4, <1>5

LEMMA ReadCiphertextKeeps ==
  ASSUME TypeOK, NEW c \in Clients, Conn(c), ReadCiphertext(c)
  PROVE  Conn(c)'
<1> USE DEF TypeOK, Conn, CloseHandler
<1> DEFINE s == req[c].suite
<1>a. s \in Suites
  BY DEF Request
<1>b. PICK g \in BOOLEAN : toServer[c] = <<PQCCiphertext(g)>>
  BY DEF ReadCiphertext, RequestInv
<1>c. Head(toServer[c]) = PQCCiphertext(g) /\ PQCCiphertext(g).good = g
  BY <1>b, Sequences012 DEF PQCCiphertext
<1>d. /\ spc[c] = "ct" /\ HasKem(s) /\ ~reset[c]
      /\ toServer' = [toServer EXCEPT ![c] = <<>>]
      /\ UNCHANGED <<clientVars, server, shello, secdh, skey, toClient, copen, reset>>
  BY <1>b, Sequences012 DEF ReadCiphertext, RequestInv
<1>e. \/ /\ spc' = [spc EXCEPT ![c] = "finish"] /\ UNCHANGED sopen
         /\ \E kem \in Decapsulated(g) : skem' = [skem EXCEPT ![c] = kem]
      \/ /\ spc' = [spc EXCEPT ![c] = "closed"] /\ UNCHANGED skem
         /\ sopen' = [sopen EXCEPT ![c] = FALSE]
  BY <1>c DEF ReadCiphertext
<1>f. cpc[c] \in {"await_fin", "killed"} /\ toClient[c] = <<>>
  BY <1>b, <1>d, Sequences012 DEF RequestInv, ReplyInv
<1>g. \A i \in DOMAIN toClient[c] : toClient[c][i] # ServerFinished
  BY <1>d DEF ReplyInv
<1>1. SocketInv(c)'
  BY <1>d, <1>e DEF SocketInv, Early, Reading, Writing, Running, Waiting
<1>2. req' = req /\ Hellos(c)' = Hellos(c) /\ Replies(c)' = Replies(c)
  BY <1>d DEF Hellos, Replies, Exported, ClientHello, ServerHello, HasEcdh, May
<1>3. RequestInv(c)'
  BY <1>2, <1>d, <1>e, <1>f
  DEF RequestInv, Early, Reading, Writing, Running, Waiting
<1>4. ReplyInv(c)'
  BY <1>2, <1>d, <1>e, <1>f, <1>g
  DEF ReplyInv, Early, Reading, Writing, Running, Waiting
<1>5. KeyInv(c)'
  <2>1. Faults \cap KeyFaults = {} /\ spc'[c] = "finish" => skem'[c] = "kem"
    <3> SUFFICES ASSUME Faults \cap KeyFaults = {}, spc'[c] = "finish"
                 PROVE  skem'[c] = "kem"
      OBVIOUS
    <3>1. g = TRUE
      BY <1>b, <1>c, <1>d DEF KeyInv
    <3>2. Decapsulated(g) = {"kem"}
      BY <3>1, <1>a, OneOutcome
    <3> QED
      BY <3>2, <1>d, <1>e
  <2> QED
    BY <2>1, <1>2, <1>d, <1>e, <1>f, <1>g
    DEF KeyInv, Wanted, Early, Reading, Writing, Running, Waiting
<1> QED
  BY <1>1, <1>3, <1>4, <1>5

LEMMA SendFinishedKeeps ==
  ASSUME TypeOK, NEW c \in Clients, Conn(c), SendFinished(c)
  PROVE  Conn(c)'
<1> USE DEF TypeOK, Conn, CloseHandler
<1> DEFINE s == req[c].suite
<1>a. s \in Suites
  BY DEF Request
<1>b. /\ spc[c] = "finish" /\ ~reset[c]
      /\ spc' = [spc EXCEPT ![c] = "closed"]
      /\ sopen' = [sopen EXCEPT ![c] = FALSE]
      /\ toClient' = [toClient EXCEPT
                       ![c] = IF copen[c] THEN Append(@, ServerFinished) ELSE @]
      /\ reset' = [reset EXCEPT ![c] = ~copen[c]]
      /\ UNCHANGED <<clientVars, server, shello, secdh, skem, toServer, copen>>
  BY DEF SendFinished, HandlerWrite
<1>c. PICK k \in Finalised(shello[c].kdf, shello[c].id, secdh[c], skem[c]) :
        skey' = [skey EXCEPT ![c] = k]
  BY DEF SendFinished
<1>d. cpc[c] \in Waiting \cup {"killed"} /\ (copen[c] <=> cpc[c] \in Running)
  BY <1>b DEF ReplyInv, SocketInv
<1>1. SocketInv(c)'
  BY <1>b, <1>d DEF SocketInv, Early, Reading, Writing, Running, Waiting
<1>2. req' = req /\ Hellos(c)' = Hellos(c) /\ Replies(c)' = Replies(c)
  BY <1>b DEF Hellos, Replies, Exported, ClientHello, ServerHello, HasEcdh, May
<1>3. RequestInv(c)'
  BY <1>2, <1>b, <1>d DEF RequestInv, Early, Reading, Writing, Running, Waiting
<1>4. ReplyInv(c)'
  <2>1. cpc[c] = "await_hello" =>
          \E r \in Replies(c) : toClient'[c] = <<r, ServerFinished>>
    <3> SUFFICES ASSUME cpc[c] = "await_hello"
                 PROVE  \E r \in Replies(c) : toClient'[c] = <<r, ServerFinished>>
      OBVIOUS
    <3>1. PICK r \in Replies(c) : toClient[c] = <<r>>
      BY <1>b DEF ReplyInv
    <3>2. copen[c]
      BY <1>d DEF Running, Waiting
    <3>3. toClient'[c] = Append(<<r>>, ServerFinished)
      BY <1>b, <3>1, <3>2
    <3> QED
      BY <3>3, Sequences012
  <2>2. cpc[c] = "await_fin" => toClient'[c] = <<ServerFinished>>
    BY <1>b, <1>d, Sequences012 DEF ReplyInv, Running, Waiting
  <2> QED
    BY <2>1, <2>2, <1>2, <1>b, <1>d
    DEF ReplyInv, Early, Reading, Writing, Running, Waiting
<1>5. KeyInv(c)'
  <2>1. Faults \cap KeyFaults = {} => Complete(skey'[c], req[c])
    <3> SUFFICES ASSUME Faults \cap KeyFaults = {}
                 PROVE  Complete(k, req[c])
      BY <1>c
    <3>1. shello[c].kdf = req[c].kdf /\ shello[c].id = s.id
      BY <1>b DEF RequestInv, Hellos, ClientHello, Writing
    <3>2. secdh[c] = Wanted(HasEcdh(s), "dh") /\ skem[c] = Wanted(HasKem(s), "kem")
      BY <1>b DEF KeyInv
    <3>3. k = [kdf |-> shello[c].kdf, id |-> shello[c].id, ecdh |-> secdh[c],
               kem |-> skem[c]]
      BY <1>c, OneKey
    <3> QED
      BY <3>1, <3>2, <3>3 DEF Complete, Wanted
  <2>2. ~finished[c]
    BY <1>d DEF KeyInv, Waiting
  <2> QED
    BY <2>1, <2>2, <1>2, <1>b, <1>d
    DEF KeyInv, Early, Reading, Writing, Running, Waiting
<1> QED
  BY <1>1, <1>3, <1>4, <1>5

LEMMA WriteFailsKeeps ==
  ASSUME TypeOK, NEW c \in Clients, Conn(c), WriteFails(c)
  PROVE  Conn(c)'
<1> USE DEF TypeOK, WriteFails, CloseClient, CloseHandler, HandlerWrite,
            ClientWrite, Conn
<1>1. SocketInv(c)'
  BY DEF SocketInv, RequestInv, ReplyInv, Early, Reading, Writing, Running,
         Waiting
<1>2. req' = req /\ Hellos(c)' = Hellos(c) /\ Replies(c)' = Replies(c)
  BY DEF Hellos, Replies, Exported, ClientHello, ServerHello, HasEcdh, May
<1>3. RequestInv(c)'
  BY <1>2, Sequences012
  DEF SocketInv, RequestInv, ReplyInv, HasKem, PQCCiphertext, Early, Reading,
      Writing, Running, Waiting
<1>4. ReplyInv(c)'
  BY <1>2, Sequences012
  DEF SocketInv, RequestInv, ReplyInv, HasKem, ServerFinished, Early, Reading,
      Writing, Running, Waiting
<1>5. KeyInv(c)'
  BY <1>2, Sequences012
  DEF SocketInv, RequestInv, ReplyInv, KeyInv, HasKem, HasEcdh,
      ServerFinished, Complete, Wanted, Early, Reading, Writing, Running,
      Waiting
<1> QED
  BY <1>1, <1>3, <1>4, <1>5

----------------------------------------------------------------------------
(* Types *)

LEMMA TypesOfValues ==
  ASSUME NEW r \in Request, NEW b \in BOOLEAN
  PROVE  /\ ClientHello(r, b) \in HelloMsg
         /\ PQCCiphertext(b) \in CtMsg
         /\ ServerHello("SEQUENTIAL", b) \in ReplyMsg
         /\ ServerFinished \in FinMsg
         /\ Derived(b) \subseteq Shares /\ Decapsulated(b) \subseteq Shares
         /\ Exported(b) \subseteq BOOLEAN
         /\ ClientEncaps(r.suite) \subseteq Shares
BY DEF Request, ClientHello, HelloMsg, PQCCiphertext, CtMsg, ServerHello,
       ReplyMsg,
       ServerFinished, FinMsg, Derived, Decapsulated, Exported, ClientEncaps, Shares

LEMMA TypesOfKeys ==
  ASSUME NEW kdf \in {"sha256", "blake3"}, NEW id \in Nat, NEW e \in Shares,
         NEW k \in Shares
  PROVE  Finalised(kdf, id, e, k) \subseteq Keys
BY DEF Finalised, Keys, NoKey, Shares

LEMMA TypesKept ==
  ASSUME TypeOK, NEW c \in Clients, Conn(c), OwnStep(c) \/ SigPipe(c)
  PROVE  TypeOK'
<1> USE DEF CloseClient, CloseHandler
<1>a. req[c] \in Request /\ req[c].suite \in Suites /\ req[c].kdf \in {"sha256", "blake3"}
      /\ req[c].suite.id \in Nat
  <2>1. req[c] \in Request
    BY DEF TypeOK
  <2>2. req[c].suite \in Suites /\ req[c].kdf \in KdfTypes
    BY <2>1 DEF Request
  <2> QED
    BY <2>1, <2>2, SuiteFacts, HandshakeAssumption
<1>b. HasEcdh(req[c].suite) \in BOOLEAN
  BY DEF HasEcdh
<1>c. Hellos(c) \subseteq HelloMsg /\ Replies(c) \subseteq ReplyMsg
  BY <1>a, <1>b, TypesOfValues DEF Hellos, Replies
<1>d. ServerFinished \in FinMsg
  BY DEF ServerFinished, FinMsg
<1>1. CASE Connect(c)
  BY <1>1, <1>a DEF Connect, TypeOK, Running, Waiting, Reading, Writing
<1>2. CASE ClientSetupFails(c)
  BY <1>2, <1>a DEF ClientSetupFails, TypeOK, Running, Waiting, Reading, Writing
<1>3. CASE SendClientHello(c)
  <2>1. PICK m \in Hellos(c) : ClientWrite(c, m)
    BY <1>3 DEF SendClientHello, Hellos
  <2>2. toServer' \in [Clients -> Seq(HelloMsg \cup CtMsg)]
    BY <2>1, <1>c DEF TypeOK, ClientWrite
  <2> QED
    BY <1>3, <2>2 DEF SendClientHello, TypeOK, Running, Waiting
<1>4. CASE PkAllocFails(c)
  BY <1>4, <1>a DEF PkAllocFails, TypeOK, Running, Waiting, Reading, Writing
<1>5. CASE ComputeShares(c)
  <2>1. PICK r \in Replies(c) : Head(toClient[c]) = r
    BY <1>5, Sequences012 DEF ComputeShares, ReplyInv, Conn
  <2>2. r.srv_pub \in BOOLEAN
    BY <2>1, <1>c DEF ReplyMsg
  <2>3. Derived(HasEcdh(req[c].suite) /\ r.srv_pub) \subseteq Shares
    BY <1>a, <1>b, <2>2, TypesOfValues
  <2>4. ClientEncaps(req[c].suite) \subseteq Shares
    BY <1>a, TypesOfValues
  <2>5. toClient' \in [Clients -> Seq(ReplyMsg \cup FinMsg)]
    BY <1>5 DEF ComputeShares, TypeOK
  <2>6. PICK ecdh \in Shares, kem \in Shares :
          \/ /\ cpc' = [cpc EXCEPT ![c] = "error"]
             /\ CloseClient(c, Len(toClient[c]) > 1)
             /\ UNCHANGED <<ckey, unsent, toServer>>
          \/ /\ cpc' = [cpc EXCEPT ![c] = "await_fin"]
             /\ \E k \in Finalised(req[c].kdf, req[c].suite.id, ecdh, kem) :
                  ckey' = [ckey EXCEPT ![c] = k]
             /\ \/ UNCHANGED <<unsent, toServer>>
                \/ ClientWrite(c, PQCCiphertext(kem = "kem")) /\ UNCHANGED unsent
                \/ unsent' = [unsent EXCEPT ![c] = TRUE] /\ UNCHANGED toServer
             /\ UNCHANGED <<copen, reset>>
    BY <1>5, <2>1, <2>3, <2>4 DEF ComputeShares
  <2>7. Finalised(req[c].kdf, req[c].suite.id, ecdh, kem) \subseteq Keys
    BY <1>a, TypesOfKeys
  <2>8. toServer' \in [Clients -> Seq(HelloMsg \cup CtMsg)]
    <3>1. PQCCiphertext(kem = "kem") \in CtMsg
      BY DEF PQCCiphertext, CtMsg
    <3>2. \/ toServer' = toServer
          \/ \E m \in CtMsg : ClientWrite(c, m)
      BY <2>6, <3>1
    <3>3. toServer \in [Clients -> Seq(HelloMsg \cup CtMsg)]
      BY DEF TypeOK
    <3>4. CASE \E m \in CtMsg : ClientWrite(c, m)
      <4>1. PICK m \in CtMsg : ClientWrite(c, m)
        BY <3>4
      <4>2. m \in HelloMsg \cup CtMsg
        OBVIOUS
      <4> QED
        BY <3>3, <4>1, <4>2 DEF ClientWrite
    <3> QED
      BY <3>2, <3>3, <3>4
  <2>9. /\ ckey' \in [Clients -> Keys] /\ unsent' \in [Clients -> BOOLEAN]
        /\ cpc' \in [Clients -> {"new", "ok", "error", "killed"} \cup Running]
        /\ copen' \in [Clients -> BOOLEAN] /\ reset' \in [Clients -> BOOLEAN]
    BY <2>6, <2>7 DEF TypeOK, Running, Waiting
  <2> QED
    BY <1>5, <2>5, <2>8, <2>9 DEF ComputeShares, TypeOK
<1>6. CASE ReadServerFinished(c)
  BY <1>6, <1>a
  DEF ReadServerFinished, TypeOK, Running, Waiting, Reading, Writing
<1>7. CASE ClientEOF(c)
  BY <1>7, <1>a DEF ClientEOF, TypeOK, Running, Waiting, Reading, Writing
<1>8. CASE Kill(c)
  BY <1>8, <1>a DEF Kill, TypeOK, Running, Waiting, Reading, Writing
<1>9. CASE Accept(c)
  BY <1>9, <1>a DEF Accept, TypeOK, Running, Waiting, Reading, Writing
<1>10. CASE ReadClientHello(c)
  <2>1. Head(toServer[c]) \in Hellos(c)
    BY <1>10, Sequences012 DEF ReadClientHello, RequestInv, Conn, Early
  <2>2. shello' \in [Clients -> HelloMsg \cup {NoHello}]
    BY <1>10, <1>c, <2>1 DEF ReadClientHello, TypeOK
  <2>3. toServer' \in [Clients -> Seq(HelloMsg \cup CtMsg)]
    BY <1>10 DEF ReadClientHello, TypeOK
  <2> QED
    BY <1>10, <2>2, <2>3 DEF ReadClientHello, TypeOK, Reading, Writing
<1>11. CASE HandlerEOF(c)
  BY <1>11, <1>a DEF HandlerEOF, TypeOK, Running, Waiting, Reading, Writing
<1>12. CASE ServerSetupFails(c)
  BY <1>12, <1>a
  DEF ServerSetupFails, TypeOK, Running, Waiting, Reading, Writing
<1>13. CASE SendServerHello(c)
  <2> DEFINE s == req[c].suite
  <2>1. PICK p \in BOOLEAN : shello[c] = ClientHello(req[c], p)
    BY <1>13, <1>a, <1>b, TypesOfValues
    DEF SendServerHello, RequestInv, Conn, Hellos, Writing
  <2>2. get_combo_by_id(shello[c].id) = {s} /\ shello[c].c_pub \in BOOLEAN
    <3>1. shello[c].id = s.id /\ shello[c].c_pub = p
      BY <2>1 DEF ClientHello
    <3> QED
      BY <3>1, <1>a, SuiteFacts
  <2>3. Derived(HasEcdh(s) /\ shello[c].c_pub) \subseteq Shares
    BY <1>a, <1>b, <2>2, TypesOfValues
  <2>4. PICK t \in {s} :
          /\ \E ecdh \in Derived(HasEcdh(t) /\ shello[c].c_pub) :
               secdh' = [secdh EXCEPT ![c] = ecdh]
          /\ \E pub \in Exported(HasEcdh(t)) :
               HandlerWrite(c, ServerHello("SEQUENTIAL", pub))
          /\ spc' = [spc EXCEPT ![c] = AfterReply(t)]
    BY <1>13, <2>2 DEF SendServerHello
  <2>5. secdh' \in [Clients -> Shares]
    BY <2>3, <2>4 DEF TypeOK
  <2>6. PICK m \in ReplyMsg : HandlerWrite(c, m)
    BY <1>a, <1>b, <1>c, <2>4 DEF Replies
  <2>7. toClient' \in [Clients -> Seq(ReplyMsg \cup FinMsg)]
        /\ reset' \in [Clients -> BOOLEAN]
    BY <2>6 DEF HandlerWrite, TypeOK
  <2>8. spc' \in [Clients -> {"none", "queued", "lost", "closed"}
                                \cup Reading \cup Writing]
    BY <2>4 DEF AfterReply, TypeOK, Reading, Writing
  <2> QED
    BY <1>13, <2>5, <2>7, <2>8 DEF SendServerHello, TypeOK
<1>14. CASE ReadCiphertext(c)
  <2>1. PICK g \in BOOLEAN : Head(toServer[c]).good = g
    BY <1>14, Sequences012 DEF ReadCiphertext, RequestInv, Conn, PQCCiphertext
  <2>2. Decapsulated(Head(toServer[c]).good) \subseteq Shares
    BY <1>a, <2>1, TypesOfValues
  <2>3. toServer' \in [Clients -> Seq(HelloMsg \cup CtMsg)]
    BY <1>14 DEF ReadCiphertext, TypeOK
  <2>4. skem' \in [Clients -> Shares]
    BY <1>14, <2>2 DEF ReadCiphertext, TypeOK
  <2> QED
    BY <1>14, <2>3, <2>4 DEF ReadCiphertext, TypeOK, Reading, Writing
<1>15. CASE SendFinished(c)
  <2>1. PICK p \in BOOLEAN : shello[c] = ClientHello(req[c], p)
    BY <1>15, <1>a, <1>b, TypesOfValues
    DEF SendFinished, RequestInv, Conn, Hellos, Writing
  <2>2. Finalised(shello[c].kdf, shello[c].id, secdh[c], skem[c]) \subseteq Keys
    BY <2>1, <1>a, TypesOfKeys DEF ClientHello, TypeOK
  <2>3. skey' \in [Clients -> Keys]
    BY <1>15, <2>2 DEF SendFinished, TypeOK
  <2>4. toClient' \in [Clients -> Seq(ReplyMsg \cup FinMsg)]
        /\ reset' \in [Clients -> BOOLEAN]
    BY <1>15, <1>d DEF SendFinished, HandlerWrite, TypeOK
  <2> QED
    BY <1>15, <2>3, <2>4 DEF SendFinished, TypeOK, Reading, Writing
<1>16. CASE WriteFails(c)
  BY <1>16, <1>a DEF WriteFails, TypeOK, Running, Waiting, Reading, Writing
<1>17. CASE SigPipe(c)
  BY <1>17, <1>a DEF SigPipe, TypeOK, Running, Waiting, Reading, Writing
<1> QED
  BY <1>1, <1>2, <1>3, <1>4, <1>5, <1>6, <1>7, <1>8, <1>9, <1>10, <1>11, <1>12,
     <1>13, <1>14, <1>15, <1>16, <1>17
  DEF OwnStep, ClientStep

----------------------------------------------------------------------------
(* The server dies *)

\* A handler that writes to a connection that was reset has a classical suite
\* and a client that was killed.
LEMMA OnlyDeathsReset ==
  ASSUME TypeOK, NEW c \in Clients, Conn(c), spc[c] \in Writing, reset[c]
  PROVE  cpc[c] = "killed" /\ req[c].suite.profile = "PURE_CLASSICAL"
<1>1. spc[c] = "finish"
  BY DEF Conn, ReplyInv, Writing
<1>2. cpc[c] = "killed" /\ ~HasKem(req[c].suite)
  BY <1>1 DEF Conn, ReplyInv
<1>3. req[c].suite \in Suites
  <2>1. req[c] \in Request
    BY DEF TypeOK
  <2> QED
    BY <2>1 DEF Request
<1> QED
  BY <1>2, <1>3, SuiteFacts

LEMMA SigPipeKeeps ==
  ASSUME TypeOK, NEW c \in Clients, NEW d \in Clients, Conn(d), SigPipe(c)
  PROVE  Conn(d)'
<1> USE DEF SigPipe, Conn
<1>1. /\ spc'[d] = IF spc[d] = "none" THEN "none" ELSE "closed"
      /\ sopen'[d] = FALSE
  OBVIOUS
<1>2. UNCHANGED <<clientVars, shello, secdh, skem, skey, toServer, toClient, copen, reset>>
  OBVIOUS
<1>3. /\ Hellos(d)' = Hellos(d) /\ Replies(d)' = Replies(d)
  BY <1>2 DEF Hellos, Replies
<1>4. SocketInv(d)'
  BY <1>1, <1>2 DEF SocketInv, Early, Reading, Writing, Running
<1>5. RequestInv(d)'
  BY <1>1, <1>2, <1>3 DEF RequestInv, Early, Writing
<1>6. ReplyInv(d)'
  BY <1>1, <1>2, <1>3 DEF ReplyInv, Early
<1>7. KeyInv(d)'
  BY <1>1, <1>2 DEF KeyInv, Early
<1> QED
  BY <1>4, <1>5, <1>6, <1>7

----------------------------------------------------------------------------
(* The invariant *)

\* Only SigPipe changes the server, and no step changes what was asked for.
LEMMA RequestsStay ==
  ASSUME NEW c \in Clients, OwnStep(c)
  PROVE  req' = req /\ server' = server
<1>1. CASE Connect(c)
  BY <1>1 DEF Connect
<1>2. CASE ClientSetupFails(c)
  BY <1>2 DEF ClientSetupFails
<1>3. CASE SendClientHello(c)
  BY <1>3 DEF SendClientHello
<1>4. CASE PkAllocFails(c)
  BY <1>4 DEF PkAllocFails
<1>5. CASE ComputeShares(c)
  BY <1>5 DEF ComputeShares
<1>6. CASE ReadServerFinished(c)
  BY <1>6 DEF ReadServerFinished
<1>7. CASE ClientEOF(c)
  BY <1>7 DEF ClientEOF
<1>8. CASE Kill(c)
  BY <1>8 DEF Kill
<1>9. CASE Accept(c)
  BY <1>9 DEF Accept
<1>10. CASE ReadClientHello(c)
  BY <1>10 DEF ReadClientHello
<1>11. CASE HandlerEOF(c)
  BY <1>11 DEF HandlerEOF
<1>12. CASE ServerSetupFails(c)
  BY <1>12 DEF ServerSetupFails
<1>13. CASE SendServerHello(c)
  BY <1>13 DEF SendServerHello
<1>14. CASE ReadCiphertext(c)
  BY <1>14 DEF ReadCiphertext
<1>15. CASE SendFinished(c)
  BY <1>15 DEF SendFinished
<1>16. CASE WriteFails(c)
  BY <1>16 DEF WriteFails
<1> QED
  BY <1>1, <1>2, <1>3, <1>4, <1>5, <1>6, <1>7, <1>8, <1>9, <1>10, <1>11,
     <1>12, <1>13, <1>14, <1>15, <1>16
  DEF OwnStep, ClientStep

LEMMA OwnKeeps ==
  ASSUME TypeOK, NEW c \in Clients, Conn(c), OwnStep(c)
  PROVE  Conn(c)'
BY ConnectKeeps, ClientSetupFailsKeeps, SendClientHelloKeeps,
   PkAllocFailsKeeps, ComputeSharesKeeps, ReadServerFinishedKeeps,
   ClientEOFKeeps, KillKeeps, AcceptKeeps, ReadClientHelloKeeps,
   HandlerEOFKeeps, ServerSetupFailsKeeps, SendServerHelloKeeps,
   ReadCiphertextKeeps, SendFinishedKeeps, WriteFailsKeeps
DEF OwnStep, ClientStep

LEMMA KilledStays ==
  ASSUME TypeOK, NEW c \in Clients, OwnStep(c), cpc[c] = "killed"
  PROVE  cpc'[c] = "killed"
<1>1. CASE Connect(c)
  BY <1>1 DEF Connect, TypeOK, Running, Waiting
<1>2. CASE ClientSetupFails(c)
  BY <1>2 DEF ClientSetupFails, TypeOK, Running, Waiting
<1>3. CASE SendClientHello(c)
  BY <1>3 DEF SendClientHello, TypeOK, Running, Waiting
<1>4. CASE PkAllocFails(c)
  BY <1>4 DEF PkAllocFails, TypeOK, Running, Waiting
<1>5. CASE ComputeShares(c)
  BY <1>5 DEF ComputeShares, TypeOK, Running, Waiting
<1>6. CASE ReadServerFinished(c)
  BY <1>6 DEF ReadServerFinished, TypeOK, Running, Waiting
<1>7. CASE ClientEOF(c)
  BY <1>7 DEF ClientEOF, TypeOK, Running, Waiting
<1>8. CASE Kill(c)
  BY <1>8 DEF Kill, TypeOK, Running, Waiting
<1>9. CASE Accept(c)
  BY <1>9 DEF Accept, TypeOK, Running, Waiting
<1>10. CASE ReadClientHello(c)
  BY <1>10 DEF ReadClientHello, TypeOK, Running, Waiting
<1>11. CASE HandlerEOF(c)
  BY <1>11 DEF HandlerEOF, TypeOK, Running, Waiting
<1>12. CASE ServerSetupFails(c)
  BY <1>12 DEF ServerSetupFails, TypeOK, Running, Waiting
<1>13. CASE SendServerHello(c)
  BY <1>13 DEF SendServerHello, TypeOK, Running, Waiting
<1>14. CASE ReadCiphertext(c)
  BY <1>14 DEF ReadCiphertext, TypeOK, Running, Waiting
<1>15. CASE SendFinished(c)
  BY <1>15 DEF SendFinished, TypeOK, Running, Waiting
<1>16. CASE WriteFails(c)
  BY <1>16 DEF WriteFails, TypeOK, Running, Waiting
<1> QED
  BY <1>1, <1>2, <1>3, <1>4, <1>5, <1>6, <1>7, <1>8, <1>9, <1>10, <1>11,
     <1>12, <1>13, <1>14, <1>15, <1>16
  DEF OwnStep, ClientStep

LEMMA InitHolds ==
  ASSUME Init
  PROVE  IInv
<1>1. TypeOK
  BY DEF Init, TypeOK, Request, Keys, NoKey, Shares
<1>2. ASSUME NEW c \in Clients
      PROVE  SocketInv(c) /\ RequestInv(c) /\ ReplyInv(c) /\ KeyInv(c)
  <2> USE DEF Init, Early, Reading, Writing, Running, Waiting
  <2>1. SocketInv(c)
    BY DEF SocketInv
  <2>2. RequestInv(c)
    BY DEF RequestInv
  <2>3. ReplyInv(c)
    BY DEF ReplyInv
  <2>4. KeyInv(c)
    BY DEF KeyInv
  <2> QED
    BY <2>1, <2>2, <2>3, <2>4
<1>3. OnlyClassicalDeathsKill
  BY DEF Init, OnlyClassicalDeathsKill
<1> QED
  BY <1>1, <1>2, <1>3 DEF IInv

LEMMA StepHolds ==
  ASSUME IInv, [Next]_vars
  PROVE  IInv'
<1>a. TypeOK /\ \A d \in Clients : Conn(d)
  BY DEF IInv, Conn
<1>1. CASE UNCHANGED vars
  <2>1. TypeOK'
    BY <1>a, <1>1 DEF TypeOK, vars
  <2>2. ASSUME NEW d \in Clients PROVE Conn(d)'
    <3>1. Same(d) /\ req' = req /\ server' = server
      BY <1>1 DEF Same, vars
    <3> QED
      BY <1>a, <3>1, SameConn
  <2>3. OnlyClassicalDeathsKill'
    BY <1>1 DEF IInv, OnlyClassicalDeathsKill, vars
  <2> QED
    BY <2>1, <2>2, <2>3 DEF IInv, Conn
<1>2. ASSUME NEW c \in Clients, OwnStep(c) PROVE IInv'
  <2>1. TypeOK'
    BY <1>a, <1>2, TypesKept
  <2>2. req' = req /\ server' = server
    BY <1>2, RequestsStay
  <2>3. ASSUME NEW d \in Clients PROVE Conn(d)'
    <3>1. CASE d = c
      BY <1>a, <1>2, <3>1, OwnKeeps
    <3>2. CASE d # c
      BY <1>a, <1>2, <2>2, <3>2, OthersSame, SameConn
    <3> QED
      BY <3>1, <3>2
  <2>4. OnlyClassicalDeathsKill'
    <3> SUFFICES ASSUME server' = "dead"
                 PROVE  \E d \in Clients : /\ cpc'[d] = "killed"
                                           /\ req'[d].suite.profile = "PURE_CLASSICAL"
      BY DEF OnlyClassicalDeathsKill
    <3>1. PICK d \in Clients : /\ cpc[d] = "killed"
                               /\ req[d].suite.profile = "PURE_CLASSICAL"
      BY <2>2 DEF IInv, OnlyClassicalDeathsKill
    <3>2. cpc'[d] = "killed"
      BY <1>2, <1>a, <3>1, KilledStays, OthersSame DEF Same
    <3> QED
      BY <2>2, <3>1, <3>2
  <2> QED
    BY <2>1, <2>3, <2>4 DEF IInv, Conn
<1>3. ASSUME NEW c \in Clients, SigPipe(c) PROVE IInv'
  <2>1. TypeOK'
    BY <1>a, <1>3, TypesKept
  <2>2. \A d \in Clients : Conn(d)'
    BY <1>a, <1>3, SigPipeKeeps
  <2>3. cpc[c] = "killed" /\ req[c].suite.profile = "PURE_CLASSICAL"
    BY <1>a, <1>3, OnlyDeathsReset DEF SigPipe
  <2>4. OnlyClassicalDeathsKill'
    BY <1>3, <2>3 DEF OnlyClassicalDeathsKill, SigPipe
  <2> QED
    BY <2>1, <2>2, <2>4 DEF IInv, Conn
<1> QED
  BY <1>1, <1>2, <1>3 DEF Next, OwnStep, HandlerStep

\* The inductive invariant of the handshake: what is open, in flight and
\* computed at each point of client.c:398-682 and server.c:132-352.
THEOREM Invariance == Spec => []IInv
<1>1. Init => IInv
  BY InitHolds
<1>2. IInv /\ [Next]_vars => IInv'
  BY StepHolds
<1> QED
  BY <1>1, <1>2, PTL DEF Spec

\* Every variable keeps its type.
THEOREM TypeCorrect == Spec => []TypeOK
<1>1. IInv => TypeOK
  BY DEF IInv
<1> QED
  BY <1>1, Invariance, PTL

\* A client that saw ServerFinished (client.c:670-681) has the key the handler
\* derived (server.c:282-304), with every share of its suite in it.
THEOREM KeyAgreement == Spec => []KeysAgree
<1>1. ASSUME IInv PROVE KeysAgree
  <2> SUFFICES ASSUME Faults \cap KeyFaults = {}, NEW c \in Clients, finished[c]
               PROVE  Complete(ckey[c], req[c]) /\ skey[c] = ckey[c]
    BY DEF KeysAgree
  <2>1. Complete(ckey[c], req[c]) /\ Complete(skey[c], req[c])
    BY <1>1 DEF IInv, KeyInv
  <2> QED
    BY <2>1 DEF Complete
<1> QED
  BY <1>1, Invariance, PTL

\* Client and handler never wait for each other, where the code went on with
\* neither a missing thread (server.c:642) nor a missing packet (client.c:594).
THEOREM NobodyWaitsInVain == Spec => []WaiterIsServed
<1>1. ASSUME IInv PROVE WaiterIsServed
  <2> SUFFICES ASSUME NEW c \in Clients, cpc[c] \in Waiting, toClient[c] = <<>>,
                      sopen[c], spc[c] \notin {"queued"} \cup Writing,
                      spc[c] # "lost", ~unsent[c]
               PROVE  spc[c] \in Reading /\ toServer[c] # <<>>
    BY DEF WaiterIsServed
  <2>1. SocketInv(c) /\ RequestInv(c) /\ ReplyInv(c)
    BY <1>1 DEF IInv
  <2>2. spc[c] \in Reading
    BY <2>1 DEF SocketInv, Early, Reading
  <2>3. CASE spc[c] = "hello"
    BY <2>1, <2>2, <2>3 DEF RequestInv, ReplyInv, Early, Waiting, Reading
  <2>4. CASE spc[c] = "ct"
    <3>1. cpc[c] # "await_hello"
      <4> SUFFICES ASSUME cpc[c] = "await_hello" PROVE FALSE
        OBVIOUS
      <4>1. PICK r \in Replies(c) : toClient[c] = <<r>>
        BY <2>1, <2>4 DEF ReplyInv
      <4> QED
        BY <4>1, Sequences012
    <3> QED
      BY <2>1, <2>4, <3>1 DEF RequestInv, Waiting, Reading
  <2> QED
    BY <2>2, <2>3, <2>4 DEF Reading
<1> QED
  BY <1>1, Invariance, PTL

\* Without the death of a client of a classical suite the server survives every
\* client and every failure (send_all, network_utils.c:154-164).
THEOREM ServerSurvives == Spec => []OnlyClassicalDeathsKill
<1>1. IInv => OnlyClassicalDeathsKill
  BY DEF IInv
<1> QED
  BY <1>1, Invariance, PTL

\* A client's key changes only where it is computed, and from there on the
\* client waits for ServerFinished or has ended.
LEMMA KeyIsKept ==
  ASSUME TypeOK, NEW c \in Clients, NEW d \in Clients,
         OwnStep(c) \/ SigPipe(c), ~(c = d /\ ComputeShares(c)),
         cpc'[d] \in {"await_fin", "ok"}
  PROVE  cpc[d] \in {"await_fin", "ok"} /\ ckey'[d] = ckey[d] /\ req' = req
<1> USE DEF TypeOK
<1>0. CASE ComputeShares(c) /\ c # d
  BY <1>0 DEF ComputeShares
<1>1. CASE Connect(c)
  BY <1>1 DEF Connect
<1>2. CASE ClientSetupFails(c)
  BY <1>2 DEF ClientSetupFails
<1>3. CASE SendClientHello(c)
  BY <1>3 DEF SendClientHello
<1>4. CASE PkAllocFails(c)
  BY <1>4 DEF PkAllocFails
<1>5. CASE ReadServerFinished(c)
  BY <1>5 DEF ReadServerFinished
<1>6. CASE ClientEOF(c)
  BY <1>6 DEF ClientEOF, Waiting
<1>7. CASE Kill(c)
  BY <1>7 DEF Kill
<1>8. CASE Accept(c)
  BY <1>8 DEF Accept
<1>9. CASE ReadClientHello(c)
  BY <1>9 DEF ReadClientHello
<1>10. CASE HandlerEOF(c)
  BY <1>10 DEF HandlerEOF
<1>11. CASE ServerSetupFails(c)
  BY <1>11 DEF ServerSetupFails
<1>12. CASE SendServerHello(c)
  BY <1>12 DEF SendServerHello
<1>13. CASE ReadCiphertext(c)
  BY <1>13 DEF ReadCiphertext
<1>14. CASE SendFinished(c)
  BY <1>14 DEF SendFinished
<1>15. CASE WriteFails(c)
  BY <1>15 DEF WriteFails
<1>16. CASE SigPipe(c)
  BY <1>16 DEF SigPipe
<1> QED
  BY <1>0, <1>1, <1>2, <1>3, <1>4, <1>5, <1>6, <1>7, <1>8, <1>9, <1>10, <1>11,
     <1>12, <1>13, <1>14, <1>15, <1>16
  DEF OwnStep, ClientStep

\* What a hybrid client puts in the key it computes.
LEMMA HybridKey ==
  ASSUME TypeOK, NEW c \in Clients, ComputeShares(c), cpc'[c] \in {"await_fin", "ok"},
         req[c].suite.profile = "HYBRID", ckey'[c] # NoKey
  PROVE  /\ ckey'[c].kem = "kem"
         /\ ckey'[c].ecdh = "dh" \/ (ckey'[c].ecdh = "blank" /\ May("derive"))
<1> DEFINE s == req[c].suite
<1>1. PICK ecdh \in Derived(HasEcdh(s) /\ Head(toClient[c]).srv_pub),
           kem \in ClientEncaps(s) :
        /\ ~GivesUp(s, ecdh, kem)
        /\ \E k \in Finalised(req[c].kdf, s.id, ecdh, kem) :
             ckey' = [ckey EXCEPT ![c] = k]
  BY DEF ComputeShares, TypeOK
<1>2. PICK k \in Finalised(req[c].kdf, s.id, ecdh, kem) : ckey'[c] = k
  BY <1>1 DEF TypeOK
<1>3. k.ecdh = ecdh /\ k.kem = kem
  BY <1>2 DEF Finalised
<1>4. kem = "kem"
  BY <1>1 DEF GivesUp, HasKem, ClientEncaps
<1>5. ecdh = "dh" \/ (ecdh = "blank" /\ May("derive"))
  BY <1>1 DEF GivesUp, Derived
<1> QED
  BY <1>2, <1>3, <1>4, <1>5

\* Whatever fails, a hybrid client that goes on has both shares in its key, the
\* classical one blank at worst (client.c:581-583, 618-620).
THEOREM NoDowngrade == Spec => []NoClientDowngrade
<1>1. Init => NoClientDowngrade
  BY DEF Init, NoClientDowngrade
<1>2. IInv /\ NoClientDowngrade /\ [Next]_vars => NoClientDowngrade'
  <2> SUFFICES ASSUME IInv, NoClientDowngrade, [Next]_vars, NEW d \in Clients,
                      cpc'[d] \in {"await_fin", "ok"},
                      req'[d].suite.profile = "HYBRID", ckey'[d] # NoKey
               PROVE  /\ ckey'[d].kem = "kem"
                      /\ \/ ckey'[d].ecdh = "dh"
                         \/ ckey'[d].ecdh = "blank" /\ May("derive")
    BY DEF NoClientDowngrade, May
  <2>1. CASE UNCHANGED vars
    BY <2>1 DEF NoClientDowngrade, vars
  <2>2. ASSUME NEW c \in Clients, OwnStep(c) \/ SigPipe(c),
               ~(c = d /\ ComputeShares(c))
        PROVE  /\ ckey'[d].kem = "kem"
               /\ \/ ckey'[d].ecdh = "dh"
                  \/ ckey'[d].ecdh = "blank" /\ May("derive")
    <3>1. cpc[d] \in {"await_fin", "ok"} /\ ckey'[d] = ckey[d] /\ req' = req
      BY <2>2, KeyIsKept DEF IInv
    <3> QED
      BY <3>1 DEF NoClientDowngrade
  <2>3. CASE ComputeShares(d)
    <3>1. req' = req
      BY <2>3 DEF ComputeShares
    <3> QED
      BY <2>3, <3>1, HybridKey DEF IInv
  <2> QED
    BY <2>1, <2>2, <2>3 DEF Next, OwnStep, HandlerStep
<1> QED
  BY <1>1, <1>2, Invariance, PTL DEF Spec

----------------------------------------------------------------------------
(* Refinement of KeyAgreement *)

KeySafe == Faults \cap KeyFaults = {}

\* When the keys are made: the client's before it waits for ServerFinished, the
\* server's on the way out, and where a ciphertext is needed the client first.
MadeInv(c) ==
  /\ ckey[c] # NoKey => cpc[c] \in {"await_fin", "ok", "killed"}
  /\ skey[c] # NoKey => spc[c] = "closed"
  /\ KeySafe /\ HasKem(req[c].suite) =>
       /\ spc[c] = "finish" => ckey[c] # NoKey
       /\ spc[c] = "ct" /\ toServer[c] # <<>> => ckey[c] # NoKey

\* The key due is a key.
LEMMA DueIsSet ==
  ASSUME NEW r \in Request
  PROVE  DueKey(r) # NoKey
<1>1. r.kdf # "failed"
  BY HandshakeAssumption DEF Request
<1> QED
  BY <1>1 DEF NoKey

\* A step of one connection, other than the three that make or use a key.
LEMMA QuietStep ==
  ASSUME NEW c \in Clients, OwnStep(c) \/ SigPipe(c), ~ComputeShares(c),
         ~ReadServerFinished(c), ~SendFinished(c)
  PROVE  UNCHANGED <<ckey, skey, finished>>
<1>1. CASE Connect(c)
  BY <1>1 DEF Connect
<1>2. CASE ClientSetupFails(c)
  BY <1>2 DEF ClientSetupFails
<1>3. CASE SendClientHello(c)
  BY <1>3 DEF SendClientHello
<1>4. CASE PkAllocFails(c)
  BY <1>4 DEF PkAllocFails
<1>5. CASE ClientEOF(c)
  BY <1>5 DEF ClientEOF
<1>6. CASE Kill(c)
  BY <1>6 DEF Kill
<1>7. CASE Accept(c)
  BY <1>7 DEF Accept
<1>8. CASE ReadClientHello(c)
  BY <1>8 DEF ReadClientHello
<1>9. CASE HandlerEOF(c)
  BY <1>9 DEF HandlerEOF
<1>10. CASE ServerSetupFails(c)
  BY <1>10 DEF ServerSetupFails
<1>11. CASE SendServerHello(c)
  BY <1>11 DEF SendServerHello
<1>12. CASE ReadCiphertext(c)
  BY <1>12 DEF ReadCiphertext
<1>13. CASE WriteFails(c)
  BY <1>13 DEF WriteFails
<1>14. CASE SigPipe(c)
  BY <1>14 DEF SigPipe
<1> QED
  BY <1>1, <1>2, <1>3, <1>4, <1>5, <1>6, <1>7, <1>8, <1>9, <1>10, <1>11, <1>12, <1>13, <1>14 DEF OwnStep, ClientStep

LEMMA ComputeSharesMade ==
  ASSUME IInv, NEW c \in Clients, MadeInv(c), ComputeShares(c)
  PROVE  /\ MadeInv(c)'
         /\ ckey[c] = NoKey /\ ckey' = [ckey EXCEPT ![c] = ckey'[c]]
         /\ UNCHANGED <<skey, finished>>
         /\ KeySafe => ckey'[c] \in {NoKey, DueKey(req[c])}
<1> DEFINE s == req[c].suite
<1>a. TypeOK /\ Conn(c)
  BY DEF IInv, Conn
<1>b. s \in Suites /\ req' = req /\ spc' = spc /\ skey' = skey /\ finished' = finished
  BY <1>a DEF ComputeShares, TypeOK, Request
<1>c. cpc[c] = "await_hello" /\ ckey[c] = NoKey
  BY DEF ComputeShares, MadeInv
<1>1. CASE UNCHANGED <<ckey, toServer>> /\ cpc' = [cpc EXCEPT ![c] = "error"]
  BY <1>1, <1>a, <1>b, <1>c DEF MadeInv, TypeOK
<1>2. CASE /\ cpc' = [cpc EXCEPT ![c] = "await_fin"]
           /\ \E ecdh \in Derived(HasEcdh(s) /\ Head(toClient[c]).srv_pub),
                 kem \in ClientEncaps(s) :
                /\ ~GivesUp(s, ecdh, kem)
                /\ \E k \in Finalised(req[c].kdf, s.id, ecdh, kem) :
                     ckey' = [ckey EXCEPT ![c] = k]
  <2>1. ckey' = [ckey EXCEPT ![c] = ckey'[c]] /\ cpc'[c] = "await_fin"
    BY <1>2, <1>a DEF TypeOK
  <2>2. Conn(c)'
    BY <1>a, ComputeSharesKeeps
  <2>3. KeySafe => ckey'[c] = DueKey(req[c])
    BY <1>b, <2>1, <2>2 DEF Conn, KeyInv, KeySafe, Complete
  <2>4. DueKey(req[c]) # NoKey
    BY <1>a, DueIsSet DEF TypeOK
  <2>5. MadeInv(c)'
    BY <1>b, <2>1, <2>3, <2>4 DEF MadeInv, KeySafe
  <2> QED
    BY <1>b, <1>c, <2>1, <2>3, <2>5
<1> QED
  BY <1>1, <1>2 DEF ComputeShares

LEMMA SendFinishedMade ==
  ASSUME IInv, NEW c \in Clients, MadeInv(c), SendFinished(c)
  PROVE  /\ MadeInv(c)'
         /\ skey[c] = NoKey /\ skey' = [skey EXCEPT ![c] = skey'[c]]
         /\ UNCHANGED <<ckey, finished>>
         /\ KeySafe => skey'[c] = DueKey(req[c])
         /\ KeySafe /\ HasKem(req[c].suite) => ckey[c] # NoKey
<1>a. TypeOK /\ Conn(c)
  BY DEF IInv, Conn
<1>1. /\ spc[c] = "finish" /\ spc'[c] = "closed" /\ skey[c] = NoKey
      /\ UNCHANGED <<req, cpc, ckey, finished>>
  BY <1>a DEF SendFinished, CloseHandler, TypeOK, MadeInv
<1>2. PICK k \in Finalised(shello[c].kdf, shello[c].id, secdh[c], skem[c]) :
        skey' = [skey EXCEPT ![c] = k]
  BY DEF SendFinished
<1>3. skey' = [skey EXCEPT ![c] = skey'[c]] /\ skey'[c] = k
  BY <1>2, <1>a DEF TypeOK
<1>4. KeySafe => k = DueKey(req[c])
  <2> SUFFICES ASSUME KeySafe PROVE k = DueKey(req[c])
    OBVIOUS
  <2>1. /\ secdh[c] = Wanted(HasEcdh(req[c].suite), "dh")
        /\ skem[c] = Wanted(HasKem(req[c].suite), "kem")
    BY <1>a, <1>1 DEF Conn, KeyInv, KeySafe
  <2>2. shello[c].kdf = req[c].kdf /\ shello[c].id = req[c].suite.id
    BY <1>a, <1>1 DEF Conn, RequestInv, Writing, Hellos, ClientHello
  <2>3. k = [kdf |-> shello[c].kdf, id |-> shello[c].id,
             ecdh |-> secdh[c], kem |-> skem[c]]
    BY <1>2, OneKey DEF KeySafe
  <2> QED
    BY <2>1, <2>2, <2>3 DEF Wanted
<1>5. MadeInv(c)'
  BY <1>1 DEF MadeInv
<1>6. KeySafe /\ HasKem(req[c].suite) => ckey[c] # NoKey
  BY <1>1 DEF MadeInv
<1> QED
  BY <1>1, <1>3, <1>4, <1>5, <1>6

LEMMA ReadServerFinishedMade ==
  ASSUME IInv, NEW c \in Clients, MadeInv(c), ReadServerFinished(c)
  PROVE  /\ MadeInv(c)'
         /\ ~finished[c] /\ finished' = [finished EXCEPT ![c] = TRUE]
         /\ UNCHANGED <<ckey, skey>>
         /\ KeySafe => ckey[c] = DueKey(req[c]) /\ skey[c] = DueKey(req[c])
<1>a. TypeOK /\ Conn(c) /\ Conn(c)'
  BY ReadServerFinishedKeeps DEF IInv, Conn
<1>1. /\ cpc[c] = "await_fin" /\ cpc'[c] = "ok" /\ finished'[c] = TRUE
      /\ finished' = [finished EXCEPT ![c] = TRUE]
      /\ UNCHANGED <<req, ckey, skey, spc, toServer>>
  BY <1>a DEF ReadServerFinished, TypeOK
<1>2. ~finished[c]
  BY <1>a, <1>1 DEF Conn, KeyInv
<1>3. KeySafe => ckey[c] = DueKey(req[c]) /\ skey[c] = DueKey(req[c])
  BY <1>a, <1>1 DEF Conn, KeyInv, KeySafe, Complete
<1>4. MadeInv(c)'
  BY <1>1 DEF MadeInv, KeySafe
<1> QED
  BY <1>1, <1>2, <1>3, <1>4

\* No other step makes a key, nor brings its handler closer to one.
LEMMA QuietMade ==
  ASSUME IInv, NEW c \in Clients, MadeInv(c), OwnStep(c), ~ComputeShares(c),
         ~ReadServerFinished(c), ~SendFinished(c)
  PROVE  MadeInv(c)'
<1>a. TypeOK /\ Conn(c) /\ UNCHANGED <<ckey, skey, finished, req>>
  BY QuietStep, RequestsStay DEF IInv, Conn
<1> USE <1>a DEF MadeInv, TypeOK, KeySafe
<1>1. CASE Connect(c)
  BY <1>1 DEF Connect, Conn, SocketInv, RequestInv
<1>2. CASE ClientSetupFails(c)
  BY <1>2 DEF ClientSetupFails
<1>3. CASE SendClientHello(c)
  BY <1>3 DEF SendClientHello, ClientWrite, Conn, RequestInv, Early
<1>4. CASE PkAllocFails(c)
  BY <1>4 DEF PkAllocFails
<1>5. CASE ClientEOF(c)
  BY <1>5 DEF ClientEOF
<1>6. CASE Kill(c)
  BY <1>6 DEF Kill, Running, Waiting
<1>7. CASE Accept(c)
  BY <1>7 DEF Accept
<1>8. CASE ReadClientHello(c)
  BY <1>8 DEF ReadClientHello
<1>9. CASE HandlerEOF(c)
  BY <1>9 DEF HandlerEOF, CloseHandler, Conn
<1>10. CASE ServerSetupFails(c)
  BY <1>10 DEF ServerSetupFails, CloseHandler
<1>11. CASE SendServerHello(c)
  <2>1. /\ spc[c] = "reply" /\ toServer' = toServer /\ cpc' = cpc
        /\ \E s \in get_combo_by_id(shello[c].id) : spc'[c] = AfterReply(s)
    BY <1>11 DEF SendServerHello
  <2>2. toServer[c] = <<>> /\ shello[c].id = req[c].suite.id
    BY <2>1 DEF Conn, RequestInv, Writing, Hellos, ClientHello
  <2>3. get_combo_by_id(req[c].suite.id) = {req[c].suite}
    BY SuiteFacts DEF Request
  <2>4. spc'[c] = AfterReply(req[c].suite)
    BY <2>1, <2>2, <2>3
  <2>5. skey[c] = NoKey
    BY <2>1
  <2> QED
    BY <2>1, <2>2, <2>4, <2>5 DEF AfterReply
<1>12. CASE ReadCiphertext(c)
  BY <1>12 DEF ReadCiphertext, CloseHandler, Conn
<1>13. CASE WriteFails(c)
  BY <1>13 DEF WriteFails, CloseHandler
<1> QED
  BY <1>1, <1>2, <1>3, <1>4, <1>5, <1>6, <1>7, <1>8, <1>9, <1>10, <1>11, <1>12, <1>13 DEF OwnStep, ClientStep

\* The end of the server's process makes no key either.
LEMMA SigPipeMade ==
  ASSUME IInv, NEW c \in Clients, SigPipe(c), NEW d \in Clients, MadeInv(d)
  PROVE  MadeInv(d)'
<1>1. UNCHANGED <<req, cpc, ckey, skey, toServer>> /\ spc'[d] \in {"none", "closed"}
  BY DEF SigPipe
<1>2. spc[d] # "none" => spc'[d] = "closed"
  BY DEF SigPipe
<1> QED
  BY <1>1, <1>2 DEF MadeInv, KeySafe

AllMade == \A c \in Clients : MadeInv(c)

LEMMA MadeHolds ==
  ASSUME IInv, AllMade, [Next]_vars
  PROVE  AllMade'
<1> SUFFICES ASSUME NEW d \in Clients PROVE MadeInv(d)'
  BY DEF AllMade
<1>a. TypeOK /\ MadeInv(d)
  BY DEF IInv, AllMade
<1>1. CASE UNCHANGED vars
  BY <1>1, <1>a DEF vars, MadeInv, KeySafe
<1>2. ASSUME NEW c \in Clients, OwnStep(c) PROVE MadeInv(d)'
  <2>1. CASE d # c
    <3>1. Same(d) /\ req' = req
      BY <1>a, <1>2, <2>1, OthersSame, RequestsStay
    <3> QED
      BY <1>a, <3>1 DEF Same, MadeInv, KeySafe
  <2>2. CASE d = c
    BY <1>a, <1>2, <2>2, ComputeSharesMade, SendFinishedMade,
       ReadServerFinishedMade, QuietMade
  <2> QED
    BY <2>1, <2>2
<1>3. ASSUME NEW c \in Clients, SigPipe(c) PROVE MadeInv(d)'
  BY <1>a, <1>3, SigPipeMade
<1> QED
  BY <1>1, <1>2, <1>3 DEF Next, OwnStep, HandlerStep

\* Each step of a connection makes a key, finishes, or is not seen.
LEMMA AgreedStep ==
  ASSUME IInv, AllMade, [Next]_vars
  PROVE  [Agreed!Next]_Agreed!vars
<1> USE DEF Agreed!Next, Agreed!vars, KeySafe
<1>a. TypeOK /\ req \in [Clients -> Request]
  BY DEF IInv, TypeOK
<1>0. CASE UNCHANGED vars
  BY <1>0 DEF vars
<1>r. req' = req
  <2>1. ASSUME NEW c \in Clients, OwnStep(c) PROVE req' = req
    BY <2>1, RequestsStay
  <2>2. ASSUME NEW c \in Clients, SigPipe(c) PROVE req' = req
    BY <2>2 DEF SigPipe
  <2> QED
    BY <1>0, <2>1, <2>2 DEF Next, OwnStep, HandlerStep, vars
<1>d. UNCHANGED <<[c \in Clients |-> DueKey(req[c])],
                  [c \in Clients |-> HasKem(req[c].suite)]>>
  BY <1>r
<1>1. ASSUME NEW c \in Clients, ComputeShares(c) PROVE [Agreed!Next]_Agreed!vars
  <2>1. /\ ckey[c] = NoKey /\ ckey' = [ckey EXCEPT ![c] = ckey'[c]]
        /\ UNCHANGED <<skey, finished>>
        /\ KeySafe => ckey'[c] \in {NoKey, DueKey(req[c])}
    BY <1>1, ComputeSharesMade DEF AllMade
  <2>2. CASE ckey'[c] = NoKey
    <3>1. ckey' = ckey
      BY <1>a, <2>1, <2>2 DEF TypeOK
    <3> QED
      BY <1>d, <2>1, <3>1
  <2>3. CASE ckey'[c] # NoKey
    BY <1>d, <2>1, <2>3 DEF Agreed!ClientMakes, Agreed!Makes
  <2> QED
    BY <2>2, <2>3
<1>2. ASSUME NEW c \in Clients, SendFinished(c) PROVE [Agreed!Next]_Agreed!vars
  <2>1. /\ skey[c] = NoKey /\ skey' = [skey EXCEPT ![c] = skey'[c]]
        /\ UNCHANGED <<ckey, finished>>
        /\ KeySafe => skey'[c] = DueKey(req[c])
        /\ KeySafe /\ HasKem(req[c].suite) => ckey[c] # NoKey
    BY <1>2, SendFinishedMade DEF AllMade
  <2>2. CASE skey'[c] = NoKey
    <3>1. skey' = skey
      BY <1>a, <2>1, <2>2 DEF TypeOK
    <3> QED
      BY <1>d, <2>1, <3>1
  <2>3. CASE skey'[c] # NoKey
    BY <1>d, <2>1, <2>3 DEF Agreed!ServerMakes, Agreed!Makes
  <2> QED
    BY <2>2, <2>3
<1>3. ASSUME NEW c \in Clients, ReadServerFinished(c) PROVE [Agreed!Next]_Agreed!vars
  <2>1. /\ ~finished[c] /\ finished' = [finished EXCEPT ![c] = TRUE]
        /\ UNCHANGED <<ckey, skey>>
        /\ KeySafe => ckey[c] = DueKey(req[c]) /\ skey[c] = DueKey(req[c])
    BY <1>3, ReadServerFinishedMade DEF AllMade
  <2> QED
    BY <1>d, <2>1 DEF Agreed!Finish
<1>4. ASSUME NEW c \in Clients, OwnStep(c) \/ SigPipe(c), ~ComputeShares(c),
             ~SendFinished(c), ~ReadServerFinished(c)
      PROVE  [Agreed!Next]_Agreed!vars
  <2>1. UNCHANGED <<ckey, skey, finished>>
    BY <1>4, QuietStep
  <2> QED
    BY <1>d, <2>1
<1> QED
  BY <1>0, <1>1, <1>2, <1>3, <1>4 DEF Next, OwnStep, HandlerStep

\* The handshake of client.c:398-682 and server.c:132-352 implements KeyAgreement:
\* each end makes its key once, the server's never without the client's where a
\* ciphertext is needed, and ServerFinished is read only when both have theirs.
THEOREM AgreementRefined == Spec => ImplementsKeyAgreement
<1>1. Init => AllMade
  BY DEF Init, AllMade, MadeInv
<1>2. Init => Agreed!Init
  BY DueIsSet DEF Init, Agreed!Init
<1>3. IInv /\ AllMade /\ [Next]_vars => AllMade'
  BY MadeHolds
<1>4. IInv /\ AllMade /\ [Next]_vars => [Agreed!Next]_Agreed!vars
  BY AgreedStep
<1> QED
  BY <1>1, <1>2, <1>3, <1>4, Invariance, PTL
  DEF Spec, ImplementsKeyAgreement, Agreed!Spec

\* What holds of any behaviour that implements KeyAgreement.
Promise(x) ==
  /\ finished[x] => ckey[x] = DueKey(req[x]) /\ skey[x] = DueKey(req[x])
  /\ skey[x] \in {NoKey, DueKey(req[x])}
  /\ skey[x] # NoKey /\ HasKem(req[x].suite) => ckey[x] # NoKey
  /\ ckey[x] \in {NoKey, DueKey(req[x])}

AgreedInv ==
  /\ \A x \in Clients : DueKey(req[x]) # NoKey
  /\ ckey = [x \in Clients |-> ckey[x]] /\ skey = [x \in Clients |-> skey[x]]
  /\ finished = [x \in Clients |-> finished[x]]
  /\ KeySafe => \A x \in Clients : Promise(x)

LEMMA AgreedHolds ==
  ASSUME AgreedInv, [Agreed!Next]_Agreed!vars
  PROVE  AgreedInv'
<1> USE DEF AgreedInv
<1>1. ASSUME NEW x \in Clients
      PROVE  DueKey(req[x])' = DueKey(req[x]) /\ HasKem(req[x].suite)' = HasKem(req[x].suite)
  <2>1. UNCHANGED <<[c \in Clients |-> DueKey(req[c])],
                    [c \in Clients |-> HasKem(req[c].suite)]>>
    BY DEF Agreed!Next, Agreed!vars
  <2>2. /\ [c \in Clients |-> DueKey(req[c])]'[x] = [c \in Clients |-> DueKey(req[c])][x]
        /\ [c \in Clients |-> HasKem(req[c].suite)]'[x]
             = [c \in Clients |-> HasKem(req[c].suite)][x]
    BY <2>1
  <2> QED
    BY <2>2
<1>2. KeySafe' = KeySafe
  BY DEF KeySafe, KeyFaults, SilentFaults
<1> HIDE DEF DueKey
<1>3. CASE UNCHANGED <<ckey, skey, finished>>
  BY <1>1, <1>2, <1>3 DEF Promise
<1>4. ASSUME NEW x \in Clients, Agreed!ClientMakes(x) PROVE AgreedInv'
  <2>1. /\ ckey[x] = NoKey /\ ckey'[x] # NoKey /\ ckey' = [ckey EXCEPT ![x] = ckey'[x]]
        /\ KeySafe => ckey'[x] = DueKey(req[x])
        /\ skey' = skey /\ finished' = finished
    BY <1>4, <1>2 DEF Agreed!ClientMakes, Agreed!Makes, KeySafe
  <2>2. KeySafe => \A y \in Clients : Promise(y)'
    BY <1>1, <2>1 DEF Promise
  <2> QED
    BY <1>1, <1>2, <2>1, <2>2
<1>5. ASSUME NEW x \in Clients, Agreed!ServerMakes(x) PROVE AgreedInv'
  <2>1. /\ skey[x] = NoKey /\ skey' = [skey EXCEPT ![x] = skey'[x]]
        /\ KeySafe => skey'[x] = DueKey(req[x])
        /\ KeySafe /\ HasKem(req[x].suite) => ckey[x] # NoKey
        /\ ckey' = ckey /\ finished' = finished
    BY <1>5, <1>2 DEF Agreed!ServerMakes, Agreed!Makes, KeySafe
  <2>2. KeySafe => \A y \in Clients : Promise(y)'
    BY <1>1, <2>1 DEF Promise
  <2> QED
    BY <1>1, <1>2, <2>1, <2>2
<1>6. ASSUME NEW x \in Clients, Agreed!Finish(x) PROVE AgreedInv'
  <2>1. /\ finished' = [finished EXCEPT ![x] = TRUE]
        /\ KeySafe => ckey[x] = DueKey(req[x]) /\ skey[x] = DueKey(req[x])
        /\ ckey' = ckey /\ skey' = skey
    BY <1>6, <1>2 DEF Agreed!Finish, KeySafe
  <2>2. KeySafe => \A y \in Clients : Promise(y)'
    BY <1>1, <2>1 DEF Promise
  <2> QED
    BY <1>1, <1>2, <2>1, <2>2
<1> QED
  BY <1>3, <1>4, <1>5, <1>6 DEF Agreed!Next, Agreed!vars, Agreed!Fail

\* KeyAgreement is strong enough: whatever implements it, in any way, has both
\* ends of a finished handshake agree on the complete key.
THEOREM AgreementSuffices ==
  ImplementsKeyAgreement => [](Agreed!Agreement /\ KeysAgree)
<1>1. Agreed!Init => AgreedInv
  BY DEF Agreed!Init, AgreedInv, Promise
<1>2. AgreedInv /\ [Agreed!Next]_Agreed!vars => AgreedInv'
  BY AgreedHolds
<1>3. AgreedInv => Agreed!Agreement /\ KeysAgree
  BY DEF AgreedInv, Promise, KeySafe, Agreed!Agreement, KeysAgree, Complete
<1> QED
  BY <1>1, <1>2, <1>3, PTL DEF ImplementsKeyAgreement, Agreed!Spec

=============================================================================
