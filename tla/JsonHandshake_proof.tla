------------------------ MODULE JsonHandshake_proof ------------------------
(* Proofs about JsonHandshake: any client, any server, any suite of the    *)
(* older table and any set and number of failures.                         *)
EXTENDS JsonHandshake, FiniteSetTheorems, SequenceTheorems, TLAPS

(***************************************************************************)
(* The inductive invariant.  Shares and keys are said of a connection that *)
(* no failure has touched that changes one, which Clean says: it can only  *)
(* become false.                                                           *)
(***************************************************************************)
Touching == KeyFaults \cup {"malloc"}
Clean == Blameless(Touching)

OwnEcdh == IF HasEcdh(conf.suite) THEN "dh" ELSE "none"
OwnKem  == IF HasKem(conf.suite) THEN "kem" ELSE "none"
OwnKey  == SessionKey(conf.kdf, conf.suite.id, ProfileSelect.salt, OwnEcdh, OwnKem)

Early == {"queued", "lost", "select"}
Late  == {"close", "closed", "handed", "misread"}
Gone  == {"error", "crashed", "killed"}

ConfInv ==
  /\ conf.suite \in Suites
  /\ conf.suite.profile \in {"HYBRID", "PURE_CLASSICAL", "PURE_QUANTUM"}
  /\ conf.client = "binary" => conf.server = "dispatch"

\* What is on its way to the server, given where the two ends are.  Once the
\* handler has read all it needs, nobody minds.
RequestInv ==
  /\ cpc = "new" => spc = "none"
  /\ spc = "none" => cpc \in {"new", "error"} /\ toServer = <<>> /\ toClient = <<>>
  /\ spc \in Early =>
       \/ cpc = "profile" /\ toServer = <<>>
       \/ /\ cpc = "keypair" /\ HasEcdh(conf.suite)
          /\ toServer = <<>> \/ toServer = <<ProfileSelect>>
       \/ /\ cpc \in {"await_reply"} \cup Gone
          /\ \/ toServer = <<>> \/ toServer = <<ProfileSelect>>
             \/ toServer = <<BinaryHello>>
             \/ /\ HasEcdh(conf.suite)
                /\ \E p \in BOOLEAN : \/ toServer = <<ProfileSelect, ClientHello(p)>>
                                      \/ toServer = <<ClientHello(p)>>
  /\ spc = "hello" =>
       /\ HasEcdh(conf.suite)
       /\ \/ cpc = "keypair" /\ toServer = <<>>
          \/ /\ cpc \in {"await_reply"} \cup Gone
             /\ toServer = <<>> \/ \E p \in BOOLEAN : toServer = <<ClientHello(p)>>
  /\ spc \in {"join_kg", "reply"} =>
       cpc \in {"await_reply"} \cup Gone /\ toServer = <<>>
  /\ spc = "ct" =>
       /\ HasKem(conf.suite)
       /\ \/ cpc \in {"await_reply", "join"} /\ toServer = <<>>
          \/ /\ cpc \in {"await_fin", "ok"} \cup Gone
             /\ toServer = <<>>
                  \/ \E ct \in {"kem", "junk", "missing"} :
                       toServer = <<PQCCiphertext(ct)>> /\ (Clean => ct = "kem")
  /\ cpc \in {"join", "await_fin", "ok"} => spc \in {"ct", "finish"} \cup Late

\* What the handler knows of its client's wishes and of the shares.
HandlerInv ==
  /\ srv_pub \in BOOLEAN
  /\ spc \in {"none", "hello"} \cup Early =>
       srv_pub = FALSE /\ secdh = "none" /\ skem = "none"
  /\ spc \in {"hello", "join_kg", "reply", "ct", "finish"} =>
       /\ sel.suite = conf.suite /\ sel.kdf = conf.kdf
       /\ ReadsFreed \/ sel.salt = ProfileSelect.salt
  /\ spc \in {"join_kg", "reply", "ct", "finish"} /\ Clean =>
       srv_pub = HasEcdh(conf.suite) /\ secdh = OwnEcdh
  /\ spc \in {"join_kg", "reply", "ct"} => skem = "none"
  /\ spc = "finish" /\ Clean => skem = OwnKem

ServerKeyGood ==
  Clean => /\ skey.ecdh = OwnEcdh /\ skey.kem = OwnKem /\ skey.id = conf.suite.id
           /\ ReadsFreed \/ skey = OwnKey

KeyMaterialGood(p, q) ==
  Clean => p = HasEcdh(conf.suite) /\ q = HasKem(conf.suite)

\* What is on its way to the client.
ReplyInv ==
  /\ toClient # <<>> => spc \in {"ct", "finish"} \cup Late
  /\ spc \in {"ct", "finish"} =>
       \/ toClient = <<>>
       \/ \E p, q \in BOOLEAN : toClient = <<KeyMaterial(p, q)>> /\ KeyMaterialGood(p, q)
  /\ spc \in Late =>
       \/ toClient = <<>>
       \/ toClient = <<ServerFinished>> /\ ServerKeyGood
       \/ \E p, q \in BOOLEAN :
            /\ KeyMaterialGood(p, q)
            /\ \/ toClient = <<KeyMaterial(p, q)>>
               \/ toClient = <<KeyMaterial(p, q), ServerFinished>> /\ ServerKeyGood

\* What the client has made of it.
ClientInv ==
  /\ cpc = "join" =>
       /\ conf.suite.profile = "HYBRID" /\ ckey = NoKey
       /\ cecdh \in {"none", "dh", "blank"}
       /\ cecdh = "blank" => "derive" \in failed
  /\ cpc = "await_fin" /\ Clean => ckey = OwnKey \/ (toClient = <<>> /\ spc \in Late)
  /\ finished => cpc = "ok" /\ spc \in Late /\ ServerKeyGood /\ (Clean => ckey = OwnKey)
  /\ cpc \in {"new", "profile", "keypair", "await_reply"} => ckey = NoKey

ThreadInv ==
  /\ cpc = "new" => kg = "none"
  /\ kg = "running" => conf.server = "c"

IInv == /\ ConfInv /\ RequestInv /\ HandlerInv /\ ReplyInv /\ ClientInv /\ ThreadInv
        /\ FramesOutliveThreads /\ NoClientDowngrade

----------------------------------------------------------------------------
(* Facts about data *)

LEMMA ShortSequences ==
  ASSUME NEW m, NEW n
  PROVE  /\ Append(<<>>, m) = <<m>> /\ Append(<<m>>, n) = <<m, n>>
         /\ Head(<<m>>) = m /\ Head(<<m, n>>) = m
         /\ Tail(<<m>>) = <<>> /\ Tail(<<m, n>>) = <<n>>
         /\ <<m>> # <<>> /\ <<m, n>> # <<>>
<1>1. Append(<<m>>, n) = <<m, n>>
  <2>1. /\ <<m>> \in Seq({m, n}) /\ <<m, n>> \in Seq({m, n}) /\ n \in {m, n}
        /\ Len(<<m>>) = 1 /\ Len(<<m, n>>) = 2
    OBVIOUS
  <2>2. /\ Append(<<m>>, n) \in Seq({m, n}) /\ Len(Append(<<m>>, n)) = 2
        /\ Append(<<m>>, n)[1] = m /\ Append(<<m>>, n)[2] = n
    BY <2>1, AppendProperties
  <2>3. \A i \in 1..2 : Append(<<m>>, n)[i] = <<m, n>>[i]
    BY <2>2
  <2> QED
    BY <2>1, <2>2, <2>3, SeqEqual
<1>2. Append(<<>>, m) = <<m>>
  OBVIOUS
<1>3. Head(<<m>>) = m /\ Head(<<m, n>>) = m
  OBVIOUS
<1>4. Tail(<<m>>) = <<>> /\ Tail(<<m, n>>) = <<n>>
  OBVIOUS
<1>5. <<m>> # <<>> /\ <<m, n>> # <<>>
  OBVIOUS
<1> QED
  BY <1>1, <1>2, <1>3, <1>4, <1>5

\* A server finds the row its client meant: the tables have it in common.
LEMMA RowFound ==
  ASSUME NEW s \in Suites, NEW t \in ComboById(s.id)
  PROVE  t = s
BY JsonAssumption DEF ComboById, LEGACY_COMBOS, ALGORITHM_COMBOS, Combo

LEMMA SuiteProfile ==
  ASSUME NEW s \in Suites
  PROVE  s.profile \in {"HYBRID", "PURE_CLASSICAL", "PURE_QUANTUM"}
BY JsonAssumption DEF LEGACY_COMBOS, ALGORITHM_COMBOS, Combo

\* Failures only accumulate.
LEMMA BlameEffect ==
  ASSUME NEW F, Blame(F)
  PROVE  /\ failed \subseteq failed' /\ F \subseteq failed'
         /\ Clean' => Clean /\ F \cap Touching = {}
BY DEF Blame, Clean, Blameless, Touching, KeyFaults

\* What untouched computations yield.
LEMMA ExportedTrue ==
  ASSUME NEW kind, NEW x \in Exported(kind)
  PROVE  /\ x.v \in BOOLEAN
         /\ x.by \cap Touching = {} => x.v = TRUE
<1>1. CASE x = Fine(TRUE)
  BY <1>1 DEF Fine
<1>2. CASE x = Bad(FALSE, "export")
  BY <1>2 DEF Bad, Touching, KeyFaults
<1> QED
  BY <1>1, <1>2 DEF Exported

LEMMA EncodedWanted ==
  ASSUME NEW kind, NEW w \in BOOLEAN, NEW x \in Encoded(w, kind)
  PROVE  /\ x.v \in BOOLEAN
         /\ x.by \cap Touching = {} => x.v = w
<1>1. CASE x = Fine(w)
  BY <1>1 DEF Fine
<1>2. CASE x = Bad(FALSE, "encode")
  BY <1>2 DEF Bad, Touching, KeyFaults
<1> QED
  BY <1>1, <1>2 DEF Encoded

LEMMA DerivedShare ==
  ASSUME NEW pub \in BOOLEAN, NEW x \in Derived(pub)
  PROVE  /\ x.v \in {"none", "dh", "blank"}
         /\ x.v = "blank" => x.by = {"derive"}
         /\ pub /\ x.by \cap Touching = {} => x.v = "dh"
BY DEF Derived, Fine, Bad, Touching, KeyFaults

LEMMA FinalisedKey ==
  ASSUME NEW key, NEW kind, NEW k \in Finalised(key, kind)
  PROVE  /\ k.v \in {key, NoKey}
         /\ k.by \cap Touching = {} => k.v = key
BY DEF Finalised, Fine, Bad, Touching, KeyFaults

LEMMA ClientKeyOwn ==
  ASSUME NEW e, NEW q, NEW k \in ClientKey(e, q)
  PROVE  /\ k.v = NoKey \/ (k.v.ecdh = e /\ k.v.kem = q)
         /\ k.by \cap Touching = {} /\ e = OwnEcdh /\ q = OwnKem => k.v = OwnKey
<1> DEFINE key == SessionKey(conf.kdf, conf.suite.id, ProfileSelect.salt, e, q)
<1>1. k \in Finalised(key, conf.client)
  BY DEF ClientKey
<1>2. key.ecdh = e /\ key.kem = q
  BY DEF SessionKey
<1> QED
  BY <1>1, <1>2, FinalisedKey DEF OwnKey

\* The own key of a connection is a complete one.
LEMMA OwnKeyComplete ==
  /\ OwnKey.ecdh = OwnEcdh /\ OwnKey.kem = OwnKem /\ OwnKey.id = conf.suite.id
  /\ Complete(OwnKey)
BY DEF OwnKey, SessionKey, Complete, OwnEcdh, OwnKem

----------------------------------------------------------------------------
(* What the two sends do *)

LEMMA ClientSendsEffect ==
  ASSUME NEW m, NEW next, NEW F, ClientSends(m, next, F)
  PROVE  /\ failed \subseteq failed' /\ F \subseteq failed'
         /\ Clean' => Clean /\ F \cap Touching = {}
         /\ \/ cpc' = next /\ (toServer' = toServer \/ toServer' = Append(toServer, m))
            \/ cpc' \in Gone /\ toServer' = toServer
<1>1. CASE Blame(F)
  BY <1>1, BlameEffect DEF ClientSends, Gone
<1>2. CASE Blame(F \cup {"send"})
  <2>1. /\ failed \subseteq failed' /\ F \cup {"send"} \subseteq failed'
        /\ Clean' => Clean /\ (F \cup {"send"}) \cap Touching = {}
    BY <1>2, BlameEffect
  <2> QED
    BY <2>1 DEF ClientSends, Gone
<1> QED
  BY <1>1, <1>2 DEF ClientSends

LEMMA HandlerSendsEffect ==
  ASSUME NEW m, NEW next, NEW F, HandlerSends(m, next, F)
  PROVE  /\ failed \subseteq failed' /\ F \subseteq failed'
         /\ Clean' => Clean /\ F \cap Touching = {}
         /\ toServer' = toServer
         /\ \/ spc' = next /\ (toClient' = toClient \/ toClient' = Append(toClient, m))
            \/ spc' \in {"close", "closed"} /\ toClient' = toClient
<1>1. CASE Blame(F)
  BY <1>1, BlameEffect DEF HandlerSends, ServerDies, CloseHandler
<1>2. CASE Blame(F \cup {"send"})
  <2>1. /\ failed \subseteq failed' /\ F \cup {"send"} \subseteq failed'
        /\ Clean' => Clean /\ (F \cup {"send"}) \cap Touching = {}
    BY <1>2, BlameEffect
  <2> QED
    BY <2>1 DEF HandlerSends, ServerDies, CloseHandler
<1> QED
  BY <1>1, <1>2 DEF HandlerSends

----------------------------------------------------------------------------
(* A step leaves alone what it does not touch *)

USE DEF clientVars, handlerVars, shareVars, socketVars

\* Who talks to whom does not change, hence nor does what either should get.
LEMMA ConfStep ==
  ASSUME conf' = conf
  PROVE  /\ ProfileSelect' = ProfileSelect /\ ReadsFreed' = ReadsFreed
         /\ OwnEcdh' = OwnEcdh /\ OwnKem' = OwnKem /\ OwnKey' = OwnKey
         /\ ConfInv' = ConfInv
BY DEF ProfileSelect, ReadsFreed, OwnEcdh, OwnKem, OwnKey, ConfInv

\* A step of the client, as the handler sees it.
LEMMA HandlerIdle ==
  ASSUME IInv, conf' = conf, Clean' => Clean, UNCHANGED <<spc, sel, shareVars>>
  PROVE  HandlerInv'
BY ConfStep DEF IInv, HandlerInv

\* The handler's steps towards its way out leave nothing to say of requests.
LEMMA RequestLate ==
  ASSUME IInv, cpc' = cpc, spc # "none", spc' \in {"finish"} \cup Late
  PROVE  RequestInv'
BY DEF IInv, RequestInv, Early, Late

LEMMA HandlerLate ==
  ASSUME IInv, spc' \in Late, srv_pub' = srv_pub \/ srv_pub' \in BOOLEAN
  PROVE  HandlerInv'
BY DEF IInv, HandlerInv, Early, Late

\* What is on its way to a client stays good, or is read.
LEMMA ReplyKept ==
  ASSUME IInv, conf' = conf, Clean' => Clean, skey' = skey, spc' = spc,
         toClient' = toClient \/ (toClient # <<>> /\ toClient' = Tail(toClient))
  PROVE  ReplyInv'
<1> USE ConfStep
<1>1. ServerKeyGood => ServerKeyGood'
  BY DEF ServerKeyGood
<1>2. \A p, q : KeyMaterialGood(p, q) => KeyMaterialGood(p, q)'
  BY DEF KeyMaterialGood
<1>3. CASE toClient' = toClient
  BY <1>1, <1>2, <1>3 DEF IInv, ReplyInv
<1>4. CASE toClient # <<>> /\ toClient' = Tail(toClient)
  <2>1. CASE spc \in {"ct", "finish"}
    <3>1. \E m : toClient = <<m>>
      BY <1>4, <2>1 DEF IInv, ReplyInv
    <3>2. toClient' = <<>>
      BY <1>4, <3>1, ShortSequences
    <3> QED
      BY <2>1, <3>2 DEF ReplyInv, Late
  <2>2. CASE spc \in Late
    <3>1. PICK m : toClient = <<m>> \/ (toClient = <<m, ServerFinished>> /\ ServerKeyGood)
      BY <1>4, <2>2 DEF IInv, ReplyInv
    <3>2. Tail(<<m>>) = <<>> /\ Tail(<<m, ServerFinished>>) = <<ServerFinished>>
      BY ShortSequences
    <3>3. toClient' = <<>> \/ (toClient' = <<ServerFinished>> /\ ServerKeyGood)
      BY <1>4, <3>1, <3>2
    <3> QED
      BY <2>2, <3>3, <1>1 DEF ReplyInv, Late
  <2> QED
    BY <1>4, <2>1, <2>2 DEF IInv, ReplyInv
<1> QED
  BY <1>3, <1>4

----------------------------------------------------------------------------
(* The client's steps *)

LEMMA ConnectOK ==
  ASSUME IInv, Connect
  PROVE  IInv'
<1> USE DEF IInv, Connect
<1>1. conf' = conf /\ failed \subseteq failed' /\ (Clean' => Clean)
  BY BlameEffect
<1>2. RequestInv'
  BY DEF RequestInv, Early, Late, Gone
<1>3. HandlerInv'
  BY <1>1, ConfStep DEF HandlerInv, RequestInv, Early
<1>4. ReplyInv'
  BY <1>1 DEF ReplyInv, RequestInv, Late
<1>5. ClientInv'
  BY <1>1, ConfStep DEF ClientInv
<1>6. ThreadInv' /\ FramesOutliveThreads' /\ NoClientDowngrade'
  BY <1>1 DEF ThreadInv, FramesOutliveThreads, NoClientDowngrade
<1> QED
  BY <1>1, <1>2, <1>3, <1>4, <1>5, <1>6, ConfStep

LEMMA SendProfileSelectOK ==
  ASSUME IInv, SendProfileSelect
  PROVE  IInv'
<1> USE DEF IInv, SendProfileSelect
<1> DEFINE next == IF HasEcdh(conf.suite) THEN "keypair" ELSE "await_reply"
<1>1. /\ conf' = conf /\ failed \subseteq failed' /\ (Clean' => Clean)
      /\ \/ /\ cpc' = next
            /\ toServer' = toServer \/ toServer' = Append(toServer, ProfileSelect)
         \/ cpc' \in Gone /\ toServer' = toServer
  BY ClientSendsEffect
<1>2. RequestInv'
  BY <1>1, ConfStep, ShortSequences DEF RequestInv, Early, Late, Gone
<1>3. HandlerInv'
  BY <1>1, HandlerIdle
<1>4. ReplyInv'
  BY <1>1, ReplyKept
<1>5. ClientInv'
  BY <1>1, ConfStep DEF ClientInv, Gone
<1>6. ThreadInv' /\ FramesOutliveThreads' /\ NoClientDowngrade'
  BY <1>1 DEF ThreadInv, FramesOutliveThreads, NoClientDowngrade, Gone
<1> QED
  BY <1>1, <1>2, <1>3, <1>4, <1>5, <1>6, ConfStep

LEMMA SendBinaryHelloOK ==
  ASSUME IInv, SendBinaryHello
  PROVE  IInv'
<1> USE DEF IInv, SendBinaryHello
<1>1. /\ conf' = conf /\ failed \subseteq failed' /\ (Clean' => Clean)
      /\ \/ /\ cpc' = "await_reply"
            /\ toServer' = toServer \/ toServer' = Append(toServer, BinaryHello)
         \/ cpc' \in Gone /\ toServer' = toServer
  BY ClientSendsEffect
<1>2. RequestInv'
  BY <1>1, ConfStep, ShortSequences DEF RequestInv, Early, Late, Gone
<1>3. HandlerInv'
  BY <1>1, HandlerIdle
<1>4. ReplyInv'
  BY <1>1, ReplyKept
<1>5. ClientInv'
  BY <1>1, ConfStep DEF ClientInv, Gone
<1>6. ThreadInv' /\ FramesOutliveThreads' /\ NoClientDowngrade'
  BY <1>1 DEF ThreadInv, FramesOutliveThreads, NoClientDowngrade, Gone
<1> QED
  BY <1>1, <1>2, <1>3, <1>4, <1>5, <1>6, ConfStep

LEMMA SendClientHelloOK ==
  ASSUME IInv, SendClientHello
  PROVE  IInv'
<1> USE DEF IInv, SendClientHello
<1>1. /\ conf' = conf /\ failed \subseteq failed' /\ (Clean' => Clean)
      /\ \/ /\ cpc' = "await_reply"
            /\ \/ toServer' = toServer
               \/ \E p \in BOOLEAN : toServer' = Append(toServer, ClientHello(p))
         \/ cpc' \in Gone /\ toServer' = toServer
  <2>1. CASE \E x \in Exported(conf.client) : \E pub \in Encoded(x.v, conf.client) :
               ClientSends(ClientHello(pub.v), "await_reply", x.by \cup pub.by)
    <3>1. PICK x \in Exported(conf.client) : \E pub \in Encoded(x.v, conf.client) :
               ClientSends(ClientHello(pub.v), "await_reply", x.by \cup pub.by)
      BY <2>1
    <3>2. PICK pub \in Encoded(x.v, conf.client) :
               ClientSends(ClientHello(pub.v), "await_reply", x.by \cup pub.by)
      BY <3>1
    <3>3. pub.v \in BOOLEAN
      BY ExportedTrue, EncodedWanted
    <3> QED
      BY <3>2, <3>3, ClientSendsEffect
  <2>2. CASE Blame({"keypair"}) /\ GiveUp
    BY <2>2, BlameEffect DEF GiveUp, Gone
  <2> QED
    BY <2>1, <2>2
<1>2. RequestInv'
  <2>1. CASE toServer' = toServer
    BY <1>1, <2>1, ConfStep DEF RequestInv, Early, Late, Gone
  <2>2. CASE cpc' = "await_reply" /\ \E p \in BOOLEAN : toServer' = Append(toServer, ClientHello(p))
    <3>1. PICK p \in BOOLEAN : toServer' = Append(toServer, ClientHello(p))
      BY <2>2
    <3>2. /\ toServer = <<>> => toServer' = <<ClientHello(p)>>
          /\ toServer = <<ProfileSelect>> => toServer' = <<ProfileSelect, ClientHello(p)>>
      BY <3>1, ShortSequences
    <3>3. spc \in Early => RequestInv'
      BY <2>2, <3>2, ConfStep DEF RequestInv, Early, Late, Gone
    <3>4. spc = "hello" => RequestInv'
      BY <2>2, <3>2, ConfStep DEF RequestInv, Early, Late, Gone
    <3> QED
      BY <2>2, <3>3, <3>4 DEF RequestInv, Early, Late, Gone
  <2> QED
    BY <1>1, <2>1, <2>2
<1>3. HandlerInv'
  BY <1>1, HandlerIdle
<1>4. ReplyInv'
  BY <1>1, ReplyKept
<1>5. ClientInv'
  BY <1>1, ConfStep DEF ClientInv, Gone
<1>6. ThreadInv' /\ FramesOutliveThreads' /\ NoClientDowngrade'
  BY <1>1 DEF ThreadInv, FramesOutliveThreads, NoClientDowngrade, Gone
<1> QED
  BY <1>1, <1>2, <1>3, <1>4, <1>5, <1>6, ConfStep

\* What the client makes of the line it reads first.
Reply == AsKeyMaterial(Head(toClient))

LEMMA ReplyRead ==
  ASSUME IInv, cpc = "await_reply", ClientGets
  PROVE  /\ spc \in {"ct", "finish"} \cup Late
         /\ Reply.c_pub \in BOOLEAN /\ Reply.q_pk \in BOOLEAN
         /\ \/ Clean => Reply.c_pub = HasEcdh(conf.suite) /\ Reply.q_pk = HasKem(conf.suite)
            \/ Reply.q_pk = FALSE /\ toClient' = <<>> /\ spc \in Late
<1> USE DEF ClientGets
<1>1. spc \in {"ct", "finish"} \cup Late
  BY DEF IInv, ReplyInv
<1>2. CASE toClient = <<ServerFinished>> /\ spc \in Late
  <2>1. Head(toClient) = ServerFinished /\ toClient' = <<>>
    BY <1>2, ShortSequences
  <2>2. Reply = KeyMaterial(FALSE, FALSE)
    BY <2>1 DEF Reply, AsKeyMaterial, ServerFinished, KeyMaterial
  <2>3. Reply.c_pub = FALSE /\ Reply.q_pk = FALSE
    BY <2>2 DEF KeyMaterial
  <2> QED
    BY <1>1, <1>2, <2>1, <2>3
<1>3. CASE \E p, q \in BOOLEAN :
             /\ KeyMaterialGood(p, q)
             /\ \/ toClient = <<KeyMaterial(p, q)>>
                \/ toClient = <<KeyMaterial(p, q), ServerFinished>>
  <2>1. PICK p, q \in BOOLEAN :
             /\ KeyMaterialGood(p, q)
             /\ \/ toClient = <<KeyMaterial(p, q)>>
                \/ toClient = <<KeyMaterial(p, q), ServerFinished>>
    BY <1>3
  <2>2. Head(toClient) = KeyMaterial(p, q)
    BY <2>1, ShortSequences
  <2>3. Reply = KeyMaterial(p, q)
    BY <2>2 DEF Reply, AsKeyMaterial, KeyMaterial
  <2>4. Reply.c_pub = p /\ Reply.q_pk = q
    BY <2>3 DEF KeyMaterial
  <2> QED
    BY <1>1, <2>1, <2>4 DEF KeyMaterialGood
<1> QED
  BY <1>1, <1>2, <1>3 DEF IInv, ReplyInv

\* How a client may leave its wait for the first line.
Answered ==
  \/ cpc' \in Gone /\ toServer' = toServer /\ cth' = cth
  \/ /\ cpc' = "join" /\ conf.suite.profile = "HYBRID"
     /\ toServer' = toServer /\ ckey' = ckey
     /\ cecdh' \in {"none", "dh", "blank"}
     /\ cecdh' = "blank" => "derive" \in failed'
  \/ /\ cpc' = "await_fin" /\ cth' = cth
     /\ \/ toServer' = toServer
        \/ \E ct \in {"kem", "junk", "missing"} :
             toServer' = Append(toServer, PQCCiphertext(ct)) /\ (Clean' => ct = "kem")
     /\ Clean' => ckey' = OwnKey \/ (toClient' = <<>> /\ spc \in Late)
     /\ conf.suite.profile = "HYBRID" /\ ckey' # NoKey => ckey'.kem = "kem" /\ ckey'.ecdh = "dh"

LEMMA AnsweredOK ==
  ASSUME IInv, cpc = "await_reply", ClientGets, UNCHANGED <<conf, finished, handlerVars>>,
         failed \subseteq failed', Clean' => Clean, Answered
  PROVE  IInv'
<1> USE DEF IInv
<1>1. spc \in {"ct", "finish"} \cup Late
  BY ReplyRead
<1>2. RequestInv'
  <2>1. CASE toServer' = toServer
    BY <1>1, <2>1, ConfStep DEF Answered, RequestInv, Early, Late, Gone
  <2>2. CASE /\ cpc' = "await_fin"
             /\ \E ct \in {"kem", "junk", "missing"} :
                  toServer' = Append(toServer, PQCCiphertext(ct)) /\ (Clean' => ct = "kem")
    <3>1. spc = "ct" => toServer = <<>> /\ HasKem(conf.suite)
      BY DEF RequestInv, Gone
    <3>2. spc = "ct" => \E ct \in {"kem", "junk", "missing"} :
                  toServer' = <<PQCCiphertext(ct)>> /\ (Clean' => ct = "kem")
      BY <2>2, <3>1, ShortSequences
    <3> QED
      BY <1>1, <2>2, <3>1, <3>2 DEF RequestInv, Early, Late
  <2> QED
    BY <2>1, <2>2 DEF Answered
<1>3. HandlerInv'
  BY HandlerIdle
<1>4. ReplyInv'
  BY ReplyKept DEF ClientGets
<1>5. ClientInv'
  BY <1>1, ConfStep DEF ClientInv, Answered, Gone
<1>6. ThreadInv' /\ FramesOutliveThreads'
  BY DEF ThreadInv, FramesOutliveThreads, Answered, Gone
<1>7. NoClientDowngrade'
  BY DEF NoClientDowngrade, Answered, Gone
<1> QED
  BY <1>2, <1>3, <1>4, <1>5, <1>6, <1>7, ConfStep

\* A key that is made of the right shares is the connection's own.
LEMMA HybridReplyOK ==
  ASSUME IInv, cpc = "await_reply", ClientGets, HybridReply(Reply)
  PROVE  Answered /\ failed \subseteq failed' /\ (Clean' => Clean)
<1>1. CASE Blame({}) /\ GiveUp /\ UNCHANGED <<cecdh, cth>>
  BY <1>1, BlameEffect DEF Answered, GiveUp, Gone
<1>2. CASE /\ \E e \in Derived(Reply.c_pub),
                 th \in {Fine("running"), Bad("failed", "encaps_thread")} :
                Blame(e.by \cup th.by) /\ cecdh' = e.v /\ cth' = th.v
           /\ cpc' = "join" /\ UNCHANGED <<toServer, copen, creset, sreset>>
  <2>1. PICK e \in Derived(Reply.c_pub),
             th \in {Fine("running"), Bad("failed", "encaps_thread")} :
                Blame(e.by \cup th.by) /\ cecdh' = e.v /\ cth' = th.v
    BY <1>2
  <2>2. /\ failed \subseteq failed' /\ e.by \cup th.by \subseteq failed'
        /\ Clean' => Clean
    BY <2>1, BlameEffect
  <2>3. e.v \in {"none", "dh", "blank"} /\ (e.v = "blank" => e.by = {"derive"})
    BY ReplyRead, DerivedShare
  <2> QED
    BY <1>2, <2>1, <2>2, <2>3 DEF Answered, HybridReply
<1> QED
  BY <1>1, <1>2 DEF HybridReply

LEMMA ClassicalReplyOK ==
  ASSUME IInv, cpc = "await_reply", ClientGets, ClassicalReply(Reply)
  PROVE  Answered /\ failed \subseteq failed' /\ (Clean' => Clean)
<1>1. PICK e \in Derived(Reply.c_pub) : \E k \in ClientKey(e.v, "none") :
        Blame(e.by \cup k.by) /\ cecdh' = e.v /\ ckey' = k.v
  BY DEF ClassicalReply
<1>2. PICK k \in ClientKey(e.v, "none") :
        Blame(e.by \cup k.by) /\ cecdh' = e.v /\ ckey' = k.v
  BY <1>1
<1>3. /\ failed \subseteq failed'
      /\ Clean' => Clean /\ (e.by \cup k.by) \cap Touching = {}
  BY <1>2, BlameEffect
<1>4. conf.suite.profile = "PURE_CLASSICAL" /\ HasEcdh(conf.suite) /\ ~HasKem(conf.suite)
  BY DEF ClassicalReply, HasEcdh, HasKem
<1>5. OwnEcdh = "dh" /\ OwnKem = "none"
  BY <1>4 DEF OwnEcdh, OwnKem
<1>6. Clean' => ckey' = OwnKey \/ (toClient' = <<>> /\ spc \in Late)
  <2> SUFFICES ASSUME Clean', ~(toClient' = <<>> /\ spc \in Late)
               PROVE  ckey' = OwnKey
    OBVIOUS
  <2>1. Reply.c_pub
    BY <1>3, <1>4, ReplyRead
  <2>2. e.by \cap Touching = {} /\ k.by \cap Touching = {}
    BY <1>3
  <2>3. e.v = "dh"
    BY <2>1, <2>2, ReplyRead, DerivedShare
  <2> QED
    BY <1>2, <1>5, <2>2, <2>3, ClientKeyOwn
<1> QED
  BY <1>3, <1>4, <1>6 DEF Answered, ClassicalReply

LEMMA QuantumReplyOK ==
  ASSUME IInv, cpc = "await_reply", ClientGets, QuantumReply(Reply)
  PROVE  Answered /\ failed \subseteq failed' /\ (Clean' => Clean)
<1>0. conf.suite.profile = "PURE_QUANTUM" /\ cth' = cth /\ ~HasEcdh(conf.suite) /\ HasKem(conf.suite)
  BY DEF QuantumReply, HasEcdh, HasKem
<1>1. CASE (Blame({"kem"}) \/ Blame({})) /\ GiveUp
  BY <1>0, <1>1, BlameEffect DEF Answered, GiveUp, Gone
<1>2. CASE Blame({"malloc"}) /\ cpc' = "crashed" /\ UNCHANGED toServer
  BY <1>0, <1>2, BlameEffect DEF Answered, Gone
<1>3. CASE \E q \in {Fine("kem"), Bad("junk", "encaps")}, ct \in Encoded(TRUE, "c") :
           \E k \in ClientKey("none", q.v) :
             /\ ckey' = k.v
             /\ ClientSends(PQCCiphertext(IF ct.v THEN q.v ELSE "missing"), "await_fin",
                            q.by \cup ct.by \cup k.by)
  <2>1. PICK q \in {Fine("kem"), Bad("junk", "encaps")}, ct \in Encoded(TRUE, "c") :
           \E k \in ClientKey("none", q.v) :
             /\ ckey' = k.v
             /\ ClientSends(PQCCiphertext(IF ct.v THEN q.v ELSE "missing"), "await_fin",
                            q.by \cup ct.by \cup k.by)
    BY <1>3
  <2>2. PICK k \in ClientKey("none", q.v) :
             /\ ckey' = k.v
             /\ ClientSends(PQCCiphertext(IF ct.v THEN q.v ELSE "missing"), "await_fin",
                            q.by \cup ct.by \cup k.by)
    BY <2>1
  <2> DEFINE sent == IF ct.v THEN q.v ELSE "missing"
  <2>3. /\ failed \subseteq failed'
        /\ Clean' => Clean /\ (q.by \cup ct.by \cup k.by) \cap Touching = {}
        /\ \/ cpc' = "await_fin"
                /\ (toServer' = toServer \/ toServer' = Append(toServer, PQCCiphertext(sent)))
           \/ cpc' \in Gone /\ toServer' = toServer
    BY <2>2, ClientSendsEffect
  <2>4. q.v \in {"kem", "junk"} /\ (q.by \cap Touching = {} => q.v = "kem")
    BY DEF Fine, Bad, Touching, KeyFaults
  <2>5. sent \in {"kem", "junk", "missing"}
    BY <2>4
  <2>6. OwnEcdh = "none" /\ OwnKem = "kem"
    BY <1>0 DEF OwnEcdh, OwnKem
  <2>7. Clean' => sent = "kem" /\ ckey' = OwnKey
    <3> SUFFICES ASSUME Clean'
                 PROVE  sent = "kem" /\ ckey' = OwnKey
      OBVIOUS
    <3>1. q.by \cap Touching = {} /\ ct.by \cap Touching = {} /\ k.by \cap Touching = {}
      BY <2>3
    <3>2. q.v = "kem" /\ ct.v = TRUE
      BY <2>4, <3>1, EncodedWanted
    <3> QED
      BY <2>2, <2>6, <3>1, <3>2, ClientKeyOwn
  <2> HIDE DEF sent
  <2> QED
    BY <1>0, <2>3, <2>5, <2>7 DEF Answered
<1> QED
  BY <1>1, <1>2, <1>3 DEF QuantumReply

LEMMA PythonReplyOK ==
  ASSUME IInv, cpc = "await_reply", ClientGets, PythonReply(Reply)
  PROVE  Answered /\ failed \subseteq failed' /\ (Clean' => Clean)
<1>1. CASE (Blame({}) \/ \E f : Blame({f})) /\ GiveUp
  BY <1>1, BlameEffect DEF PythonReply, Answered, GiveUp, Gone
<1>2. CASE \E k \in ClientKey(IF HasEcdh(conf.suite) THEN "dh" ELSE "none",
                              IF HasKem(conf.suite) THEN "kem" ELSE "none") :
             /\ ckey' = k.v
             /\ IF HasKem(conf.suite)
                THEN ClientSends(PQCCiphertext("kem"), "await_fin", k.by)
                ELSE Blame(k.by) /\ cpc' = "await_fin"
                       /\ UNCHANGED <<toServer, copen, creset, sreset>>
  <2>1. PICK k \in ClientKey(OwnEcdh, OwnKem) :
             /\ ckey' = k.v
             /\ IF HasKem(conf.suite)
                THEN ClientSends(PQCCiphertext("kem"), "await_fin", k.by)
                ELSE Blame(k.by) /\ cpc' = "await_fin"
                       /\ UNCHANGED <<toServer, copen, creset, sreset>>
    BY <1>2 DEF OwnEcdh, OwnKem
  <2>2. /\ failed \subseteq failed'
        /\ Clean' => Clean /\ k.by \cap Touching = {}
        /\ \/ cpc' = "await_fin"
                /\ (toServer' = toServer \/ toServer' = Append(toServer, PQCCiphertext("kem")))
           \/ cpc' \in Gone /\ toServer' = toServer
    BY <2>1, BlameEffect, ClientSendsEffect
  <2>3. Clean' => ckey' = OwnKey
    BY <2>1, <2>2, ClientKeyOwn
  <2>4. conf.suite.profile = "HYBRID" /\ ckey' # NoKey => ckey'.kem = "kem" /\ ckey'.ecdh = "dh"
    BY <2>1, ClientKeyOwn DEF OwnEcdh, OwnKem, HasEcdh, HasKem
  <2> QED
    BY <2>2, <2>3, <2>4 DEF PythonReply, Answered
<1> QED
  BY <1>1, <1>2 DEF PythonReply

LEMMA ReadReplyOK ==
  ASSUME IInv, ReadReply
  PROVE  IInv'
BY AnsweredOK, HybridReplyOK, ClassicalReplyOK, QuantumReplyOK, PythonReplyOK
   DEF ReadReply, Reply

LEMMA EncapsThreadOK ==
  ASSUME IInv, EncapsThread
  PROVE  IInv'
<1> USE DEF IInv, EncapsThread
<1>1. conf' = conf /\ failed \subseteq failed' /\ (Clean' => Clean)
  BY BlameEffect
<1>2. RequestInv'
  BY <1>1, ConfStep DEF RequestInv
<1>3. HandlerInv'
  BY <1>1, HandlerIdle
<1>4. ReplyInv'
  BY <1>1, ReplyKept
<1>5. ClientInv'
  BY <1>1, ConfStep DEF ClientInv, ServerKeyGood
<1>6. ThreadInv' /\ FramesOutliveThreads' /\ NoClientDowngrade'
  BY <1>1 DEF ThreadInv, FramesOutliveThreads, NoClientDowngrade
<1> QED
  BY <1>1, <1>2, <1>3, <1>4, <1>5, <1>6, ConfStep

\* The join is where a hybrid client has both shares or gives up.
LEMMA JoinEncapsOK ==
  ASSUME IInv, JoinEncaps
  PROVE  IInv'
<1> USE DEF IInv, JoinEncaps
<1>0. spc \in {"ct", "finish"} \cup Late /\ (spc = "ct" => toServer = <<>> /\ HasKem(conf.suite))
  BY DEF RequestInv, Gone
<1>1. CASE ~BothShares /\ Blame({}) /\ GiveUp /\ UNCHANGED ckey
  <2>1. conf' = conf /\ failed \subseteq failed' /\ (Clean' => Clean) /\ cpc' = "error"
    BY <1>1, BlameEffect DEF GiveUp
  <2>2. toServer' = toServer
    BY <1>1 DEF GiveUp
  <2>3. RequestInv'
    BY <1>0, <2>1, <2>2 DEF RequestInv, Early, Late, Gone
  <2>4. HandlerInv' /\ ReplyInv'
    BY <2>1, HandlerIdle, ReplyKept
  <2>5. ClientInv'
    BY <2>1, <1>1 DEF ClientInv
  <2>6. ThreadInv' /\ FramesOutliveThreads' /\ NoClientDowngrade'
    BY <2>1 DEF ThreadInv, FramesOutliveThreads, NoClientDowngrade
  <2> QED
    BY <2>1, <2>3, <2>4, <2>5, <2>6, ConfStep
<1>2. CASE BothShares /\ \E ct \in Encoded(TRUE, "c"),
              k \in ClientKey(cecdh, IF cth = "ok" THEN "kem" ELSE "none") :
             /\ ckey' = k.v
             /\ ClientSends(PQCCiphertext(IF ct.v THEN "kem" ELSE "missing"), "await_fin",
                            ct.by \cup k.by)
  <2>0. conf.suite.profile = "HYBRID" /\ ckey = NoKey /\ cecdh \in {"dh", "blank"}
    BY <1>2 DEF BothShares, ClientInv
  <2>1. PICK ct \in Encoded(TRUE, "c"), k \in ClientKey(cecdh, "kem") :
             /\ ckey' = k.v
             /\ ClientSends(PQCCiphertext(IF ct.v THEN "kem" ELSE "missing"), "await_fin",
                            ct.by \cup k.by)
    BY <1>2 DEF BothShares
  <2> DEFINE sent == IF ct.v THEN "kem" ELSE "missing"
  <2>2. /\ conf' = conf /\ failed \subseteq failed'
        /\ Clean' => Clean /\ (ct.by \cup k.by) \cap Touching = {}
        /\ \/ cpc' = "await_fin"
                /\ (toServer' = toServer \/ toServer' = Append(toServer, PQCCiphertext(sent)))
           \/ cpc' \in Gone /\ toServer' = toServer
    BY <2>1, ClientSendsEffect
  <2>3. OwnEcdh = "dh" /\ OwnKem = "kem"
    BY <2>0 DEF OwnEcdh, OwnKem, HasEcdh, HasKem
  <2>4. Clean => cecdh = "dh"
    BY <2>0 DEF ClientInv, Clean, Blameless, Touching, KeyFaults
  <2>5. Clean' => sent = "kem" /\ ckey' = OwnKey
    <3> SUFFICES ASSUME Clean'
                 PROVE  sent = "kem" /\ ckey' = OwnKey
      OBVIOUS
    <3>1. ct.by \cap Touching = {} /\ k.by \cap Touching = {}
      BY <2>2
    <3>2. ct.v = TRUE
      BY <3>1, EncodedWanted
    <3> QED
      BY <2>1, <2>2, <2>3, <2>4, <3>1, <3>2, ClientKeyOwn
  <2>6. sent \in {"kem", "missing"}
    OBVIOUS
  <2> HIDE DEF sent
  <2>7. RequestInv'
    <3>1. CASE toServer' = toServer
      BY <1>0, <2>2, <3>1, ConfStep DEF RequestInv, Early, Late, Gone
    <3>2. CASE toServer' = Append(toServer, PQCCiphertext(sent)) /\ cpc' = "await_fin"
      <4>1. spc = "ct" => toServer' = <<PQCCiphertext(sent)>>
        BY <1>0, <3>2, ShortSequences
      <4> QED
        BY <1>0, <2>2, <2>5, <2>6, <3>2, <4>1 DEF RequestInv, Early, Late
    <3> QED
      BY <2>2, <3>1, <3>2
  <2>8. HandlerInv' /\ ReplyInv'
    BY <2>2, HandlerIdle, ReplyKept
  <2>9. ClientInv'
    BY <2>2, <2>5, ConfStep DEF ClientInv, Gone
  <2>10. ckey' = NoKey \/ (ckey'.kem = "kem" /\ ckey'.ecdh = cecdh)
    BY <2>1, ClientKeyOwn
  <2>11. cecdh = "dh" \/ (cecdh = "blank" /\ "derive" \in failed')
    BY <2>0, <2>2 DEF ClientInv
  <2>12. NoClientDowngrade'
    BY <2>10, <2>11 DEF NoClientDowngrade
  <2>13. ThreadInv' /\ FramesOutliveThreads'
    BY <2>2 DEF ThreadInv, FramesOutliveThreads, Gone
  <2> QED
    BY <2>2, <2>7, <2>8, <2>9, <2>12, <2>13, ConfStep
<1> QED
  BY <1>1, <1>2

\* The end of a client, whatever it read last, does not touch what it has.
LEMMA ClientEndsOK ==
  ASSUME IInv, UNCHANGED <<conf, cecdh, ckey, handlerVars, toServer>>,
         failed \subseteq failed', Clean' => Clean,
         toClient' = toClient \/ (toClient # <<>> /\ toClient' = Tail(toClient)),
         \/ /\ cpc \notin {"new", "ok"} \cup Gone /\ cpc' \in Gone /\ finished' = finished
            /\ cth' = "none" \/ (cth' = cth /\ cpc # "join")
         \/ /\ cpc = "await_fin" /\ cpc' = "ok" /\ cth' = cth
            /\ \/ finished' = finished
               \/ finished' => /\ spc \in Late /\ ServerKeyGood
                               /\ Clean => ckey = OwnKey
  PROVE  IInv'
<1> USE DEF IInv
<1>1. RequestInv'
  BY ConfStep DEF RequestInv, Early, Late, Gone
<1>2. HandlerInv' /\ ReplyInv'
  BY HandlerIdle, ReplyKept
<1>3. ClientInv'
  BY ConfStep DEF ClientInv, ServerKeyGood, Gone
<1>4. ThreadInv' /\ FramesOutliveThreads' /\ NoClientDowngrade'
  BY DEF ThreadInv, FramesOutliveThreads, NoClientDowngrade, Gone
<1> QED
  BY <1>1, <1>2, <1>3, <1>4, ConfStep

LEMMA ReadFinishedOK ==
  ASSUME IInv, ReadFinished
  PROVE  IInv'
<1> USE DEF IInv, ReadFinished
<1>1. failed \subseteq failed' /\ (Clean' => Clean)
  BY BlameEffect
<1>2. finished' => spc \in Late /\ ServerKeyGood
  <2> SUFFICES ASSUME Head(toClient) = ServerFinished
               PROVE  spc \in Late /\ ServerKeyGood
    OBVIOUS
  <2>1. \A p, q \in BOOLEAN : KeyMaterial(p, q) # ServerFinished
    BY DEF KeyMaterial, ServerFinished
  <2>2. \A p, q \in BOOLEAN : toClient # <<KeyMaterial(p, q)>>
    BY <2>1, ShortSequences
  <2> QED
    BY <2>2 DEF ReplyInv, ClientGets
<1>3. Clean => ckey = OwnKey
  BY DEF ClientInv, ClientGets
<1> QED
  BY <1>1, <1>2, <1>3, ClientEndsOK DEF ClientGets

LEMMA ClientRecvFailsOK ==
  ASSUME IInv, ClientRecvFails
  PROVE  IInv'
<1>1. failed \subseteq failed' /\ (Clean' => Clean)
  BY BlameEffect DEF ClientRecvFails
<1> QED
  BY <1>1, ClientEndsOK DEF ClientRecvFails, Unread, Waiting, Gone

LEMMA ClientEOFOK ==
  ASSUME IInv, ClientEOF
  PROVE  IInv'
BY ClientEndsOK DEF ClientEOF, Unread, Waiting, Gone, Clean, Blameless

LEMMA KillOK ==
  ASSUME IInv, Kill
  PROVE  IInv'
BY ClientEndsOK DEF Kill, Running, Waiting, Gone, Clean, Blameless

----------------------------------------------------------------------------
(* The handler's steps *)

\* The handler goes, whatever it was at.
LEMMA HandlerQuits ==
  ASSUME IInv, UNCHANGED <<conf, clientVars, skey, toClient>>,
         failed \subseteq failed', Clean' => Clean,
         spc # "none", spc' \in Late, srv_pub' = srv_pub \/ srv_pub' \in BOOLEAN,
         kg' = "running" => kg = "running" /\ spc' = "close"
  PROVE  IInv'
<1> USE DEF IInv
<1>1. RequestInv' /\ HandlerInv'
  BY RequestLate, HandlerLate
<1>2. ReplyInv'
  <2>1. ServerKeyGood => ServerKeyGood'
    BY ConfStep DEF ServerKeyGood
  <2>2. \A p, q : KeyMaterialGood(p, q) => KeyMaterialGood(p, q)'
    BY ConfStep DEF KeyMaterialGood
  <2> QED
    BY <2>1, <2>2 DEF ReplyInv, Late
<1>3. ClientInv'
  BY ConfStep DEF ClientInv, ServerKeyGood
<1>4. cpc # "new"
  BY DEF RequestInv
<1>5. ThreadInv' /\ FramesOutliveThreads' /\ NoClientDowngrade'
  BY <1>4 DEF ThreadInv, FramesOutliveThreads, NoClientDowngrade
<1> QED
  BY <1>1, <1>2, <1>3, <1>5, ConfStep

\* A handler that has not replied yet goes on.
LEMMA HandlerAdvances ==
  ASSUME IInv, UNCHANGED <<conf, clientVars, skey, toClient>>,
         failed \subseteq failed', Clean' => Clean,
         spc \in {"select", "hello", "join_kg", "queued", "lost"},
         spc' \in {"select", "hello", "join_kg", "reply", "lost"},
         cpc # "new",
         kg' = "running" => conf.server = "c" /\ spc' \in {"hello", "join_kg"},
         RequestInv', HandlerInv'
  PROVE  IInv'
<1> USE DEF IInv
<1>1. toClient = <<>>
  BY DEF ReplyInv, Late
<1>2. ReplyInv'
  BY <1>1 DEF ReplyInv, Late
<1>3. ~finished /\ cpc \notin {"join", "await_fin", "ok"}
  BY DEF ClientInv, RequestInv, Late
<1>4. ClientInv'
  BY <1>3, ConfStep DEF ClientInv
<1>5. ThreadInv' /\ FramesOutliveThreads'
  BY DEF ThreadInv, FramesOutliveThreads
<1>6. NoClientDowngrade'
  BY <1>3 DEF NoClientDowngrade
<1> QED
  BY <1>2, <1>4, <1>5, <1>6, ConfStep

LEMMA AcceptOK ==
  ASSUME IInv, Accept
  PROVE  IInv'
<1>1. /\ UNCHANGED <<conf, clientVars, kg, sel, shareVars, toServer, toClient>>
      /\ spc = "queued"
      /\ failed \subseteq failed' /\ (Clean' => Clean)
      /\ spc' \in {"select", "lost"} \/ spc' = "closed"
  BY BlameEffect DEF Accept, AcceptNative, AcceptPython, ServerDies, CloseHandler
<1>2. cpc # "new" /\ kg # "running"
  BY <1>1 DEF IInv, RequestInv, FramesOutliveThreads
<1>3. CASE spc' \in {"select", "lost"}
  <2>1. RequestInv'
    BY <1>1, <1>3, ConfStep DEF IInv, RequestInv, Early, Late
  <2>2. HandlerInv'
    BY <1>1, <1>3, ConfStep DEF IInv, HandlerInv, Early
  <2> QED
    BY <1>1, <1>2, <1>3, <2>1, <2>2, HandlerAdvances
<1>4. CASE spc' = "closed"
  BY <1>1, <1>2, <1>4, HandlerQuits DEF Late
<1> QED
  BY <1>1, <1>3, <1>4

LEMMA PeekMagicOK ==
  ASSUME IInv, PeekMagic
  PROVE  IInv'
<1>1. failed \subseteq failed' /\ (Clean' => Clean) /\ spc' \in Late
  BY BlameEffect DEF PeekMagic, Late
<1>2. kg # "running"
  BY DEF PeekMagic, IInv, FramesOutliveThreads
<1> QED
  BY <1>1, <1>2, HandlerQuits DEF PeekMagic, HandlerGets

\* A profile that is read is what the client wants, and nothing else is coming
\* but its hello.
LEMMA SelectRead ==
  ASSUME IInv, spc = "select", HandlerGets, Head(toServer).type = "ProfileSelect"
  PROVE  /\ Head(toServer) = ProfileSelect
         /\ \/ cpc = "keypair" /\ HasEcdh(conf.suite) /\ toServer' = <<>>
            \/ /\ cpc \in {"await_reply"} \cup Gone
               /\ \/ toServer' = <<>>
                  \/ /\ HasEcdh(conf.suite)
                     /\ \E p \in BOOLEAN : toServer' = <<ClientHello(p)>>
<1> USE DEF HandlerGets
<1>1. \A p : ClientHello(p).type # "ProfileSelect"
  BY DEF ClientHello
<1>2. BinaryHello.type # "ProfileSelect"
  BY DEF BinaryHello
<1>3. CASE toServer = <<ProfileSelect>>
  BY <1>3, ShortSequences DEF IInv, RequestInv, Early, Gone
<1>4. CASE toServer = <<BinaryHello>>
  BY <1>2, <1>4, ShortSequences
<1>5. CASE \E p \in BOOLEAN : toServer = <<ClientHello(p)>>
  BY <1>1, <1>5, ShortSequences
<1>6. CASE \E p \in BOOLEAN : toServer = <<ProfileSelect, ClientHello(p)>>
  <2>1. PICK p \in BOOLEAN : toServer = <<ProfileSelect, ClientHello(p)>>
    BY <1>6
  <2>2. Head(toServer) = ProfileSelect /\ toServer' = <<ClientHello(p)>>
    BY <2>1, ShortSequences
  <2>3. toServer # <<>> /\ toServer # <<ProfileSelect>> /\ toServer # <<BinaryHello>>
    BY <2>1
  <2>4. cpc \in {"await_reply"} \cup Gone /\ HasEcdh(conf.suite)
    BY <1>1, <2>2, <2>3 DEF IInv, RequestInv, Early, ProfileSelect
  <2> QED
    BY <2>2, <2>4
<1> QED
  BY <1>3, <1>4, <1>5, <1>6 DEF IInv, RequestInv, Early

LEMMA ReadProfileSelectOK ==
  ASSUME IInv, ReadProfileSelect
  PROVE  IInv'
<1> DEFINE m == Head(toServer)
<1>1. /\ spc = "select" /\ UNCHANGED <<conf, clientVars, shareVars, toClient>>
      /\ m = ProfileSelect
  BY SelectRead DEF ReadProfileSelect, HandlerGets
<1>2. PICK s \in ComboById(m.id) :
        \/ conf.server = "c" /\ SelectC(m, s)
        \/ conf.server = "dispatch" /\ SelectDispatch(m, s)
        \/ conf.server = "python" /\ SelectPython(m, s)
  BY DEF ReadProfileSelect
<1>3. s = conf.suite
  BY <1>1, RowFound DEF IInv, ConfInv, ProfileSelect
<1>4. /\ failed \subseteq failed' /\ (Clean' => Clean)
      /\ \/ /\ sel'.suite = conf.suite /\ sel'.kdf = conf.kdf
            /\ ReadsFreed \/ sel'.salt = ProfileSelect.salt
            /\ \/ spc' = "hello" /\ HasEcdh(conf.suite)
               \/ spc' \in {"join_kg", "reply"} /\ ~HasEcdh(conf.suite)
            /\ kg' = "running" => conf.server = "c" /\ spc' \in {"hello", "join_kg"}
         \/ spc' = "close" /\ kg' # "running"
  <2>0. m.kdf = conf.kdf /\ m.salt = ProfileSelect.salt
    BY <1>1 DEF ProfileSelect
  <2>1. CASE conf.server = "c" /\ SelectC(m, s)
    <3>1. failed \subseteq failed' /\ (Clean' => Clean)
      BY <2>1, BlameEffect DEF SelectC
    <3>2. sel'.suite = s /\ sel'.kdf = m.kdf
      BY <2>1 DEF SelectC
    <3> QED
      BY <1>3, <2>0, <2>1, <3>1, <3>2 DEF SelectC, ReadsFreed
  <2>2. CASE conf.server = "dispatch" /\ SelectDispatch(m, s)
    <3>1. failed \subseteq failed' /\ (Clean' => Clean)
      BY <2>2, BlameEffect DEF SelectDispatch
    <3>2. /\ sel'.suite = s /\ sel'.kdf = m.kdf
          /\ sel'.salt \in FreedSalt(m.salt)
      BY <2>2 DEF SelectDispatch
    <3>3. ReadsFreed \/ sel'.salt = ProfileSelect.salt
      BY <2>0, <2>2, <3>2 DEF ReadsFreed, FreedSalt
    <3>4. kg' # "running"
      BY <2>2 DEF SelectDispatch
    <3> QED
      BY <1>3, <2>0, <2>2, <3>1, <3>2, <3>3, <3>4 DEF SelectDispatch
  <2>3. CASE conf.server = "python" /\ SelectPython(m, s)
    <3>1. failed \subseteq failed' /\ (Clean' => Clean)
      BY <2>3, BlameEffect DEF SelectPython
    <3>2. sel'.suite = s /\ sel'.kdf = m.kdf /\ sel'.salt = m.salt
      BY <2>3 DEF SelectPython
    <3>3. kg' # "running"
      BY <2>3 DEF SelectPython, IInv, ThreadInv
    <3> QED
      BY <1>3, <2>0, <2>3, <3>1, <3>2, <3>3 DEF SelectPython
  <2> QED
    BY <1>2, <2>1, <2>2, <2>3
<1>5. CASE spc' = "close" /\ kg' # "running"
  BY <1>1, <1>4, <1>5, HandlerQuits DEF Late
<1>6. CASE /\ sel'.suite = conf.suite /\ sel'.kdf = conf.kdf
           /\ ReadsFreed \/ sel'.salt = ProfileSelect.salt
           /\ \/ spc' = "hello" /\ HasEcdh(conf.suite)
              \/ spc' \in {"join_kg", "reply"} /\ ~HasEcdh(conf.suite)
           /\ kg' = "running" => conf.server = "c" /\ spc' \in {"hello", "join_kg"}
  <2> DEFINE Rest == \/ cpc = "keypair" /\ HasEcdh(conf.suite) /\ toServer' = <<>>
                     \/ /\ cpc \in {"await_reply"} \cup Gone
                        /\ \/ toServer' = <<>>
                           \/ /\ HasEcdh(conf.suite)
                              /\ \E p \in BOOLEAN : toServer' = <<ClientHello(p)>>
  <2>1. Rest
    BY SelectRead DEF ReadProfileSelect
  <2>2. RequestInv'
    BY <1>1, <1>6, <2>1 DEF RequestInv, Early, Late, Gone
  <2>3. srv_pub = FALSE /\ secdh = "none" /\ skem = "none"
    BY <1>1 DEF IInv, HandlerInv, Early
  <2>4. conf' = conf /\ srv_pub' = FALSE /\ secdh' = "none" /\ skem' = "none"
    BY <1>1, <2>3
  <2>5. ~HasEcdh(conf.suite) => HasEcdh(conf.suite) = FALSE /\ OwnEcdh = "none"
    BY DEF HasEcdh, OwnEcdh
  <2>6. spc' = "hello" \/ (spc' \in {"join_kg", "reply"} /\ srv_pub' = HasEcdh(conf.suite)'
                              /\ secdh' = OwnEcdh')
    BY <1>6, <2>4, <2>5, ConfStep
  <2>7. HandlerInv'
    BY <1>6, <2>4, <2>6, ConfStep DEF HandlerInv, Early
  <2>8. cpc # "new"
    BY <2>1 DEF Gone
  <2> QED
    BY <1>1, <1>4, <1>6, <2>2, <2>7, <2>8, HandlerAdvances
<1> QED
  BY <1>4, <1>5, <1>6

LEMMA NoSuchProfileOK ==
  ASSUME IInv, NoSuchProfile
  PROVE  IInv'
BY HandlerQuits DEF NoSuchProfile, HandlerGets, Late, Clean, Blameless

\* What follows the hello of a client: nothing, until it is answered.
LEMMA HelloRead ==
  ASSUME IInv, spc = "hello", HandlerGets
  PROVE  cpc \in {"await_reply"} \cup Gone /\ toServer' = <<>> /\ HasEcdh(conf.suite)
BY ShortSequences DEF IInv, RequestInv, HandlerGets, Gone

LEMMA ReadClientHelloOK ==
  ASSUME IInv, ReadClientHello
  PROVE  IInv'
<1> DEFINE m == Head(toServer)
<1>1. /\ spc = "hello" /\ UNCHANGED <<conf, clientVars, sel, kg, skem, skey, toClient>>
      /\ cpc \in {"await_reply"} \cup Gone /\ toServer' = <<>> /\ HasEcdh(conf.suite)
  BY HelloRead DEF ReadClientHello, HandlerGets
<1>2. /\ failed \subseteq failed' /\ (Clean' => Clean)
      /\ srv_pub' = srv_pub \/ srv_pub' \in BOOLEAN
      /\ \/ spc' = "close"
         \/ /\ spc' = "join_kg" \/ (spc' = "reply" /\ conf.server # "c")
            /\ Clean' => srv_pub' = TRUE /\ secdh' = "dh"
  <2>1. CASE conf.server = "c" /\ HelloC(m)
    BY <2>1, BlameEffect DEF HelloC
  <2>2. CASE conf.server = "python" /\ HelloPython(m)
    BY <2>2, BlameEffect DEF HelloPython
  <2>3. CASE conf.server = "dispatch" /\ HelloDispatch(m)
    <3>1. CASE (Blame({}) \/ Blame({"keypair"})) /\ spc' = "close" /\ UNCHANGED srv_pub
      BY <3>1, BlameEffect
    <3>2. CASE \E pub \in Exported("dispatch"), e \in Derived(TRUE) :
                 m.c_pub /\ Blame(pub.by \cup e.by) /\ srv_pub' = pub.v /\ secdh' = e.v
                   /\ spc' = "reply"
      <4>1. PICK pub \in Exported("dispatch"), e \in Derived(TRUE) :
                 m.c_pub /\ Blame(pub.by \cup e.by) /\ srv_pub' = pub.v /\ secdh' = e.v
                   /\ spc' = "reply"
        BY <3>2
      <4>2. /\ failed \subseteq failed'
            /\ Clean' => Clean /\ (pub.by \cup e.by) \cap Touching = {}
        BY <4>1, BlameEffect
      <4>3. Clean' => srv_pub' = TRUE /\ secdh' = "dh"
        <5> SUFFICES ASSUME Clean'
                     PROVE  srv_pub' = TRUE /\ secdh' = "dh"
          OBVIOUS
        <5>1. pub.by \cap Touching = {} /\ e.by \cap Touching = {}
          BY <4>2
        <5>2. pub.v = TRUE
          BY <5>1, ExportedTrue
        <5>3. e.v = "dh"
          BY <5>1, DerivedShare
        <5> QED
          BY <4>1, <5>2, <5>3
      <4>4. srv_pub' \in BOOLEAN
        BY <4>1, ExportedTrue
      <4> QED
        BY <2>3, <4>1, <4>2, <4>3, <4>4
    <3> QED
      BY <2>3, <3>1, <3>2 DEF HelloDispatch
  <2> QED
    BY <2>1, <2>2, <2>3 DEF ReadClientHello
<1>3. CASE spc' = "close"
  BY <1>1, <1>2, <1>3, HandlerQuits DEF Late
<1>4. CASE /\ spc' = "join_kg" \/ (spc' = "reply" /\ conf.server # "c")
           /\ Clean' => srv_pub' = TRUE /\ secdh' = "dh"
  <2>1. RequestInv'
    BY <1>1, <1>4 DEF RequestInv, Early, Late, Gone
  <2>2. /\ skem = "none" /\ sel.suite = conf.suite /\ sel.kdf = conf.kdf
        /\ ReadsFreed \/ sel.salt = ProfileSelect.salt
    BY <1>1 DEF IInv, HandlerInv
  <2>3. HasEcdh(conf.suite) = TRUE /\ OwnEcdh = "dh"
    BY <1>1 DEF HasEcdh, OwnEcdh
  <2>4. conf' = conf /\ sel' = sel /\ skem' = "none"
    BY <1>1, <2>2
  <2>5. srv_pub' \in BOOLEAN
    BY <1>2 DEF IInv, HandlerInv
  <2>6. Clean' => srv_pub' = HasEcdh(conf.suite)' /\ secdh' = OwnEcdh'
    BY <1>4, <2>3, <2>4, ConfStep
  <2>7. HandlerInv'
    BY <1>4, <2>2, <2>4, <2>6, <2>5, ConfStep DEF HandlerInv, Early
  <2>8. kg' = "running" => conf.server = "c" /\ spc' = "join_kg"
    BY <1>1, <1>4 DEF IInv, ThreadInv
  <2> QED
    BY <1>1, <1>2, <1>4, <2>1, <2>7, <2>8, HandlerAdvances DEF Gone
<1> QED
  BY <1>2, <1>3, <1>4

LEMMA KeygenThreadOK ==
  ASSUME IInv, KeygenThread
  PROVE  IInv'
<1> USE DEF IInv, KeygenThread
<1>1. conf' = conf /\ failed \subseteq failed' /\ (Clean' => Clean) /\ kg' \in {"ok", "failed"}
  BY BlameEffect DEF Fine, Bad
<1>2. RequestInv'
  BY <1>1, ConfStep DEF RequestInv
<1>3. HandlerInv'
  BY <1>1, HandlerIdle
<1>4. ReplyInv'
  BY <1>1, ReplyKept
<1>5. ClientInv'
  BY <1>1, ConfStep DEF ClientInv, ServerKeyGood
<1>6. cpc # "new"
  BY DEF ThreadInv
<1>7. ThreadInv' /\ FramesOutliveThreads' /\ NoClientDowngrade'
  BY <1>1, <1>6 DEF ThreadInv, FramesOutliveThreads, NoClientDowngrade
<1> QED
  BY <1>1, <1>2, <1>3, <1>4, <1>5, <1>7, ConfStep

LEMMA JoinKeygenOK ==
  ASSUME IInv, JoinKeygen
  PROVE  IInv'
<1>1. /\ UNCHANGED <<conf, clientVars, kg, sel, shareVars, toServer, toClient>>
      /\ spc = "join_kg" /\ kg # "running"
      /\ failed \subseteq failed' /\ (Clean' => Clean)
      /\ spc' \in {"close", "closed"} \/ spc' = "reply"
  BY BlameEffect DEF JoinKeygen, ServerDies, CloseHandler
<1>2. CASE spc' \in {"close", "closed"}
  BY <1>1, <1>2, HandlerQuits DEF Late
<1>3. CASE spc' = "reply"
  <2>1. RequestInv'
    BY <1>1, <1>3 DEF IInv, RequestInv, Early, Late, Gone
  <2>2. HandlerInv'
    BY <1>1, <1>3, ConfStep DEF IInv, HandlerInv, Early
  <2>3. cpc # "new"
    BY <1>1 DEF IInv, RequestInv
  <2> QED
    BY <1>1, <1>3, <2>1, <2>2, <2>3, HandlerAdvances
<1> QED
  BY <1>1, <1>2, <1>3

LEMMA SendKeyMaterialOK ==
  ASSUME IInv, SendKeyMaterial
  PROVE  IInv'
<1>1. CASE Blame({"kem"}) /\ spc' = "close" /\ UNCHANGED socketVars
  BY <1>1, BlameEffect, HandlerQuits DEF SendKeyMaterial, Late, IInv, FramesOutliveThreads
<1>2. CASE \E c \in Encoded(srv_pub, conf.server), q \in Encoded(HasKem(sel.suite), conf.server) :
             HandlerSends(KeyMaterial(c.v, q.v), AfterReply(sel.suite), c.by \cup q.by)
  <2> USE DEF IInv
  <2>0. /\ spc = "reply" /\ sel.suite = conf.suite
        /\ UNCHANGED <<conf, clientVars, sel, kg, shareVars>>
        /\ toClient = <<>> /\ toServer = <<>> /\ kg # "running"
        /\ cpc \in {"await_reply"} \cup Gone /\ skem = "none" /\ ~finished
    BY DEF SendKeyMaterial, HandlerInv, ReplyInv, RequestInv, ClientInv, Late,
           FramesOutliveThreads
  <2>1. PICK c \in Encoded(srv_pub, conf.server), q \in Encoded(HasKem(sel.suite), conf.server) :
             HandlerSends(KeyMaterial(c.v, q.v), AfterReply(sel.suite), c.by \cup q.by)
    BY <1>2
  <2>2. /\ failed \subseteq failed'
        /\ Clean' => Clean /\ (c.by \cup q.by) \cap Touching = {}
        /\ toServer' = toServer
        /\ \/ /\ spc' = AfterReply(sel.suite)
              /\ toClient' = toClient \/ toClient' = Append(toClient, KeyMaterial(c.v, q.v))
           \/ spc' \in {"close", "closed"} /\ toClient' = toClient
    BY <2>1, HandlerSendsEffect
  <2>3. CASE spc' \in {"close", "closed"} /\ toClient' = toClient
    BY <2>0, <2>2, <2>3, HandlerQuits DEF Late
  <2>4. CASE /\ spc' = AfterReply(sel.suite)
             /\ toClient' = toClient \/ toClient' = Append(toClient, KeyMaterial(c.v, q.v))
    <3>1. spc' = (IF HasKem(conf.suite) THEN "ct" ELSE "finish")
      BY <2>0, <2>4 DEF AfterReply
    <3>2. RequestInv'
      BY <2>0, <2>2, <3>1, ConfStep DEF RequestInv, Early, Late, Gone
    <3>3. HandlerInv'
      BY <2>0, <2>2, <3>1, ConfStep DEF HandlerInv, Early, OwnKem
    <3>4. srv_pub \in BOOLEAN /\ HasKem(sel.suite) \in BOOLEAN
      BY DEF HandlerInv, HasKem
    <3>5. toClient' = <<>> \/ toClient' = <<KeyMaterial(c.v, q.v)>>
      BY <2>0, <2>4, ShortSequences
    <3>6. /\ c.v \in BOOLEAN /\ (c.by \cap Touching = {} => c.v = srv_pub)
          /\ q.v \in BOOLEAN /\ (q.by \cap Touching = {} => q.v = HasKem(sel.suite))
      BY <3>4, EncodedWanted
    <3>7. Clean' => srv_pub = HasEcdh(conf.suite)
      BY <2>0, <2>2 DEF HandlerInv
    <3>8. Clean' => q.v = HasKem(conf.suite)
      BY <2>0, <2>2, <3>6
    <3>9. Clean' => c.v = HasEcdh(conf.suite)
      BY <2>0, <2>2, <3>6, <3>7
    <3>10. KeyMaterialGood(c.v, q.v)'
      BY <2>0, <3>8, <3>9 DEF KeyMaterialGood
    <3>11. ReplyInv'
      BY <3>1, <3>5, <3>6, <3>10 DEF ReplyInv, Late
    <3>12. ClientInv'
      BY <2>0, <2>2, ConfStep DEF ClientInv, Gone
    <3>13. ThreadInv' /\ FramesOutliveThreads' /\ NoClientDowngrade'
      BY <2>0, <2>2 DEF ThreadInv, FramesOutliveThreads, NoClientDowngrade, Gone
    <3> QED
      BY <2>0, <3>2, <3>3, <3>11, <3>12, <3>13, ConfStep
  <2> QED
    BY <2>2, <2>3, <2>4
<1> QED
  BY <1>1, <1>2 DEF SendKeyMaterial

LEMMA ReadCiphertextOK ==
  ASSUME IInv, ReadCiphertext
  PROVE  IInv'
<1> DEFINE ct == Head(toServer).ct
<1>0. /\ spc = "ct" /\ UNCHANGED <<conf, clientVars, sel, kg, srv_pub, secdh, skey, toClient>>
      /\ HasKem(conf.suite) /\ kg # "running" /\ ~finished
      /\ Clean => ct = "kem"
  <2>1. spc = "ct" /\ toServer # <<>> /\ UNCHANGED <<conf, clientVars, sel, kg, srv_pub, secdh, skey, toClient>>
    BY DEF ReadCiphertext, HandlerGets
  <2>2. PICK c \in {"kem", "junk", "missing"} :
          toServer = <<PQCCiphertext(c)>> /\ (Clean => c = "kem")
    BY <2>1 DEF IInv, RequestInv
  <2>3. ct = c
    BY <2>2, ShortSequences DEF PQCCiphertext
  <2> QED
    BY <2>1, <2>2, <2>3 DEF IInv, RequestInv, ClientInv, FramesOutliveThreads, Late
<1>1. /\ failed \subseteq failed' /\ (Clean' => Clean)
      /\ \/ spc' \in {"close", "closed"}
         \/ spc' = "finish" /\ (Clean' => skem' = "kem")
  <2>1. CASE CiphertextNative(ct)
    <3>1. CASE (ct = "missing" /\ Blame({})) \/ Blame({"malloc"})
      <4>1. failed \subseteq failed' /\ (Clean' => Clean /\ ct = "missing")
        BY <3>1, BlameEffect DEF Touching
      <4> QED
        BY <1>0, <2>1, <4>1 DEF CiphertextNative, ServerDies, CloseHandler
    <3>2. CASE \E d \in Decapsulated(ct) : Blame(d.by) /\ skem' = d.v /\ spc' = "finish"
      <4>1. PICK d \in Decapsulated(ct) : Blame(d.by) /\ skem' = d.v /\ spc' = "finish"
        BY <3>2
      <4>2. failed \subseteq failed' /\ (Clean' => Clean /\ d.by \cap Touching = {})
        BY <4>1, BlameEffect
      <4>3. d.by \cap Touching = {} /\ ct = "kem" => d.v = "kem"
        BY DEF Decapsulated, Fine, Bad, Touching, KeyFaults
      <4> QED
        BY <1>0, <4>1, <4>2, <4>3
    <3> QED
      BY <2>1, <3>1, <3>2 DEF CiphertextNative
  <2>2. CASE CiphertextPython(ct)
    BY <1>0, <2>2, BlameEffect DEF CiphertextPython
  <2> QED
    BY <2>1, <2>2 DEF ReadCiphertext
<1>2. CASE spc' \in {"close", "closed"}
  BY <1>0, <1>1, <1>2, HandlerQuits DEF Late
<1>3. CASE spc' = "finish" /\ (Clean' => skem' = "kem")
  <2> USE DEF IInv
  <2>1. RequestInv'
    BY <1>0, <1>3, RequestLate
  <2>2. OwnKem = "kem"
    BY <1>0 DEF OwnKem
  <2>3. HandlerInv'
    BY <1>0, <1>1, <1>3, <2>2, ConfStep DEF HandlerInv, Early
  <2>4. \A p, q : KeyMaterialGood(p, q) => KeyMaterialGood(p, q)'
    BY <1>0, <1>1, ConfStep DEF KeyMaterialGood
  <2>5. ReplyInv'
    BY <1>0, <1>3, <2>4 DEF ReplyInv, Late
  <2>6. ClientInv'
    BY <1>0, <1>1, <1>3, ConfStep DEF ClientInv, Late
  <2>7. ThreadInv' /\ FramesOutliveThreads' /\ NoClientDowngrade'
    BY <1>0, <1>1 DEF ThreadInv, FramesOutliveThreads, NoClientDowngrade
  <2> QED
    BY <1>0, <2>1, <2>3, <2>5, <2>6, <2>7, ConfStep
<1> QED
  BY <1>1, <1>2, <1>3

\* The server's own key is made of what the handler knows, once.
\* The key a server makes on its way out.
LEMMA FinishedKeyGood ==
  ASSUME IInv, SendFinished
  PROVE  ServerKeyGood'
<1> USE DEF IInv
<1>1. PICK kdf \in KdfRead :
        \E k \in Finalised(SessionKey(kdf, sel.suite.id, sel.salt, secdh, skem), conf.server) :
          skey' = k.v /\ HandlerSends(ServerFinished, "close", k.by)
  BY DEF SendFinished
<1> DEFINE key == SessionKey(kdf, sel.suite.id, sel.salt, secdh, skem)
<1>2. PICK k \in Finalised(key, conf.server) :
        skey' = k.v /\ HandlerSends(ServerFinished, "close", k.by)
  BY <1>1
<1>3. Clean' => Clean /\ k.by \cap Touching = {}
  BY <1>2, HandlerSendsEffect
<1>4. spc = "finish" /\ UNCHANGED <<conf, sel, secdh, skem>>
  BY DEF SendFinished
<1>5. /\ key.ecdh = secdh /\ key.kem = skem /\ key.id = sel.suite.id
      /\ kdf = conf.kdf /\ sel.salt = ProfileSelect.salt /\ sel.suite = conf.suite
           /\ secdh = OwnEcdh /\ skem = OwnKem => key = OwnKey
  BY DEF SessionKey, OwnKey
<1>6. ReadsFreed \/ kdf = conf.kdf
  BY <1>4 DEF KdfRead, ReadsFreed, HandlerInv
<1> SUFFICES ASSUME Clean'
             PROVE  /\ skey'.ecdh = OwnEcdh /\ skey'.kem = OwnKem
                    /\ skey'.id = conf.suite.id
                    /\ ReadsFreed \/ skey' = OwnKey
  BY <1>4, ConfStep DEF ServerKeyGood
<1>7. skey' = key
  BY <1>2, <1>3, FinalisedKey
<1>8. /\ secdh = OwnEcdh /\ skem = OwnKem /\ sel.suite = conf.suite
      /\ ReadsFreed \/ sel.salt = ProfileSelect.salt
  BY <1>3, <1>4 DEF HandlerInv
<1> HIDE DEF key
<1> QED
  BY <1>5, <1>6, <1>7, <1>8

LEMMA SendFinishedOK ==
  ASSUME IInv, SendFinished
  PROVE  IInv'
<1> USE DEF IInv
<1>1. PICK F : HandlerSends(ServerFinished, "close", F)
  BY DEF SendFinished
<1>3. /\ failed \subseteq failed' /\ (Clean' => Clean)
      /\ toServer' = toServer /\ spc' \in {"close", "closed"}
      /\ toClient' = toClient \/ toClient' = Append(toClient, ServerFinished)
  BY <1>1, HandlerSendsEffect
<1>4. /\ spc = "finish" /\ UNCHANGED <<conf, clientVars, sel, kg, srv_pub, secdh, skem>>
      /\ ~finished /\ kg # "running"
  BY DEF SendFinished, ClientInv, FramesOutliveThreads, Late
<1>7. ServerKeyGood'
  BY FinishedKeyGood
<1>8. RequestInv' /\ HandlerInv'
  BY <1>3, <1>4, RequestLate, HandlerLate DEF Late
<1>9. ReplyInv'
  <2>1. \A p, q : KeyMaterialGood(p, q) => KeyMaterialGood(p, q)'
    BY <1>3, <1>4, ConfStep DEF KeyMaterialGood
  <2>2. CASE toClient = <<>>
    <3>1. toClient' = <<>> \/ toClient' = <<ServerFinished>>
      BY <1>3, <2>2, ShortSequences
    <3> QED
      BY <1>3, <1>7, <3>1 DEF ReplyInv, Late
  <2>3. CASE \E p, q \in BOOLEAN : toClient = <<KeyMaterial(p, q)>> /\ KeyMaterialGood(p, q)
    <3>1. PICK p, q \in BOOLEAN : toClient = <<KeyMaterial(p, q)>> /\ KeyMaterialGood(p, q)
      BY <2>3
    <3>2. \/ toClient' = <<KeyMaterial(p, q)>>
          \/ toClient' = <<KeyMaterial(p, q), ServerFinished>>
      BY <1>3, <3>1, ShortSequences
    <3>3. KeyMaterialGood(p, q)'
      BY <2>1, <3>1
    <3> QED
      BY <1>3, <1>7, <3>2, <3>3 DEF ReplyInv, Late
  <2> QED
    BY <1>4, <2>2, <2>3 DEF ReplyInv
<1>10. ClientInv'
  BY <1>3, <1>4, ConfStep DEF ClientInv, Late
<1>11. cpc # "new"
  BY <1>4 DEF RequestInv
<1>12. ThreadInv' /\ FramesOutliveThreads' /\ NoClientDowngrade'
  BY <1>3, <1>4, <1>11 DEF ThreadInv, FramesOutliveThreads, NoClientDowngrade
<1> QED
  BY <1>4, <1>8, <1>9, <1>10, <1>12, ConfStep

LEMMA HandlerRecvFailsOK ==
  ASSUME IInv, HandlerRecvFails
  PROVE  IInv'
<1>1. failed \subseteq failed' /\ (Clean' => Clean)
  BY BlameEffect DEF HandlerRecvFails
<1> QED
  BY <1>1, HandlerQuits DEF HandlerRecvFails, Reading, Late

LEMMA HandlerEOFOK ==
  ASSUME IInv, HandlerEOF
  PROVE  IInv'
BY HandlerQuits DEF HandlerEOF, Reading, Late, Clean, Blameless

LEMMA CloseConnectionOK ==
  ASSUME IInv, CloseConnection
  PROVE  IInv'
BY HandlerQuits DEF CloseConnection, CloseHandler, Late, Clean, Blameless

----------------------------------------------------------------------------
(* The theorems *)

LEMMA InitOK == Init => IInv
<1> SUFFICES ASSUME Init
             PROVE  IInv
  OBVIOUS
<1>1. ConfInv
  BY SuiteProfile DEF Init, ConfInv
<1>2. RequestInv /\ HandlerInv /\ ReplyInv
  BY DEF Init, RequestInv, HandlerInv, ReplyInv, Early, Late
<1>3. ClientInv /\ ThreadInv /\ FramesOutliveThreads /\ NoClientDowngrade
  BY DEF Init, ClientInv, ThreadInv, FramesOutliveThreads, NoClientDowngrade
<1> QED
  BY <1>1, <1>2, <1>3 DEF IInv

LEMMA StutterOK ==
  ASSUME IInv, UNCHANGED vars
  PROVE  IInv'
<1> USE DEF IInv
<1>1. UNCHANGED <<conf, failed, clientVars, handlerVars, socketVars>>
  BY DEF vars
<1>2. Clean' = Clean
  BY <1>1 DEF Clean, Blameless
<1>3. /\ ServerKeyGood' = ServerKeyGood
      /\ \A p, q : KeyMaterialGood(p, q)' = KeyMaterialGood(p, q)
  BY <1>1, <1>2, ConfStep DEF ServerKeyGood, KeyMaterialGood
<1>4. RequestInv'
  BY <1>1, <1>2, ConfStep DEF RequestInv
<1>5. HandlerInv'
  BY <1>1, <1>2, HandlerIdle
<1>6. ReplyInv'
  BY <1>1, <1>2, ReplyKept
<1>7. ClientInv'
  BY <1>1, <1>2, <1>3, ConfStep DEF ClientInv
<1>8. ThreadInv' /\ FramesOutliveThreads' /\ NoClientDowngrade'
  BY <1>1 DEF ThreadInv, FramesOutliveThreads, NoClientDowngrade
<1> QED
  BY <1>1, <1>4, <1>5, <1>6, <1>7, <1>8, ConfStep

LEMMA NextOK ==
  ASSUME IInv, [Next]_vars
  PROVE  IInv'
<1>1. CASE ClientStep
  BY <1>1, ConnectOK, SendProfileSelectOK, SendBinaryHelloOK, SendClientHelloOK,
     ReadReplyOK, JoinEncapsOK, ReadFinishedOK, ClientRecvFailsOK, ClientEOFOK
     DEF ClientStep
<1>2. CASE HandlerStep
  BY <1>2, AcceptOK, PeekMagicOK, ReadProfileSelectOK, NoSuchProfileOK,
     ReadClientHelloOK, JoinKeygenOK, SendKeyMaterialOK, ReadCiphertextOK,
     SendFinishedOK, HandlerRecvFailsOK, HandlerEOFOK, CloseConnectionOK
     DEF HandlerStep
<1> QED
  BY <1>1, <1>2, EncapsThreadOK, KeygenThreadOK, KillOK, StutterOK DEF Next

THEOREM Invariance == Spec => []IInv
BY InitOK, NextOK, PTL DEF Spec

(***************************************************************************)
(* Any client gets along with any server: where no failure touched a key,  *)
(* a client that saw ServerFinished has a complete key, and the server has *)
(* the same one, but for what c/server.c and the fallback of c_dispatch    *)
(* read after they freed it (server.c:142, c_dispatch/server.c:388).       *)
(***************************************************************************)
THEOREM KeyAgreement == Spec => []KeysAgree
<1>1. IInv => KeysAgree
  <2> SUFFICES ASSUME IInv, finished, Clean
               PROVE  /\ Complete(ckey)
                      /\ skey.ecdh = ckey.ecdh /\ skey.kem = ckey.kem /\ skey.id = ckey.id
                      /\ ReadsFreed \/ skey = ckey
    BY DEF KeysAgree, Clean, Touching
  <2>1. ckey = OwnKey /\ ServerKeyGood
    BY DEF IInv, ClientInv
  <2> QED
    BY <2>1, OwnKeyComplete DEF ServerKeyGood
<1> QED
  BY <1>1, Invariance, PTL

\* No failure, of either end or of the network, makes a hybrid client go on with
\* one share (client.c, network_client.py).
THEOREM NoDowngrade == Spec => []NoClientDowngrade
<1>1. IInv => NoClientDowngrade
  BY DEF IInv
<1> QED
  BY <1>1, Invariance, PTL

\* The helper threads end before the stack frames they work on, on every way out.
THEOREM FramesOutlive == Spec => []FramesOutliveThreads
<1>1. IInv => FramesOutliveThreads
  BY DEF IInv
<1> QED
  BY <1>1, Invariance, PTL

----------------------------------------------------------------------------
(* What may take the server down.  Sockets are open as long as their owners *)
(* use them; a reset comes from a client that left with a reply unread, or  *)
(* before it was sent, which only a classical handler still writes after.   *)

Excused ==
  \/ ~Blameless({"malloc", "keygen_thread"})
  \/ /\ conf.suite.profile = "PURE_CLASSICAL"
     /\ cpc \in {"error", "killed"} \/ "recv" \in failed

SocketInv ==
  /\ copen <=> cpc \in Running
  /\ sopen <=> spc \notin {"none", "closed"}
  /\ creset => spc = "closed"
  /\ sreset => ~copen /\ spc \in {"ct", "finish"} \cup Late
  /\ cpc = "crashed" => "malloc" \in failed \/ spc = "closed"
  /\ spc = "ct" /\ (cpc \in {"join", "await_fin"} \/ toServer # <<>>) =>
       toClient = <<>> /\ ~sreset
  /\ spc = "finish" /\ HasKem(conf.suite) => toClient = <<>> /\ ~sreset

KeygenInv ==
  /\ spc = "join_kg" => conf.server = "c"
  /\ spc \in {"hello", "join_kg"} /\ conf.server = "c" /\ HasKem(conf.suite) =>
       kg \in {"running", "ok", "failed"} \/ "keygen_thread" \in failed

DeathInv ==
  /\ spc = "finish" /\ sreset => Excused
  /\ server = "dead" => \/ Excused /\ Native(conf.server)
                        \/ conf.server = "python" /\ "thread" \in failed

ServeInv == SocketInv /\ KeygenInv /\ DeathInv

LEMMA Classical ==
  ASSUME ConfInv, ~HasKem(conf.suite)
  PROVE  conf.suite.profile = "PURE_CLASSICAL"
BY DEF ConfInv, HasKem

\* What excuses the server stays true: clients that ended do not come back.
LEMMA ExcusedStep ==
  ASSUME conf' = conf, failed \subseteq failed',
         cpc' = cpc \/ cpc \notin {"error", "killed"}
  PROVE  Excused => Excused'
BY DEF Excused, Blameless

\* A client's step.
LEMMA ClientServe ==
  ASSUME IInv, ServeInv, UNCHANGED <<conf, handlerVars, sopen>>, failed \subseteq failed',
         cpc \in Running, copen' <=> cpc' \in Running, creset' => creset \/ ~sopen,
         sreset' = sreset \/ (~copen' /\ sreset' = (sreset \/ (sopen /\ toClient' # <<>>))),
         toClient' = toClient \/ (toClient # <<>> /\ toClient' = Tail(toClient)),
         cpc' = "crashed" => "malloc" \in failed' \/ spc = "closed",
         spc = "ct" /\ (cpc' \in {"join", "await_fin"} \/ toServer' # <<>>) =>
           toClient' = <<>>,
         spc = "finish" /\ toClient' # <<>> /\ ~copen' => Excused'
  PROVE  ServeInv'
<1>1. Excused => Excused'
  BY ExcusedStep DEF Running, Waiting
<1>2. creset' => spc = "closed"
  BY DEF ServeInv, SocketInv, IInv, RequestInv, Running, Waiting
<1>3. toClient = <<>> => toClient' = <<>>
  OBVIOUS
<1>4. toClient' # <<>> => spc \in {"ct", "finish"} \cup Late
  BY <1>3 DEF IInv, ReplyInv
<1>5. copen /\ ~sreset
  BY DEF ServeInv, SocketInv
<1>6. sreset' => ~copen' /\ toClient' # <<>>
  BY <1>5
<1>7. SocketInv'
  BY <1>2, <1>3, <1>4, <1>5, <1>6, ConfStep DEF ServeInv, SocketInv, Late
<1>8. KeygenInv'
  BY DEF ServeInv, KeygenInv
<1>9. DeathInv'
  BY <1>1, <1>6 DEF ServeInv, DeathInv
<1> QED
  BY <1>7, <1>8, <1>9 DEF ServeInv

LEMMA ClientSendsServe ==
  ASSUME IInv, ServeInv, UNCHANGED <<conf, handlerVars, sopen, toClient>>,
         cpc \in {"profile", "keypair"}, NEW m, NEW next \in {"keypair", "await_reply"},
         NEW F, ClientSends(m, next, F)
  PROVE  ServeInv'
<1>1. failed \subseteq failed'
  BY ClientSendsEffect
<1>2. copen /\ cpc \in Running
  BY DEF ServeInv, SocketInv, Running
<1>3. CASE creset /\ cpc' # next
  <2>1. spc = "closed"
    BY <1>3 DEF ServeInv, SocketInv
  <2>2. cpc' \in {"crashed", "error"} /\ creset' = creset /\ CloseClient
    BY <1>3 DEF ClientSends
  <2>3. copen' = FALSE /\ cpc' \notin Running
    BY <2>2 DEF CloseClient, Running, Waiting
  <2> QED
    BY <1>1, <1>2, <2>1, <2>2, <2>3, ClientServe DEF CloseClient
<1>4. CASE cpc' = next
  <2>1. UNCHANGED <<copen, sreset>> /\ (creset' = creset \/ creset' = ~sopen)
    BY <1>4 DEF ClientSends
  <2>2. spc # "ct"
    BY DEF IInv, RequestInv, Gone
  <2>3. cpc' \in Running /\ cpc' # "crashed"
    BY <1>4 DEF Running, Waiting
  <2>4. (copen' <=> cpc' \in Running) /\ copen'
    BY <1>2, <2>1, <2>3
  <2>5. creset' => creset \/ ~sopen
    BY <2>1
  <2> QED
    BY <1>1, <1>2, <2>1, <2>2, <2>3, <2>4, <2>5, ClientServe
<1> QED
  BY <1>3, <1>4 DEF ClientSends

LEMMA ConnectServe ==
  ASSUME IInv, ServeInv, Connect
  PROVE  ServeInv'
<1>1. failed \subseteq failed'
  BY BlameEffect DEF Connect
<1>2. spc = "none" /\ ~copen /\ ~sopen /\ ~creset /\ ~sreset
  BY DEF Connect, IInv, RequestInv, ServeInv, SocketInv, Running, Waiting, Late
<1>3. SocketInv'
  BY <1>1, <1>2 DEF Connect, SocketInv, Running, Waiting
<1>4. Excused => Excused'
  BY <1>1, ExcusedStep DEF Connect
<1>5. KeygenInv' /\ DeathInv'
  BY <1>1, <1>2, <1>4 DEF Connect, ServeInv, KeygenInv, DeathInv
<1> QED
  BY <1>3, <1>5 DEF ServeInv

LEMMA ClientSpeaksServe ==
  ASSUME IInv, ServeInv, SendProfileSelect \/ SendBinaryHello \/ SendClientHello
  PROVE  ServeInv'
<1>1. CASE SendProfileSelect
  BY <1>1, ClientSendsServe DEF SendProfileSelect
<1>2. CASE SendBinaryHello
  BY <1>2, ClientSendsServe DEF SendBinaryHello
<1>3. CASE SendClientHello /\ Blame({"keypair"}) /\ GiveUp
  <2>1. failed \subseteq failed' /\ cpc = "keypair" /\ cpc' = "error" /\ CloseClient
    BY <1>3, BlameEffect DEF SendClientHello, GiveUp
  <2>2. /\ UNCHANGED <<conf, handlerVars, sopen, toClient, creset>>
        /\ copen' = FALSE /\ sreset' = (sreset \/ (sopen /\ toClient' # <<>>))
    BY <1>3, <2>1 DEF SendClientHello, GiveUp, CloseClient
  <2>3. spc # "ct" /\ cpc \in Running /\ cpc' \notin Running
    BY <2>1 DEF IInv, RequestInv, Gone, Running, Waiting
  <2>4. spc = "finish" /\ toClient # <<>> => Excused'
    BY <2>1, <2>2, Classical DEF Excused, IInv, ServeInv, SocketInv
  <2> QED
    BY <2>1, <2>2, <2>3, <2>4, ClientServe
<1>4. CASE /\ SendClientHello
           /\ \E x \in Exported(conf.client) : \E pub \in Encoded(x.v, conf.client) :
                ClientSends(ClientHello(pub.v), "await_reply", x.by \cup pub.by)
  BY <1>4, ClientSendsServe DEF SendClientHello
<1> QED
  BY <1>1, <1>2, <1>3, <1>4 DEF SendClientHello

\* How a client may leave a wait.
Leaves ==
  /\ creset' => creset \/ ~sopen
  /\ \/ cpc' \in {"join", "await_fin"} /\ UNCHANGED <<copen, sreset>>
     \/ /\ cpc' \in {"error", "crashed", "ok", "killed"} /\ CloseClient
        /\ cpc' = "crashed" => "malloc" \in failed' \/ spc = "closed"

LEMMA ClientSendsLeaves ==
  ASSUME creset => spc = "closed", NEW m, NEW F, ClientSends(m, "await_fin", F)
  PROVE  Leaves
<1>1. creset' => creset \/ ~sopen
  BY DEF ClientSends
<1> QED
  BY <1>1 DEF ClientSends, Leaves

\* In what may be left unread, and what a reset excuses: ClientServe, for a wait.
LEMMA LeavesServe ==
  ASSUME IInv, ServeInv, UNCHANGED <<conf, handlerVars, sopen>>, failed \subseteq failed',
         cpc \in {"join"} \cup Waiting, Leaves,
         toClient' = toClient \/ (toClient # <<>> /\ toClient' = Tail(toClient)),
         spc = "ct" /\ (cpc' \in {"join", "await_fin"} \/ toServer' # <<>>) =>
           toClient' = <<>>,
         spc = "finish" /\ toClient' # <<>> /\ ~copen' => Excused'
  PROVE  ServeInv'
<1>1. cpc \in Running
  BY DEF Running
<1>2. copen' <=> cpc' \in Running
  BY <1>1 DEF Leaves, CloseClient, Running, Waiting, ServeInv, SocketInv
<1>3. UNCHANGED sreset \/ (~copen' /\ sreset' = (sreset \/ (sopen /\ toClient' # <<>>)))
  BY DEF Leaves, CloseClient
<1>4. /\ creset' => creset \/ ~sopen
      /\ cpc' = "crashed" => "malloc" \in failed' \/ spc = "closed"
  BY DEF Leaves
<1> QED
  BY <1>1, <1>2, <1>3, <1>4, ClientServe

LEMMA ReadReplyServe ==
  ASSUME IInv, ServeInv, ReadReply
  PROVE  ServeInv'
<1> USE DEF ReadReply
<1>1. creset => spc = "closed"
  BY DEF ServeInv, SocketInv
<1>2. failed \subseteq failed'
  BY HybridReplyOK, ClassicalReplyOK, QuantumReplyOK, PythonReplyOK DEF Reply
<1>3. Leaves
  <2>1. CASE HybridReply(Reply)
    BY <2>1 DEF HybridReply, GiveUp, Leaves
  <2>2. CASE ClassicalReply(Reply)
    BY <2>2 DEF ClassicalReply, Leaves
  <2>3. CASE QuantumReply(Reply)
    <3>1. CASE GiveUp
      BY <3>1 DEF GiveUp, Leaves
    <3>2. CASE Blame({"malloc"}) /\ cpc' = "crashed" /\ CloseClient /\ UNCHANGED creset
      <4>1. "malloc" \in failed'
        BY <3>2, BlameEffect
      <4> QED
        BY <3>2, <4>1 DEF Leaves
    <3>3. CASE \E m, F : ClientSends(m, "await_fin", F)
      BY <1>1, <3>3, ClientSendsLeaves
    <3> QED
      BY <2>3, <3>1, <3>2, <3>3 DEF QuantumReply
  <2>4. CASE PythonReply(Reply)
    BY <1>1, <2>4, ClientSendsLeaves DEF PythonReply, GiveUp, Leaves
  <2> QED
    BY <2>1, <2>2, <2>3, <2>4 DEF Reply
<1>4. spc \in {"ct", "finish"} => toClient' = <<>>
  BY ShortSequences DEF ClientGets, IInv, ReplyInv
<1>5. UNCHANGED <<conf, handlerVars, sopen>> /\ cpc \in {"join"} \cup Waiting
  BY DEF ClientGets, Waiting
<1> QED
  BY <1>2, <1>3, <1>4, <1>5, LeavesServe DEF ClientGets

LEMMA JoinEncapsServe ==
  ASSUME IInv, ServeInv, JoinEncaps
  PROVE  ServeInv'
<1> USE DEF JoinEncaps
<1>1. creset => spc = "closed"
  BY DEF ServeInv, SocketInv
<1>2. Leaves /\ failed \subseteq failed'
  <2>1. CASE ~BothShares /\ Blame({}) /\ GiveUp
    BY <2>1, BlameEffect DEF GiveUp, Leaves
  <2>2. CASE \E ct \in Encoded(TRUE, "c"),
                k \in ClientKey(cecdh, IF cth = "ok" THEN "kem" ELSE "none") :
               ClientSends(PQCCiphertext(IF ct.v THEN "kem" ELSE "missing"), "await_fin",
                           ct.by \cup k.by)
    BY <1>1, <2>2, ClientSendsLeaves, ClientSendsEffect
  <2> QED
    BY <2>1, <2>2
<1>3. spc = "ct" => toClient = <<>>
  BY DEF ServeInv, SocketInv
<1>4. spc = "finish" => toClient = <<>>
  BY DEF ServeInv, SocketInv, IInv, ClientInv, HasKem
<1>5. UNCHANGED <<conf, handlerVars, sopen, toClient>>
  OBVIOUS
<1> QED
  BY <1>2, <1>3, <1>4, <1>5, LeavesServe

LEMMA EncapsThreadServe ==
  ASSUME IInv, ServeInv, EncapsThread
  PROVE  ServeInv'
<1>1. failed \subseteq failed'
  BY BlameEffect DEF EncapsThread
<1>2. Excused => Excused'
  BY <1>1, ExcusedStep DEF EncapsThread
<1> QED
  BY <1>1, <1>2 DEF EncapsThread, ServeInv, SocketInv, KeygenInv, DeathInv

\* A client that ends, for whatever reason, with more than one line unread or none.
LEMMA ClientEndsServe ==
  ASSUME IInv, ServeInv, ReadFinished \/ ClientRecvFails \/ ClientEOF
  PROVE  ServeInv'
<1>1. /\ failed \subseteq failed' /\ UNCHANGED <<conf, handlerVars, sopen, creset, toServer>>
      /\ cpc \in Waiting /\ cpc' \in {"error", "ok"} /\ CloseClient
      /\ ClientRecvFails => "recv" \in failed'
  BY BlameEffect DEF ReadFinished, ClientRecvFails, ClientEOF, ClientGets, Unread, Waiting
<1>2. /\ toClient' = toClient \/ (toClient # <<>> /\ toClient' = Tail(toClient))
      /\ ~ClientRecvFails => toClient' = <<>> \/ toClient' = Tail(toClient)
  BY DEF ReadFinished, ClientRecvFails, ClientEOF, ClientGets
<1>3. Leaves
  BY <1>1 DEF Leaves
<1>4. toClient = <<>> => toClient' = <<>>
  BY <1>2
<1>5. spc = "ct" /\ toServer # <<>> => toClient' = <<>>
  BY <1>4 DEF ServeInv, SocketInv
<1>6. spc = "finish" /\ toClient' # <<>> => Excused'
  <2>1. CASE ClientRecvFails
    BY <1>1, <1>4, <2>1, Classical DEF Excused, IInv, ServeInv, SocketInv
  <2>2. CASE ~ClientRecvFails /\ spc = "finish"
    <3>1. toClient' = <<>>
      BY <1>2, <1>4, <2>2, ShortSequences DEF IInv, ReplyInv
    <3> QED
      BY <3>1
  <2> QED
    BY <2>1, <2>2
<1> QED
  BY <1>1, <1>2, <1>3, <1>5, <1>6, LeavesServe

LEMMA KillServe ==
  ASSUME IInv, ServeInv, Kill
  PROVE  ServeInv'
<1>1. /\ UNCHANGED <<conf, failed, handlerVars, sopen, creset, toServer, toClient>>
      /\ cpc \in Running /\ cpc' = "killed" /\ CloseClient
  BY DEF Kill
<1>2. copen' = FALSE /\ sreset' = (sreset \/ (sopen /\ toClient' # <<>>)) /\ cpc' \notin Running
  BY <1>1 DEF CloseClient, Running, Waiting
<1>3. spc = "ct" /\ toServer # <<>> => toClient = <<>>
  BY DEF ServeInv, SocketInv
<1>4. spc = "finish" /\ toClient # <<>> => Excused'
  BY <1>1, Classical DEF Excused, IInv, ServeInv, SocketInv
<1> QED
  BY <1>1, <1>2, <1>3, <1>4, ClientServe

\* A step of the handler: one that goes on, and one that closes or dies.
LEMMA HandlerMovesServe ==
  ASSUME IInv, ServeInv, UNCHANGED <<conf, clientVars, copen, sopen, creset, server>>,
         failed \subseteq failed', spc \notin {"none", "closed"}, spc' \notin {"none", "closed"},
         sreset' => ~copen /\ spc' \in {"ct", "finish"} \cup Late,
         spc' = "ct" /\ (cpc \in {"join", "await_fin"} \/ toServer' # <<>>) =>
           toClient' = <<>> /\ ~sreset',
         spc' = "finish" /\ HasKem(conf.suite) => toClient' = <<>> /\ ~sreset',
         spc' = "finish" /\ sreset' => Excused',
         KeygenInv'
  PROVE  ServeInv'
<1>1. Excused => Excused'
  BY ExcusedStep
<1>2. SocketInv'
  BY DEF ServeInv, SocketInv
<1>3. DeathInv'
  BY <1>1 DEF ServeInv, DeathInv
<1> QED
  BY <1>2, <1>3 DEF ServeInv

LEMMA HandlerClosesServe ==
  ASSUME IInv, ServeInv, UNCHANGED <<conf, clientVars, copen, sreset>>,
         failed \subseteq failed', spc \notin {"none", "closed"}, spc' = "closed", ~sopen',
         \/ server' = server
         \/ Excused' /\ Native(conf.server)
         \/ conf.server = "python" /\ "thread" \in failed'
  PROVE  ServeInv'
<1>1. Excused => Excused'
  BY ExcusedStep
<1>2. SocketInv'
  BY DEF ServeInv, SocketInv, Late
<1>3. KeygenInv' /\ DeathInv'
  BY <1>1 DEF ServeInv, KeygenInv, DeathInv
<1> QED
  BY <1>2, <1>3 DEF ServeInv

\* Giving up on a connection needs no excuse.
LEMMA HandlerGivesUpServe ==
  ASSUME IInv, ServeInv, UNCHANGED <<conf, clientVars, copen, sopen, creset, sreset, server>>,
         failed \subseteq failed', spc \notin {"none", "closed"}, spc' \in {"lost"} \cup Late,
         spc' # "closed", spc' = "lost" => ~sreset
  PROVE  ServeInv'
<1>1. KeygenInv'
  BY DEF KeygenInv, Late
<1>2. sreset => ~copen
  BY DEF ServeInv, SocketInv
<1> QED
  BY <1>1, <1>2, HandlerMovesServe DEF Late

LEMMA AcceptServe ==
  ASSUME IInv, ServeInv, Accept
  PROVE  ServeInv'
<1>1. /\ UNCHANGED <<conf, clientVars, copen, sreset>> /\ spc = "queued" /\ ~sreset
      /\ failed \subseteq failed'
  BY BlameEffect DEF Accept, AcceptNative, AcceptPython, ServeInv, SocketInv, Late
<1>2. CASE spc' \in {"select", "lost"} /\ UNCHANGED <<server, sopen, creset>>
  BY <1>1, <1>2, HandlerMovesServe DEF KeygenInv, Late
<1>3. CASE ServerDies /\ Native(conf.server) /\ Blame({"malloc"})
  <2>1. Excused'
    BY <1>3, BlameEffect DEF Excused, Blameless
  <2> QED
    BY <1>1, <1>3, <2>1, HandlerClosesServe DEF ServerDies, CloseHandler
<1>4. CASE ServerDies /\ ~Native(conf.server) /\ Blame({"thread"})
  <2>1. "thread" \in failed' /\ conf.server = "python"
    BY <1>4, BlameEffect DEF Native
  <2> QED
    BY <1>1, <1>4, <2>1, HandlerClosesServe DEF ServerDies, CloseHandler
<1> QED
  BY <1>2, <1>3, <1>4 DEF Accept, AcceptNative, AcceptPython

LEMMA PeekMagicServe ==
  ASSUME IInv, ServeInv, PeekMagic
  PROVE  ServeInv'
<1>1. failed \subseteq failed'
  BY BlameEffect DEF PeekMagic
<1> QED
  BY <1>1, HandlerGivesUpServe DEF PeekMagic, HandlerGets, Late

LEMMA NoSuchProfileServe ==
  ASSUME IInv, ServeInv, NoSuchProfile
  PROVE  ServeInv'
BY HandlerGivesUpServe DEF NoSuchProfile, HandlerGets, Late

\* The generation thread is started before the handler waits for anything.
LEMMA ReadProfileSelectServe ==
  ASSUME IInv, ServeInv, ReadProfileSelect
  PROVE  ServeInv'
<1> DEFINE m == Head(toServer)
<1>1. /\ spc = "select" /\ m = ProfileSelect /\ ~sreset
      /\ UNCHANGED <<conf, clientVars, copen, sopen, creset, sreset, server, toClient>>
  BY SelectRead DEF ReadProfileSelect, HandlerGets, ServeInv, SocketInv, Late
<1>2. PICK s \in ComboById(m.id) :
        \/ conf.server = "c" /\ SelectC(m, s)
        \/ conf.server = "dispatch" /\ SelectDispatch(m, s)
        \/ conf.server = "python" /\ SelectPython(m, s)
  BY DEF ReadProfileSelect
<1>3. s = conf.suite
  BY <1>1, RowFound DEF IInv, ConfInv, ProfileSelect
<1>4. failed \subseteq failed' /\ spc' \in {"hello", "join_kg", "reply", "close"} /\ KeygenInv'
  <2>1. CASE conf.server = "c" /\ SelectC(m, s)
    <3>1. PICK k \in IF HasKem(s) THEN {Fine("running"), Bad("none", "keygen_thread")}
                     ELSE {Fine("none")} : Blame(k.by) /\ kg' = k.v
      BY <2>1 DEF SelectC
    <3>2. failed \subseteq failed' /\ k.by \subseteq failed'
      BY <3>1, BlameEffect
    <3>3. HasKem(s) => kg' = "running" \/ "keygen_thread" \in failed'
      BY <3>1, <3>2 DEF Fine, Bad
    <3>4. spc' \in {"hello", "join_kg"}
      BY <2>1 DEF SelectC
    <3> QED
      BY <1>1, <1>3, <2>1, <3>2, <3>3, <3>4 DEF KeygenInv
  <2>2. CASE conf.server = "dispatch" /\ SelectDispatch(m, s)
    <3>1. failed \subseteq failed' /\ spc' \in {"hello", "reply", "close"}
      BY <2>2, BlameEffect DEF SelectDispatch
    <3> QED
      BY <1>1, <2>2, <3>1 DEF KeygenInv
  <2>3. CASE conf.server = "python" /\ SelectPython(m, s)
    <3>1. failed \subseteq failed' /\ spc' \in {"hello", "reply"}
      BY <2>3, BlameEffect DEF SelectPython
    <3> QED
      BY <1>1, <2>3, <3>1 DEF KeygenInv
  <2> QED
    BY <1>2, <2>1, <2>2, <2>3
<1> QED
  BY <1>1, <1>4, HandlerMovesServe

LEMMA ReadClientHelloServe ==
  ASSUME IInv, ServeInv, ReadClientHello
  PROVE  ServeInv'
<1> DEFINE m == Head(toServer)
<1>1. /\ spc = "hello" /\ ~sreset
      /\ UNCHANGED <<conf, clientVars, copen, sopen, creset, sreset, server, kg, toClient>>
  BY DEF ReadClientHello, HandlerGets, ServeInv, SocketInv, Late
<1>2. /\ failed \subseteq failed'
      /\ spc' \in {"close", "reply"} \/ (spc' = "join_kg" /\ conf.server = "c")
  BY BlameEffect DEF ReadClientHello, HelloC, HelloDispatch, HelloPython
<1>3. KeygenInv'
  BY <1>1, <1>2 DEF ServeInv, KeygenInv
<1> QED
  BY <1>1, <1>2, <1>3, HandlerMovesServe

LEMMA KeygenThreadServe ==
  ASSUME IInv, ServeInv, KeygenThread
  PROVE  ServeInv'
<1>1. failed \subseteq failed' /\ kg' \in {"ok", "failed"}
  BY BlameEffect DEF KeygenThread, Fine, Bad
<1>2. Excused => Excused'
  BY <1>1, ExcusedStep DEF KeygenThread
<1> QED
  BY <1>1, <1>2 DEF KeygenThread, ServeInv, SocketInv, KeygenInv, DeathInv

\* Only a thread that could not be started leaves no KEM behind.
LEMMA JoinKeygenServe ==
  ASSUME IInv, ServeInv, JoinKeygen
  PROVE  ServeInv'
<1>1. /\ spc = "join_kg" /\ ~sreset /\ conf.server = "c" /\ kg # "running"
      /\ UNCHANGED <<conf, clientVars, kg, copen, sreset>> /\ failed \subseteq failed'
      /\ sel.suite = conf.suite
  BY BlameEffect DEF JoinKeygen, ServeInv, SocketInv, KeygenInv, Late, IInv, HandlerInv
<1>2. CASE ~KeygenFailed /\ kg # "ok" /\ HasKem(sel.suite) /\ ServerDies
  <2>1. "keygen_thread" \in failed
    BY <1>1, <1>2 DEF ServeInv, KeygenInv, KeygenFailed
  <2>2. Excused' /\ Native(conf.server)
    BY <1>1, <2>1 DEF Excused, Blameless, Native
  <2> QED
    BY <1>1, <1>2, <2>2, HandlerClosesServe DEF ServerDies, CloseHandler
<1>3. CASE spc' \in {"close", "reply"} /\ UNCHANGED <<server, sopen, creset>>
  BY <1>1, <1>3, HandlerMovesServe DEF KeygenInv
<1> QED
  BY <1>2, <1>3 DEF JoinKeygen

\* The reply is the first thing that is written, so no reset came before it.  Where
\* it finds a classical client gone, it is what brings the reset.
LEMMA SendKeyMaterialServe ==
  ASSUME IInv, ServeInv, SendKeyMaterial
  PROVE  ServeInv'
<1>1. /\ spc = "reply" /\ ~sreset /\ UNCHANGED <<conf, clientVars>>
      /\ toServer = <<>> /\ toClient = <<>> /\ sel.suite = conf.suite
      /\ cpc \in {"await_reply"} \cup Gone
  BY DEF SendKeyMaterial, ServeInv, SocketInv, IInv, RequestInv, HandlerInv, ReplyInv, Late
<1>2. CASE Blame({"kem"}) /\ spc' = "close" /\ UNCHANGED <<server, socketVars>>
  <2>1. failed \subseteq failed'
    BY <1>2, BlameEffect
  <2> QED
    BY <1>1, <1>2, <2>1, HandlerGivesUpServe DEF Late
<1>3. CASE \E km, F : HandlerSends(km, AfterReply(sel.suite), F)
  <2>1. PICK km, F : HandlerSends(km, AfterReply(sel.suite), F)
    BY <1>3
  <2>2. failed \subseteq failed'
    BY <2>1, HandlerSendsEffect
  <2>3. /\ spc' = (IF HasKem(conf.suite) THEN "ct" ELSE "finish")
        /\ UNCHANGED <<copen, sopen, creset, server, toServer>>
        /\ sreset' => ~copen
        /\ ~copen => toClient' = toClient
    <3>1. /\ spc' = AfterReply(sel.suite) /\ UNCHANGED <<copen, sopen, creset, server, toServer>>
          /\ \/ UNCHANGED <<toClient, sreset>>
             \/ /\ toClient' = IF copen THEN Append(toClient, km) ELSE toClient
                /\ sreset' = ~copen
      BY <1>1, <2>1 DEF HandlerSends
    <3>2. spc' = (IF HasKem(conf.suite) THEN "ct" ELSE "finish")
      BY <1>1, <3>1 DEF AfterReply
    <3>3. (sreset' => ~copen) /\ (~copen => toClient' = toClient)
      <4>1. CASE UNCHANGED <<toClient, sreset>>
        BY <1>1, <4>1
      <4>2. CASE /\ toClient' = IF copen THEN Append(toClient, km) ELSE toClient
                 /\ sreset' = ~copen
        <5>1. ~copen => toClient' = toClient
          BY <4>2
        <5>2. CASE copen
          BY <4>2, <5>2, Zenon
        <5> QED
          BY <5>1, <5>2
      <4> QED
        BY <3>1, <4>1, <4>2
    <3> QED
      BY <3>1, <3>2, <3>3
  <2>4. spc' = "finish" /\ sreset' => Excused'
    <3> SUFFICES ASSUME spc' = "finish", ~copen
                 PROVE  Excused'
      BY <2>3
    <3>1. cpc \in Gone
      BY <1>1 DEF ServeInv, SocketInv, Running, Waiting
    <3>2. cpc = "crashed" => "malloc" \in failed'
      BY <1>1, <2>2 DEF ServeInv, SocketInv
    <3>3. conf.suite.profile = "PURE_CLASSICAL"
      BY <2>3, Classical DEF IInv
    <3> QED
      BY <1>1, <3>1, <3>2, <3>3 DEF Excused, Blameless, Gone
  <2>5. cpc \notin {"join", "await_fin"} /\ toServer' = <<>>
    BY <1>1, <2>3 DEF Gone
  <2>6. KeygenInv'
    BY <2>3 DEF KeygenInv
  <2>7. /\ spc \notin {"none", "closed"} /\ spc' \notin {"none", "closed"}
        /\ sreset' => ~copen /\ spc' \in {"ct", "finish"} \cup Late
        /\ ~(spc' = "finish" /\ HasKem(conf.suite))
    BY <1>1, <2>3
  <2> QED
    BY <1>1, <2>2, <2>3, <2>4, <2>5, <2>6, <2>7, HandlerMovesServe
<1> QED
  BY <1>2, <1>3 DEF SendKeyMaterial

\* A client that sent its ciphertext has read the reply.
LEMMA ReadCiphertextServe ==
  ASSUME IInv, ServeInv, ReadCiphertext
  PROVE  ServeInv'
<1>1. /\ spc = "ct" /\ toServer # <<>> /\ UNCHANGED <<conf, clientVars, toClient, copen, sreset>>
      /\ toClient = <<>> /\ ~sreset
  BY DEF ReadCiphertext, HandlerGets, ServeInv, SocketInv
<1>2. CASE ServerDies /\ Native(conf.server) /\ Blame({"malloc"})
  <2>1. Excused' /\ failed \subseteq failed'
    BY <1>2, BlameEffect DEF Excused, Blameless
  <2> QED
    BY <1>1, <1>2, <2>1, HandlerClosesServe DEF ServerDies, CloseHandler
<1>3. CASE spc' \in {"close", "finish"} /\ UNCHANGED <<server, sopen, creset>>
  <2>1. failed \subseteq failed'
    BY BlameEffect DEF ReadCiphertext, CiphertextNative, CiphertextPython
  <2> QED
    BY <1>1, <1>3, <2>1, HandlerMovesServe DEF KeygenInv
<1> QED
  BY <1>2, <1>3 DEF ReadCiphertext, CiphertextNative, CiphertextPython

\* The only write that may follow a reset.
LEMMA SendFinishedServe ==
  ASSUME IInv, ServeInv, SendFinished
  PROVE  ServeInv'
<1>1. spc = "finish" /\ UNCHANGED <<conf, clientVars>> /\ (sreset => Excused /\ ~copen)
  BY DEF SendFinished, ServeInv, SocketInv, DeathInv
<1>2. PICK F : HandlerSends(ServerFinished, "close", F)
  BY DEF SendFinished
<1>3. failed \subseteq failed' /\ UNCHANGED copen
  BY <1>2, HandlerSendsEffect DEF HandlerSends
<1>4. CASE sreset /\ Native(conf.server) /\ ServerDies /\ UNCHANGED sreset
  <2>1. Excused'
    BY <1>1, <1>3, <1>4, ExcusedStep
  <2> QED
    BY <1>1, <1>3, <1>4, <2>1, HandlerClosesServe DEF ServerDies, CloseHandler
<1>5. CASE /\ spc' = "close" /\ UNCHANGED <<server, sopen, creset>>
           /\ sreset' = sreset \/ sreset' = ~copen
  <2>1. sreset' => ~copen
    BY <1>1, <1>5
  <2>2. KeygenInv'
    BY <1>5 DEF KeygenInv
  <2> QED
    BY <1>1, <1>3, <1>5, <2>1, <2>2, HandlerMovesServe DEF Late
<1> QED
  BY <1>2, <1>4, <1>5 DEF HandlerSends

LEMMA HandlerEndsServe ==
  ASSUME IInv, ServeInv, HandlerRecvFails \/ HandlerEOF \/ CloseConnection
  PROVE  ServeInv'
<1>1. CASE HandlerRecvFails
  <2>1. failed \subseteq failed'
    BY <1>1, BlameEffect DEF HandlerRecvFails
  <2> QED
    BY <1>1, <2>1, HandlerGivesUpServe DEF HandlerRecvFails, Reading, Late
<1>2. CASE HandlerEOF
  BY <1>2, HandlerGivesUpServe DEF HandlerEOF, Reading, Late
<1>3. CASE CloseConnection
  BY <1>3, HandlerClosesServe DEF CloseConnection, CloseHandler
<1> QED
  BY <1>1, <1>2, <1>3

LEMMA InitServe == Init => ServeInv
BY DEF Init, ServeInv, SocketInv, KeygenInv, DeathInv, Running, Waiting

LEMMA NextServe ==
  ASSUME IInv, ServeInv, [Next]_vars
  PROVE  ServeInv'
<1>1. CASE ClientStep
  BY <1>1, ConnectServe, ClientSpeaksServe, ReadReplyServe, JoinEncapsServe,
     ClientEndsServe DEF ClientStep
<1>2. CASE HandlerStep
  BY <1>2, AcceptServe, PeekMagicServe, ReadProfileSelectServe, NoSuchProfileServe,
     ReadClientHelloServe, JoinKeygenServe, SendKeyMaterialServe, ReadCiphertextServe,
     SendFinishedServe, HandlerEndsServe DEF HandlerStep
<1>3. CASE UNCHANGED vars
  BY <1>3 DEF vars, ServeInv, SocketInv, KeygenInv, DeathInv, Excused, Blameless, Running,
              Waiting
<1> QED
  BY <1>1, <1>2, <1>3, EncapsThreadServe, KeygenThreadServe, KillServe DEF Next

THEOREM ServeInvariance == Spec => []ServeInv
<1>1. IInv /\ ServeInv /\ [Next]_vars => ServeInv'
  BY NextServe
<1> QED
  BY <1>1, InitServe, Invariance, PTL DEF Spec

\* Short of memory or threads, a server goes down only when a classical client ends
\* with an error, is killed or has a failing recv: send_json_line() in c/server.c and
\* c_dispatch/server.c writes to a socket that was reset (SIGPIPE).
THEOREM ServerLives == Spec => []ServerSurvives
<1>1. ServeInv => ServerSurvives
  BY DEF ServeInv, DeathInv, Excused, ServerSurvives
<1> QED
  BY <1>1, ServeInvariance, PTL

----------------------------------------------------------------------------
(* Without a failure: what the two ends have said to each other, and that   *)
(* nobody has met a reason to give up.                                      *)

FirstWords ==
  IF conf.client = "binary" THEN <<BinaryHello>>
  ELSE IF HasEcdh(conf.suite) THEN <<ProfileSelect, ClientHello(TRUE)>>
  ELSE <<ProfileSelect>>

Replied  == \E p, q \in BOOLEAN : toClient = <<KeyMaterial(p, q)>>
AllSaid  == \E p, q \in BOOLEAN : toClient = <<KeyMaterial(p, q), ServerFinished>>

TalkInv ==
  /\ cpc \in {"profile", "keypair"} => spc \in {"queued", "select", "hello"}
  /\ cpc = "keypair" => /\ conf.client # "binary"
                        /\ spc \in {"queued", "select"} => toServer = <<ProfileSelect>>
  /\ cpc = "await_reply" =>
       \/ spc \in {"queued", "select"} /\ toServer = FirstWords
       \/ spc = "hello" /\ toServer = <<ClientHello(TRUE)>>
       \/ spc \in {"join_kg", "reply"} \/ (spc = "handed" /\ toClient = <<>>)
       \/ spc = "ct" /\ Replied
       \/ spc = "finish" /\ ~HasKem(conf.suite) /\ Replied
       \/ spc \in {"close", "closed"} /\ ~HasKem(conf.suite) /\ AllSaid
  /\ cpc = "join" => spc = "ct"
  /\ cpc = "await_fin" =>
       \/ spc = "ct" /\ toServer = <<PQCCiphertext("kem")>>
       \/ spc = "finish" /\ toClient = <<>>
       \/ spc \in {"close", "closed"} /\ toClient = <<ServerFinished>>

FineInv ==
  /\ cpc \notin {"error", "crashed"} /\ (cpc = "ok" => finished)
  /\ cpc = "join" => cecdh = "dh" /\ cth \in {"running", "ok"}
  /\ spc \notin {"lost", "misread"} /\ kg \in {"none", "running", "ok"}

InteropInv == failed = {} => FineInv /\ TalkInv

\* Where nothing has failed after a step, nothing did in it.
LEMMA NothingFails ==
  ASSUME NEW F, Blame(F), failed' = {}
  PROVE  failed = {} /\ F = {}
BY DEF Blame

\* A message then gets through to a handler that is there.
LEMMA ClientSpeaks ==
  ASSUME ServeInv, spc \notin {"none", "closed"}, failed' = {},
         NEW m, NEW next, NEW F, ClientSends(m, next, F)
  PROVE  failed = {} /\ F = {} /\ cpc' = next /\ toServer' = Append(toServer, m)
<1>1. sopen /\ ~creset
  BY DEF ServeInv, SocketInv
<1>2. ~Blame(F \cup {"send"})
  BY NothingFails
<1>3. Blame(F)
  BY <1>2 DEF ClientSends
<1> QED
  BY <1>1, <1>2, <1>3, NothingFails DEF ClientSends

LEMMA HandlerSpeaks ==
  ASSUME ServeInv, copen, failed' = {},
         NEW m, NEW next, NEW F, HandlerSends(m, next, F)
  PROVE  failed = {} /\ F = {} /\ spc' = next /\ toClient' = Append(toClient, m)
<1>1. ~sreset
  BY DEF ServeInv, SocketInv
<1>2. ~Blame(F \cup {"send"})
  BY NothingFails
<1>3. Blame(F)
  BY <1>2 DEF HandlerSends
<1> QED
  BY <1>1, <1>2, <1>3, NothingFails DEF HandlerSends

LEMMA TalkKept ==
  ASSUME conf' = conf
  PROVE  FirstWords' = FirstWords
BY DEF FirstWords, ProfileSelect

LEMMA FirstWordsAre ==
  /\ conf.client = "binary" => FirstWords = <<BinaryHello>>
  /\ conf.client # "binary" /\ HasEcdh(conf.suite) =>
       FirstWords = <<ProfileSelect, ClientHello(TRUE)>>
  /\ conf.client # "binary" /\ ~HasEcdh(conf.suite) => FirstWords = <<ProfileSelect>>
BY DEF FirstWords

LEMMA ConnectTalk ==
  ASSUME IInv, ServeInv, InteropInv, Connect
  PROVE  InteropInv'
<1> SUFFICES ASSUME failed' = {}
             PROVE  FineInv' /\ TalkInv'
  BY DEF InteropInv
<1>1. failed = {} /\ cpc' = "profile" /\ spc' = "queued" /\ kg' = kg
  BY NothingFails DEF Connect
<1> QED
  BY <1>1 DEF InteropInv, FineInv, TalkInv

\* At the start of a connection only what the client has said matters.
LEMMA FirstTalk ==
  ASSUME InteropInv, failed = {}, UNCHANGED <<conf, kg, spc>>,
         \/ /\ cpc' = "keypair" /\ conf.client # "binary" /\ spc \in {"queued", "select", "hello"}
            /\ spc # "hello" => toServer' = <<ProfileSelect>>
         \/ /\ cpc' = "await_reply"
            /\ \/ spc \in {"queued", "select"} /\ toServer' = FirstWords
               \/ spc = "hello" /\ toServer' = <<ClientHello(TRUE)>>
  PROVE  InteropInv'
<1>1. FineInv'
  BY DEF InteropInv, FineInv
<1>2. TalkInv'
  <2>1. CASE cpc' = "keypair"
    BY <2>1, ConfStep DEF TalkInv
  <2>2. CASE cpc' = "await_reply"
    BY <2>2, TalkKept DEF TalkInv, ClientHello
  <2> QED
    BY <2>1, <2>2
<1> QED
  BY <1>1, <1>2 DEF InteropInv

LEMMA SendProfileSelectTalk ==
  ASSUME IInv, ServeInv, InteropInv, SendProfileSelect
  PROVE  InteropInv'
<1> SUFFICES ASSUME failed' = {}
             PROVE  InteropInv'
  BY DEF InteropInv
<1>1. failed \subseteq failed'
  BY ClientSendsEffect DEF SendProfileSelect
<1>2. spc \in {"queued", "select"} /\ toServer = <<>>
  BY <1>1 DEF SendProfileSelect, InteropInv, TalkInv, IInv, RequestInv, Early, Gone
<1>3. /\ failed = {} /\ cpc' = IF HasEcdh(conf.suite) THEN "keypair" ELSE "await_reply"
      /\ toServer' = Append(toServer, ProfileSelect)
  BY <1>2, ClientSpeaks DEF SendProfileSelect
<1>4. toServer' = <<ProfileSelect>>
  BY <1>2, <1>3, ShortSequences
<1> QED
  BY <1>2, <1>3, <1>4, FirstTalk, FirstWordsAre DEF SendProfileSelect

LEMMA SendBinaryHelloTalk ==
  ASSUME IInv, ServeInv, InteropInv, SendBinaryHello
  PROVE  InteropInv'
<1> SUFFICES ASSUME failed' = {}
             PROVE  InteropInv'
  BY DEF InteropInv
<1>1. failed \subseteq failed'
  BY ClientSendsEffect DEF SendBinaryHello
<1>2. spc \in {"queued", "select"} /\ toServer = <<>>
  BY <1>1 DEF SendBinaryHello, InteropInv, TalkInv, IInv, RequestInv, Early, Gone
<1>3. failed = {} /\ cpc' = "await_reply" /\ toServer' = Append(toServer, BinaryHello)
  BY <1>2, ClientSpeaks DEF SendBinaryHello
<1>4. toServer' = <<BinaryHello>>
  BY <1>2, <1>3, ShortSequences
<1> QED
  BY <1>2, <1>3, <1>4, FirstTalk, FirstWordsAre DEF SendBinaryHello

LEMMA SendClientHelloTalk ==
  ASSUME IInv, ServeInv, InteropInv, SendClientHello
  PROVE  InteropInv'
<1> SUFFICES ASSUME failed' = {}
             PROVE  InteropInv'
  BY DEF InteropInv
<1>1. cpc = "keypair" /\ UNCHANGED <<conf, kg, spc>>
  BY DEF SendClientHello
<1>2. PICK x \in Exported(conf.client) : \E pub \in Encoded(x.v, conf.client) :
             ClientSends(ClientHello(pub.v), "await_reply", x.by \cup pub.by)
  BY NothingFails DEF SendClientHello
<1>3. PICK pub \in Encoded(x.v, conf.client) :
             ClientSends(ClientHello(pub.v), "await_reply", x.by \cup pub.by)
  BY <1>2
<1>4. failed = {}
  BY <1>3, ClientSendsEffect
<1>5. TalkInv /\ FineInv
  BY <1>4 DEF InteropInv
<1>6. /\ spc \in {"queued", "select", "hello"} /\ conf.client # "binary"
      /\ spc \in {"queued", "select"} => toServer = <<ProfileSelect>> /\ HasEcdh(conf.suite)
      /\ spc = "hello" => toServer = <<>>
  BY <1>1, <1>5 DEF TalkInv, IInv, RequestInv, Early, Gone
<1>7. /\ x.by \cup pub.by = {} /\ cpc' = "await_reply"
      /\ toServer' = Append(toServer, ClientHello(pub.v))
  BY <1>3, <1>6, ClientSpeaks
<1>8. pub.v = TRUE
  <2>1. x.by \cap Touching = {} /\ pub.by \cap Touching = {}
    BY <1>7
  <2>2. x.v = TRUE
    BY <2>1, ExportedTrue
  <2> QED
    BY <2>1, <2>2, EncodedWanted
<1>9. \/ spc = "hello" /\ toServer' = <<ClientHello(TRUE)>>
      \/ spc \in {"queued", "select"} /\ toServer' = FirstWords
  BY <1>6, <1>7, <1>8, ShortSequences, FirstWordsAre
<1> QED
  BY <1>1, <1>4, <1>7, <1>9, FirstTalk

\* The first line a client reads is the reply it hopes for.
LEMMA ReplyTalk ==
  ASSUME IInv, ServeInv, TalkInv, failed = {}, cpc = "await_reply", ClientGets
  PROVE  /\ Reply.c_pub = HasEcdh(conf.suite) /\ Reply.q_pk = HasKem(conf.suite)
         /\ IF HasKem(conf.suite) THEN spc = "ct" /\ toClient' = <<>> /\ toServer = <<>>
            ELSE \/ spc = "finish" /\ toClient' = <<>>
                 \/ spc \in {"close", "closed"} /\ toClient' = <<ServerFinished>>
<1> USE DEF ClientGets
<1>1. Clean
  BY DEF Clean, Blameless
<1>2. \/ spc = "ct" /\ HasKem(conf.suite) /\ Replied
      \/ spc = "finish" /\ ~HasKem(conf.suite) /\ Replied
      \/ spc \in {"close", "closed"} /\ ~HasKem(conf.suite) /\ AllSaid
  <2>1. spc \in {"ct", "finish"} \cup Late
    BY DEF IInv, ReplyInv
  <2>2. spc = "ct" => HasKem(conf.suite)
    BY DEF IInv, RequestInv
  <2> QED
    BY <2>1, <2>2 DEF TalkInv, Late
<1>3. CASE spc \in {"ct", "finish"}
  <2>1. PICK p, q \in BOOLEAN : toClient = <<KeyMaterial(p, q)>> /\ KeyMaterialGood(p, q)
    BY <1>3 DEF IInv, ReplyInv
  <2>2. Head(toClient) = KeyMaterial(p, q) /\ toClient' = <<>>
    BY <2>1, ShortSequences
  <2>3. Reply.c_pub = p /\ Reply.q_pk = q
    <3>1. Reply = KeyMaterial(p, q)
      BY <2>2 DEF Reply, AsKeyMaterial, KeyMaterial
    <3> QED
      BY <3>1 DEF KeyMaterial
  <2>4. spc = "ct" => toServer = <<>>
    BY DEF IInv, RequestInv, Gone
  <2> QED
    BY <1>1, <1>2, <1>3, <2>1, <2>2, <2>3, <2>4 DEF KeyMaterialGood
<1>4. CASE spc \in {"close", "closed"} /\ AllSaid
  <2>1. toClient # <<>> /\ toClient # <<ServerFinished>>
        /\ \A p, q \in BOOLEAN : toClient # <<KeyMaterial(p, q)>>
    BY <1>4 DEF AllSaid
  <2>2. PICK p, q \in BOOLEAN : toClient = <<KeyMaterial(p, q), ServerFinished>>
                                /\ KeyMaterialGood(p, q)
    BY <1>4, <2>1 DEF IInv, ReplyInv, Late
  <2>3. Head(toClient) = KeyMaterial(p, q) /\ toClient' = <<ServerFinished>>
    BY <2>2, ShortSequences
  <2>4. Reply.c_pub = p /\ Reply.q_pk = q
    <3>1. Reply = KeyMaterial(p, q)
      BY <2>3 DEF Reply, AsKeyMaterial, KeyMaterial
    <3> QED
      BY <3>1 DEF KeyMaterial
  <2> QED
    BY <1>1, <1>2, <1>4, <2>2, <2>3, <2>4 DEF KeyMaterialGood
<1> QED
  BY <1>2, <1>3, <1>4

\* What it does next, where nothing fails.
Proceeds ==
  \/ cpc' = "join" /\ HasKem(conf.suite) /\ cecdh' = "dh" /\ cth' = "running"
  \/ cpc' = "await_fin" /\ (HasKem(conf.suite) => toServer' = <<PQCCiphertext("kem")>>)

LEMMA HybridProceeds ==
  ASSUME HybridReply(Reply), failed' = {},
         Reply.c_pub = HasEcdh(conf.suite), Reply.q_pk = HasKem(conf.suite)
  PROVE  Proceeds /\ failed = {}
<1>1. HasEcdh(conf.suite) /\ HasKem(conf.suite)
  BY DEF HybridReply, HasEcdh, HasKem
<1>2. PICK e \in Derived(Reply.c_pub),
           th \in {Fine("running"), Bad("failed", "encaps_thread")} :
             Blame(e.by \cup th.by) /\ cecdh' = e.v /\ cth' = th.v
  BY <1>1 DEF HybridReply
<1>3. failed = {} /\ e.by = {} /\ th.by = {}
  BY <1>2, NothingFails
<1>4. e.v = "dh" /\ th.v = "running"
  BY <1>1, <1>3 DEF Derived, Fine, Bad
<1> QED
  BY <1>1, <1>2, <1>3, <1>4 DEF HybridReply, Proceeds

LEMMA ClassicalProceeds ==
  ASSUME ClassicalReply(Reply), failed' = {}
  PROVE  Proceeds /\ failed = {}
<1>1. failed = {}
  BY NothingFails DEF ClassicalReply
<1>2. ~HasKem(conf.suite)
  BY DEF ClassicalReply, HasKem
<1> QED
  BY <1>1, <1>2 DEF ClassicalReply, Proceeds

LEMMA QuantumProceeds ==
  ASSUME ServeInv, QuantumReply(Reply), failed' = {}, Reply.q_pk = HasKem(conf.suite),
         HasKem(conf.suite) => spc = "ct" /\ toServer = <<>>
  PROVE  Proceeds /\ failed = {}
<1>1. HasKem(conf.suite) /\ spc = "ct" /\ toServer = <<>>
  BY DEF QuantumReply, HasKem
<1>2. ~Blame({"kem"}) /\ ~Blame({"malloc"})
  BY NothingFails
<1>3. PICK q \in {Fine("kem"), Bad("junk", "encaps")}, ct \in Encoded(TRUE, "c") :
        \E k \in ClientKey("none", q.v) :
          ClientSends(PQCCiphertext(IF ct.v THEN q.v ELSE "missing"), "await_fin",
                      q.by \cup ct.by \cup k.by)
  BY <1>1, <1>2 DEF QuantumReply
<1>4. PICK k \in ClientKey("none", q.v) :
          ClientSends(PQCCiphertext(IF ct.v THEN q.v ELSE "missing"), "await_fin",
                      q.by \cup ct.by \cup k.by)
  BY <1>3
<1>5. /\ failed = {} /\ q.by = {} /\ ct.by = {} /\ cpc' = "await_fin"
      /\ toServer' = Append(toServer, PQCCiphertext(IF ct.v THEN q.v ELSE "missing"))
  BY <1>1, <1>4, ClientSpeaks
<1>6. q.v = "kem" /\ ct.v = TRUE
  <2>1. CASE q = Fine("kem")
    BY <1>5, <2>1, EncodedWanted DEF Fine
  <2>2. q # Bad("junk", "encaps")
    BY <1>5 DEF Bad
  <2> QED
    BY <2>1, <2>2
<1>7. toServer' = <<PQCCiphertext("kem")>>
  BY <1>1, <1>5, <1>6, ShortSequences
<1> QED
  BY <1>5, <1>7 DEF Proceeds

LEMMA PythonProceeds ==
  ASSUME ServeInv, PythonReply(Reply), failed' = {},
         Reply.c_pub = HasEcdh(conf.suite), Reply.q_pk = HasKem(conf.suite),
         HasKem(conf.suite) => spc = "ct" /\ toServer = <<>>
  PROVE  Proceeds /\ failed = {}
<1>1. \A f : ~Blame({f})
  BY NothingFails
<1>2. PICK F : IF HasKem(conf.suite) THEN ClientSends(PQCCiphertext("kem"), "await_fin", F)
               ELSE Blame(F) /\ cpc' = "await_fin"
  BY <1>1 DEF PythonReply
<1>3. CASE HasKem(conf.suite)
  <2>1. failed = {} /\ cpc' = "await_fin" /\ toServer' = Append(toServer, PQCCiphertext("kem"))
    BY <1>2, <1>3, ClientSpeaks
  <2>2. toServer' = <<PQCCiphertext("kem")>>
    BY <1>3, <2>1, ShortSequences
  <2> QED
    BY <2>1, <2>2 DEF Proceeds
<1>4. CASE ~HasKem(conf.suite)
  BY <1>2, <1>4, NothingFails DEF Proceeds
<1> QED
  BY <1>3, <1>4

LEMMA ReadReplyTalk ==
  ASSUME IInv, ServeInv, InteropInv, ReadReply
  PROVE  InteropInv'
<1> SUFFICES ASSUME failed' = {}
             PROVE  FineInv' /\ TalkInv'
  BY DEF InteropInv
<1>1. cpc = "await_reply" /\ ClientGets /\ UNCHANGED <<conf, spc, kg>>
  BY DEF ReadReply
<1>2. failed \subseteq failed'
  BY HybridReplyOK, ClassicalReplyOK, QuantumReplyOK, PythonReplyOK DEF ReadReply, Reply
<1>3. FineInv /\ TalkInv
  BY <1>2 DEF InteropInv
<1>4. /\ Reply.c_pub = HasEcdh(conf.suite) /\ Reply.q_pk = HasKem(conf.suite)
      /\ IF HasKem(conf.suite) THEN spc = "ct" /\ toClient' = <<>> /\ toServer = <<>>
         ELSE \/ spc = "finish" /\ toClient' = <<>>
              \/ spc \in {"close", "closed"} /\ toClient' = <<ServerFinished>>
  BY <1>1, <1>2, <1>3, ReplyTalk
<1>5. Proceeds
  BY <1>4, HybridProceeds, ClassicalProceeds, QuantumProceeds, PythonProceeds
     DEF ReadReply, Reply
<1>6. FineInv'
  BY <1>1, <1>3, <1>5 DEF FineInv, Proceeds
<1>7. TalkInv'
  BY <1>1, <1>4, <1>5 DEF TalkInv, Proceeds, PQCCiphertext
<1> QED
  BY <1>6, <1>7

LEMMA EncapsThreadTalk ==
  ASSUME IInv, ServeInv, InteropInv, EncapsThread
  PROVE  InteropInv'
<1> SUFFICES ASSUME failed' = {}
             PROVE  FineInv' /\ TalkInv'
  BY DEF InteropInv
<1>1. PICK r \in {Fine("ok"), Bad("failed", "kem")} : Blame(r.by) /\ cth' = r.v
  BY DEF EncapsThread
<1>2. failed = {} /\ r.by = {}
  BY <1>1, NothingFails
<1>3. cth' = "ok"
  BY <1>1, <1>2 DEF Fine, Bad
<1>4. FineInv /\ TalkInv /\ UNCHANGED <<conf, cpc, cecdh, finished, handlerVars, socketVars>>
  BY <1>2 DEF InteropInv, EncapsThread
<1>5. FineInv'
  BY <1>3, <1>4 DEF FineInv
<1>6. TalkInv'
  BY <1>4, TalkKept DEF TalkInv, Replied, AllSaid, ClientHello, ProfileSelect, PQCCiphertext,
     KeyMaterial, ServerFinished
<1> QED
  BY <1>5, <1>6

LEMMA JoinEncapsTalk ==
  ASSUME IInv, ServeInv, InteropInv, JoinEncaps
  PROVE  InteropInv'
<1> SUFFICES ASSUME failed' = {}
             PROVE  FineInv' /\ TalkInv'
  BY DEF InteropInv
<1>1. failed = {}
  BY NothingFails, ClientSendsEffect DEF JoinEncaps
<1>2. /\ FineInv /\ TalkInv /\ cpc = "join" /\ cth # "running" /\ spc = "ct"
      /\ BothShares /\ UNCHANGED <<conf, spc, kg, cecdh, cth, toClient>>
  BY <1>1 DEF InteropInv, FineInv, TalkInv, JoinEncaps, BothShares
<1>3. toServer = <<>>
  BY <1>2 DEF IInv, RequestInv, Gone
<1>4. PICK ct \in Encoded(TRUE, "c") : \E F :
        ClientSends(PQCCiphertext(IF ct.v THEN "kem" ELSE "missing"), "await_fin", ct.by \cup F)
  BY <1>2 DEF JoinEncaps
<1>5. /\ ct.by = {} /\ cpc' = "await_fin"
      /\ toServer' = Append(toServer, PQCCiphertext(IF ct.v THEN "kem" ELSE "missing"))
  BY <1>2, <1>4, ClientSpeaks
<1>6. ct.v = TRUE
  BY <1>5, EncodedWanted
<1>7. toServer' = <<PQCCiphertext("kem")>>
  BY <1>3, <1>5, <1>6, ShortSequences
<1>8. FineInv'
  BY <1>2, <1>5 DEF FineInv
<1>9. TalkInv'
  BY <1>2, <1>5, <1>7 DEF TalkInv, PQCCiphertext
<1> QED
  BY <1>8, <1>9

LEMMA ClientEndsTalk ==
  ASSUME IInv, ServeInv, InteropInv, ReadFinished \/ ClientRecvFails \/ ClientEOF \/ Kill
  PROVE  InteropInv'
<1> SUFFICES ASSUME failed' = {}
             PROVE  FineInv' /\ TalkInv'
  BY DEF InteropInv
<1>1. ~ClientRecvFails
  BY NothingFails DEF ClientRecvFails
<1>2. failed = {}
  BY <1>1, NothingFails DEF ReadFinished, ClientEOF, Kill
<1>3. FineInv /\ TalkInv /\ UNCHANGED <<conf, spc, kg>>
  BY <1>1, <1>2 DEF InteropInv, ReadFinished, ClientEOF, Kill
<1>4. ~ClientEOF
  <2> SUFFICES ASSUME ClientEOF
               PROVE  FALSE
    OBVIOUS
  <2>1. cpc \in Waiting /\ toClient = <<>> /\ spc \in {"none", "closed"}
    BY DEF ClientEOF, ServeInv, SocketInv
  <2>2. ~AllSaid /\ toClient # <<ServerFinished>>
    BY <2>1 DEF AllSaid
  <2> QED
    BY <1>3, <2>1, <2>2 DEF Waiting, TalkInv
<1>5. CASE ReadFinished
  <2>1. cpc = "await_fin" /\ toClient # <<>> /\ cpc' = "ok"
    BY <1>5 DEF ReadFinished, ClientGets
  <2>2. toClient = <<ServerFinished>>
    BY <1>3, <2>1 DEF TalkInv, ServeInv, SocketInv
  <2>3. finished' = TRUE
    BY <1>5, <2>2, ShortSequences DEF ReadFinished
  <2> QED
    BY <1>3, <2>1, <2>3 DEF FineInv, TalkInv
<1>6. CASE Kill
  BY <1>3, <1>6 DEF Kill, FineInv, TalkInv
<1> QED
  BY <1>1, <1>4, <1>5, <1>6

\* A client that has gone listens to nobody.
LEMMA AloneTalk ==
  ASSUME FineInv, UNCHANGED clientVars, cpc \notin Running,
         spc' \notin {"lost", "misread"}, kg' \in {"none", "running", "ok"}
  PROVE  FineInv' /\ TalkInv'
BY DEF FineInv, TalkInv, Running, Waiting

LEMMA AcceptTalk ==
  ASSUME IInv, ServeInv, InteropInv, Accept
  PROVE  InteropInv'
<1> SUFFICES ASSUME failed' = {}
             PROVE  FineInv' /\ TalkInv'
  BY DEF InteropInv
<1>1. failed = {} /\ spc = "queued" /\ spc' = "select"
      /\ UNCHANGED <<conf, clientVars, kg, toServer, toClient>>
  BY NothingFails DEF Accept, AcceptNative, AcceptPython
<1>2. FineInv /\ TalkInv
  BY <1>1 DEF InteropInv
<1>3. FineInv'
  BY <1>1, <1>2 DEF FineInv
<1>4. TalkInv'
  BY <1>1, <1>2, TalkKept, ConfStep DEF TalkInv
<1> QED
  BY <1>3, <1>4

\* A handler that waits for the first line gets the client's first words.
LEMMA FirstHeard ==
  ASSUME IInv, TalkInv, spc = "select", HandlerGets, cpc \in Running
  PROVE  \/ cpc = "keypair" /\ toServer = <<ProfileSelect>> /\ conf.client # "binary"
         \/ cpc = "await_reply" /\ toServer = FirstWords
<1>1. cpc # "profile"
  BY DEF IInv, RequestInv, Early, HandlerGets, Gone
<1> QED
  BY <1>1 DEF TalkInv, Running, Waiting

LEMMA PeekMagicTalk ==
  ASSUME IInv, ServeInv, InteropInv, PeekMagic
  PROVE  InteropInv'
<1> SUFFICES ASSUME failed' = {}
             PROVE  FineInv' /\ TalkInv'
  BY DEF InteropInv
<1>1. /\ failed = {} /\ spc = "select" /\ spc' = "handed" /\ HandlerGets
      /\ Head(toServer) = BinaryHello /\ UNCHANGED <<conf, clientVars, kg, toClient>>
  BY NothingFails DEF PeekMagic, HandlerGets
<1>2. FineInv /\ TalkInv /\ toClient = <<>>
  BY <1>1 DEF InteropInv, IInv, ReplyInv, Late
<1>3. CASE cpc \in Running
  <2>1. cpc # "keypair"
    BY <1>1, <1>2, <1>3, FirstHeard, ShortSequences DEF BinaryHello, ProfileSelect
  <2>2. cpc = "await_reply"
    BY <1>1, <1>2, <1>3, <2>1, FirstHeard
  <2> QED
    BY <1>1, <1>2, <2>2 DEF FineInv, TalkInv
<1>4. CASE cpc \notin Running
  BY <1>1, <1>2, <1>4, AloneTalk DEF FineInv
<1> QED
  BY <1>3, <1>4

LEMMA ReadProfileSelectTalk ==
  ASSUME IInv, ServeInv, InteropInv, ReadProfileSelect
  PROVE  InteropInv'
<1> SUFFICES ASSUME failed' = {}
             PROVE  FineInv' /\ TalkInv'
  BY DEF InteropInv
<1> DEFINE m == Head(toServer)
<1>1. /\ spc = "select" /\ HandlerGets /\ m = ProfileSelect /\ m.type = "ProfileSelect"
      /\ UNCHANGED <<conf, clientVars, toClient>>
  BY SelectRead DEF ReadProfileSelect, HandlerGets
<1>2. PICK s \in ComboById(m.id) :
        \/ conf.server = "c" /\ SelectC(m, s)
        \/ conf.server = "dispatch" /\ SelectDispatch(m, s)
        \/ conf.server = "python" /\ SelectPython(m, s)
  BY DEF ReadProfileSelect
<1>3. s = conf.suite
  BY <1>1, RowFound DEF IInv, ConfInv, ProfileSelect
<1>4. failed = {}
  BY <1>2, NothingFails DEF SelectC, SelectDispatch, SelectPython
<1>5. FineInv /\ TalkInv
  BY <1>4 DEF InteropInv
<1>6. /\ kg' \in {"none", "running", "ok"}
      /\ spc' = "hello" \/ (spc' \in {"join_kg", "reply"} /\ ~HasEcdh(conf.suite))
  <2>1. CASE SelectC(m, s)
    BY <1>3, <2>1 DEF SelectC, Fine, Bad
  <2>2. CASE SelectDispatch(m, s)
    BY <1>3, <2>2, NothingFails DEF SelectDispatch
  <2>3. CASE SelectPython(m, s)
    BY <1>3, <1>5, <2>3 DEF SelectPython, FineInv
  <2> QED
    BY <1>2, <2>1, <2>2, <2>3
<1>7. HasEcdh(conf.suite) => spc' = "hello"
  BY <1>2, <1>3, <1>6, NothingFails DEF SelectC, SelectDispatch, SelectPython
<1>8. CASE cpc \in Running
  <2>1. CASE cpc = "keypair"
    <3>1. HasEcdh(conf.suite) /\ conf.client # "binary"
      BY <1>1, <1>5, <2>1 DEF TalkInv, IInv, RequestInv, Early, Gone
    <3> QED
      BY <1>1, <1>5, <1>6, <1>7, <2>1, <3>1 DEF FineInv, TalkInv
  <2>2. CASE cpc = "await_reply" /\ toServer = FirstWords
    <3>1. conf.client # "binary"
      BY <1>1, <2>2, FirstWordsAre, ShortSequences DEF BinaryHello
    <3>2. HasEcdh(conf.suite) => toServer' = <<ClientHello(TRUE)>>
      <4>1. toServer' = Tail(FirstWords)
        BY <1>1, <2>2 DEF HandlerGets
      <4>2. HasEcdh(conf.suite) => FirstWords = <<ProfileSelect, ClientHello(TRUE)>>
        BY <3>1, FirstWordsAre
      <4>3. Tail(<<ProfileSelect, ClientHello(TRUE)>>) = <<ClientHello(TRUE)>>
        BY ShortSequences
      <4> QED
        BY <4>1, <4>2, <4>3
    <3>0. cpc' = "await_reply"
      BY <1>1, <2>2
    <3>3. FineInv'
      BY <1>1, <1>5, <1>6, <2>2 DEF FineInv
    <3>4. CASE HasEcdh(conf.suite)
      BY <1>7, <3>0, <3>2, <3>3, <3>4 DEF TalkInv, ClientHello
    <3>5. CASE ~HasEcdh(conf.suite) /\ spc' \in {"join_kg", "reply"}
      BY <3>0, <3>3, <3>5 DEF TalkInv
    <3>6. CASE ~HasEcdh(conf.suite) /\ spc' = "hello"
      BY <1>2, <1>3, <3>6 DEF SelectC, SelectDispatch, SelectPython
    <3> QED
      BY <1>6, <3>4, <3>5, <3>6
  <2> QED
    BY <1>1, <1>5, <1>8, <2>1, <2>2, FirstHeard
<1>9. CASE cpc \notin Running
  BY <1>1, <1>5, <1>6, <1>9, AloneTalk
<1> QED
  BY <1>8, <1>9

LEMMA NoSuchProfileTalk ==
  ASSUME IInv, ServeInv, InteropInv, NoSuchProfile
  PROVE  InteropInv'
<1> SUFFICES ASSUME failed' = {}
             PROVE  FineInv' /\ TalkInv'
  BY DEF InteropInv
<1>1. /\ failed = {} /\ spc = "select" /\ HandlerGets /\ spc' = "close"
      /\ Head(toServer).type = "ClientHello" /\ UNCHANGED <<clientVars, kg>>
  BY DEF NoSuchProfile
<1>2. FineInv /\ TalkInv
  BY <1>1 DEF InteropInv
<1>3. cpc \notin Running
  <2>1. BinaryHello.type # "ClientHello" /\ ProfileSelect.type # "ClientHello"
    BY DEF BinaryHello, ProfileSelect
  <2>2. Head(FirstWords) \in {BinaryHello, ProfileSelect}
    <3>1. \/ FirstWords = <<BinaryHello>> \/ FirstWords = <<ProfileSelect>>
          \/ FirstWords = <<ProfileSelect, ClientHello(TRUE)>>
      BY FirstWordsAre, Zenon
    <3>2. /\ Head(<<BinaryHello>>) = BinaryHello /\ Head(<<ProfileSelect>>) = ProfileSelect
          /\ Head(<<ProfileSelect, ClientHello(TRUE)>>) = ProfileSelect
      BY ShortSequences, Zenon
    <3> QED
      BY <3>1, <3>2, Zenon
  <2>3. Head(<<ProfileSelect>>) = ProfileSelect
    BY ShortSequences
  <2>4. ~(toServer = <<ProfileSelect>> \/ toServer = FirstWords)
    BY <1>1, <2>1, <2>2, <2>3
  <2> QED
    BY <1>1, <1>2, <2>4, FirstHeard
<1> QED
  BY <1>1, <1>2, <1>3, AloneTalk DEF FineInv

LEMMA ReadClientHelloTalk ==
  ASSUME IInv, ServeInv, InteropInv, ReadClientHello
  PROVE  InteropInv'
<1> SUFFICES ASSUME failed' = {}
             PROVE  FineInv' /\ TalkInv'
  BY DEF InteropInv
<1> DEFINE m == Head(toServer)
<1>1. /\ spc = "hello" /\ HandlerGets /\ UNCHANGED <<conf, clientVars, kg, toClient>>
      /\ cpc \in {"await_reply"} \cup Gone
  BY HelloRead DEF ReadClientHello, HandlerGets
<1>2. /\ failed = {}
      /\ spc' \in {"join_kg", "reply"} \/ (spc' = "close" /\ ~m.c_pub)
  BY NothingFails DEF ReadClientHello, HelloC, HelloDispatch, HelloPython
<1>3. FineInv /\ TalkInv
  BY <1>2 DEF InteropInv
<1>4. CASE cpc = "await_reply"
  <2>1. m = ClientHello(TRUE)
    BY <1>1, <1>3, <1>4, ShortSequences DEF TalkInv
  <2>2. m.c_pub
    BY <2>1 DEF ClientHello
  <2> QED
    BY <1>1, <1>2, <1>3, <1>4, <2>2 DEF FineInv, TalkInv
<1>5. CASE cpc \in Gone
  BY <1>1, <1>2, <1>3, <1>5, AloneTalk DEF FineInv, Gone, Running, Waiting
<1> QED
  BY <1>1, <1>4, <1>5

LEMMA KeygenThreadTalk ==
  ASSUME IInv, ServeInv, InteropInv, KeygenThread
  PROVE  InteropInv'
<1> SUFFICES ASSUME failed' = {}
             PROVE  FineInv' /\ TalkInv'
  BY DEF InteropInv
<1>1. PICK r \in {Fine("ok"), Bad("failed", "kem")} : Blame(r.by) /\ kg' = r.v
  BY DEF KeygenThread
<1>2. failed = {} /\ r.by = {}
  BY <1>1, NothingFails
<1>3. kg' = "ok"
  BY <1>1, <1>2 DEF Fine, Bad
<1>4. FineInv /\ TalkInv /\ UNCHANGED <<conf, clientVars, spc, socketVars>>
  BY <1>2 DEF InteropInv, KeygenThread
<1>5. FineInv'
  BY <1>3, <1>4 DEF FineInv
<1>6. TalkInv'
  BY <1>4, TalkKept DEF TalkInv, Replied, AllSaid, ClientHello, ProfileSelect, PQCCiphertext,
     KeyMaterial, ServerFinished
<1> QED
  BY <1>5, <1>6

LEMMA JoinKeygenTalk ==
  ASSUME IInv, ServeInv, InteropInv, JoinKeygen
  PROVE  InteropInv'
<1> SUFFICES ASSUME failed' = {}
             PROVE  FineInv' /\ TalkInv'
  BY DEF InteropInv
<1>1. /\ failed = {} /\ spc = "join_kg" /\ kg # "running"
      /\ UNCHANGED <<conf, clientVars, kg, toClient>>
      /\ sel.suite = conf.suite /\ conf.server = "c"
  BY NothingFails DEF JoinKeygen, IInv, HandlerInv, ServeInv, KeygenInv
<1>2. FineInv /\ TalkInv
  BY <1>1 DEF InteropInv
<1>3. kg = "ok" \/ ~HasKem(sel.suite)
  BY <1>1, <1>2 DEF FineInv, ServeInv, KeygenInv
<1>4. spc' = "reply"
  BY <1>1, <1>2, <1>3 DEF JoinKeygen, KeygenFailed, FineInv
<1>5. cpc \in {"await_reply"} \cup Gone
  BY <1>1 DEF IInv, RequestInv
<1>6. FineInv'
  BY <1>1, <1>2, <1>4 DEF FineInv
<1>7. TalkInv'
  BY <1>1, <1>4, <1>5 DEF TalkInv, Gone
<1> QED
  BY <1>6, <1>7

LEMMA SendKeyMaterialTalk ==
  ASSUME IInv, ServeInv, InteropInv, SendKeyMaterial
  PROVE  InteropInv'
<1> SUFFICES ASSUME failed' = {}
             PROVE  FineInv' /\ TalkInv'
  BY DEF InteropInv
<1>1. /\ spc = "reply" /\ sel.suite = conf.suite /\ UNCHANGED <<conf, clientVars, kg>>
      /\ toClient = <<>> /\ ~sreset /\ cpc \in {"await_reply"} \cup Gone
  BY DEF SendKeyMaterial, IInv, HandlerInv, ReplyInv, RequestInv, Late, ServeInv, SocketInv
<1>2. PICK c \in Encoded(srv_pub, conf.server), q \in Encoded(HasKem(sel.suite), conf.server) :
        HandlerSends(KeyMaterial(c.v, q.v), AfterReply(sel.suite), c.by \cup q.by)
  BY NothingFails DEF SendKeyMaterial
<1>3. failed = {} /\ FineInv /\ TalkInv
  BY <1>2, HandlerSendsEffect DEF InteropInv
<1>4. /\ c.v \in BOOLEAN /\ q.v \in BOOLEAN
  <2>1. srv_pub \in BOOLEAN /\ HasKem(sel.suite) \in BOOLEAN
    BY DEF IInv, HandlerInv, HasKem
  <2> QED
    BY <2>1, EncodedWanted
<1>5. CASE cpc = "await_reply"
  <2>1. copen
    BY <1>5 DEF ServeInv, SocketInv, Running, Waiting
  <2>2. spc' = AfterReply(sel.suite) /\ toClient' = Append(toClient, KeyMaterial(c.v, q.v))
    BY <1>2, <2>1, HandlerSpeaks
  <2>3. toClient' = <<KeyMaterial(c.v, q.v)>>
    BY <1>1, <2>2, ShortSequences
  <2>4. Replied'
    BY <1>4, <2>3 DEF Replied, KeyMaterial
  <2>5. spc' = IF HasKem(conf.suite) THEN "ct" ELSE "finish"
    BY <1>1, <2>2 DEF AfterReply
  <2>6. TalkInv'
    BY <1>1, <1>5, <2>4, <2>5 DEF TalkInv
  <2>7. FineInv'
    BY <1>1, <1>3, <1>5, <2>5 DEF FineInv
  <2> QED
    BY <2>6, <2>7
<1>6. CASE cpc \in Gone
  <2>1. spc' \in {"ct", "finish", "close", "closed"}
    BY <1>2, HandlerSendsEffect DEF AfterReply
  <2> QED
    BY <1>1, <1>3, <1>6, <2>1, AloneTalk DEF FineInv, Gone, Running, Waiting
<1> QED
  BY <1>1, <1>5, <1>6

LEMMA ReadCiphertextTalk ==
  ASSUME IInv, ServeInv, InteropInv, ReadCiphertext
  PROVE  InteropInv'
<1> SUFFICES ASSUME failed' = {}
             PROVE  FineInv' /\ TalkInv'
  BY DEF InteropInv
<1> DEFINE ct == Head(toServer).ct
<1>1. /\ spc = "ct" /\ toServer # <<>> /\ UNCHANGED <<conf, clientVars, kg, toClient>>
      /\ toClient = <<>>
  BY DEF ReadCiphertext, HandlerGets, ServeInv, SocketInv
<1>2. failed = {} /\ (spc' = "finish" \/ (ct = "missing" /\ spc' \in {"close", "finish"}))
  BY NothingFails DEF ReadCiphertext, CiphertextNative, CiphertextPython
<1>3. FineInv /\ TalkInv
  BY <1>2 DEF InteropInv
<1>4. CASE cpc \in Running
  <2>1. cpc = "await_fin" /\ toServer = <<PQCCiphertext("kem")>>
    BY <1>1, <1>3, <1>4 DEF TalkInv, IInv, RequestInv, Gone, Running, Waiting
  <2>2. ct = "kem"
    BY <2>1, ShortSequences DEF PQCCiphertext
  <2>3. spc' = "finish"
    BY <1>2, <2>2
  <2> QED
    BY <1>1, <1>3, <2>1, <2>3 DEF FineInv, TalkInv
<1>5. CASE cpc \notin Running
  BY <1>1, <1>2, <1>3, <1>5, AloneTalk DEF FineInv
<1> QED
  BY <1>4, <1>5

LEMMA SendFinishedTalk ==
  ASSUME IInv, ServeInv, InteropInv, SendFinished
  PROVE  InteropInv'
<1> SUFFICES ASSUME failed' = {}
             PROVE  FineInv' /\ TalkInv'
  BY DEF InteropInv
<1>1. spc = "finish" /\ UNCHANGED <<conf, clientVars, kg>>
  BY DEF SendFinished
<1>2. PICK F : HandlerSends(ServerFinished, "close", F)
  BY DEF SendFinished
<1>3. failed = {} /\ FineInv /\ TalkInv
  BY <1>2, HandlerSendsEffect DEF InteropInv
<1>4. CASE cpc \in Running
  <2>1. spc' = "close" /\ toClient' = Append(toClient, ServerFinished)
    BY <1>2, <1>4, HandlerSpeaks DEF ServeInv, SocketInv
  <2>2. FineInv'
    BY <1>1, <1>3, <2>1 DEF FineInv
  <2>3. CASE cpc = "await_reply"
    <3>1. ~HasKem(conf.suite) /\ Replied
      BY <1>1, <1>3, <2>3 DEF TalkInv
    <3>2. PICK p, q \in BOOLEAN : toClient = <<KeyMaterial(p, q)>>
      BY <3>1 DEF Replied
    <3>3. toClient' = <<KeyMaterial(p, q), ServerFinished>>
      BY <2>1, <3>2, ShortSequences
    <3>4. AllSaid'
      BY <3>3 DEF AllSaid, KeyMaterial, ServerFinished
    <3> QED
      BY <1>1, <2>1, <2>2, <2>3, <3>1, <3>4 DEF TalkInv
  <2>4. CASE cpc = "await_fin"
    <3>1. toClient' = <<ServerFinished>>
      BY <1>1, <1>3, <2>1, <2>4, ShortSequences DEF TalkInv
    <3> QED
      BY <1>1, <2>1, <2>2, <2>4, <3>1 DEF TalkInv, ServerFinished
  <2>5. cpc \in Waiting
    BY <1>1, <1>3, <1>4 DEF TalkInv, Running
  <2> QED
    BY <2>3, <2>4, <2>5 DEF Waiting
<1>5. CASE cpc \notin Running
  BY <1>1, <1>2, <1>3, <1>5, AloneTalk, HandlerSendsEffect DEF FineInv
<1> QED
  BY <1>4, <1>5

LEMMA HandlerEndsTalk ==
  ASSUME IInv, ServeInv, InteropInv, HandlerRecvFails \/ HandlerEOF \/ CloseConnection
  PROVE  InteropInv'
<1> SUFFICES ASSUME failed' = {}
             PROVE  FineInv' /\ TalkInv'
  BY DEF InteropInv
<1>1. ~HandlerRecvFails
  BY NothingFails DEF HandlerRecvFails
<1>2. failed = {} /\ FineInv /\ TalkInv
  BY <1>1 DEF HandlerEOF, CloseConnection, InteropInv
<1>3. CASE HandlerEOF
  <2>1. cpc \notin Running
    BY <1>3 DEF HandlerEOF, ServeInv, SocketInv
  <2> QED
    BY <1>2, <1>3, <2>1, AloneTalk DEF HandlerEOF, FineInv
<1>4. CASE CloseConnection
  <2>1. /\ spc = "close" /\ spc' = "closed"
        /\ UNCHANGED <<conf, clientVars, kg, toServer, toClient>>
    BY <1>4 DEF CloseConnection, CloseHandler
  <2>2. FineInv'
    BY <1>2, <2>1 DEF FineInv
  <2>3. TalkInv'
    BY <1>2, <2>1 DEF TalkInv, AllSaid, KeyMaterial, ServerFinished
  <2> QED
    BY <2>2, <2>3
<1> QED
  BY <1>1, <1>3, <1>4

LEMMA InitTalk == Init => InteropInv
BY DEF Init, InteropInv, FineInv, TalkInv

LEMMA NextTalk ==
  ASSUME IInv, ServeInv, InteropInv, [Next]_vars
  PROVE  InteropInv'
<1>1. CASE ClientStep \/ Kill
  BY <1>1, ConnectTalk, SendProfileSelectTalk, SendBinaryHelloTalk, SendClientHelloTalk,
     ReadReplyTalk, JoinEncapsTalk, ClientEndsTalk DEF ClientStep
<1>2. CASE HandlerStep
  BY <1>2, AcceptTalk, PeekMagicTalk, ReadProfileSelectTalk, NoSuchProfileTalk,
     ReadClientHelloTalk, JoinKeygenTalk, SendKeyMaterialTalk, ReadCiphertextTalk,
     SendFinishedTalk, HandlerEndsTalk DEF HandlerStep
<1>3. CASE UNCHANGED vars
  BY <1>3, TalkKept DEF vars, InteropInv, FineInv, TalkInv, Replied, AllSaid, ClientHello,
     PQCCiphertext, ProfileSelect, KeyMaterial, ServerFinished
<1> QED
  BY <1>1, <1>2, <1>3, EncapsThreadTalk, KeygenThreadTalk DEF Next

\* Where nothing fails, any client gets along with any server: none gives up on the
\* other, or mistakes it for somebody else (c/client.c, core/network_client.py and the
\* client of c_dispatch; c/server.c, c_dispatch/server.c and server.py).
THEOREM Interoperability == Spec => []EveryPairInteroperates
<1>1. InteropInv => EveryPairInteroperates
  BY DEF InteropInv, FineInv, EveryPairInteroperates
<1>2. IInv /\ ServeInv /\ InteropInv /\ [Next]_vars => InteropInv'
  BY NextTalk
<1> QED
  BY <1>1, <1>2, InitTalk, Invariance, ServeInvariance, PTL DEF Spec

----------------------------------------------------------------------------
(* Types *)

Requests ==
  {ProfileSelect, BinaryHello} \cup {ClientHello(p) : p \in BOOLEAN}
    \cup {PQCCiphertext(ct) : ct \in {"kem", "junk", "missing"}}
Replies == {ServerFinished} \cup {KeyMaterial(p, q) : p \in BOOLEAN, q \in BOOLEAN}
ClientPlaces == {"new", "ok", "error", "crashed", "killed"} \cup Running
HandlerPlaces == {"none", "closed"} \cup Serving

ConfType ==
  /\ conf.suite \in Suites /\ conf.kdf \in KdfTypes
  /\ conf.client \in ClientKinds /\ conf.server \in ServerKinds
FailType == failed \subseteq Faults /\ Cardinality(failed) <= MaxFailures
ClientType ==
  /\ cpc \in ClientPlaces /\ cecdh \in Shares /\ cth \in {"none", "running", "ok", "failed"}
  /\ IsKey(ckey) /\ finished \in BOOLEAN
SelType ==
  /\ sel.suite \in Suites \cup {NoSel.suite} /\ sel.salt \in Salts
  /\ sel.kdf \in {"sha256", "blake3"}
HandlerType ==
  /\ server \in {"up", "dead"} /\ spc \in HandlerPlaces /\ SelType
  /\ kg \in {"none", "running", "ok", "failed"} /\ srv_pub \in BOOLEAN
  /\ secdh \in Shares /\ skem \in Shares /\ IsKey(skey)
SocketType ==
  /\ toServer \in Seq(Requests) /\ toClient \in Seq(Replies)
  /\ copen \in BOOLEAN /\ sopen \in BOOLEAN /\ creset \in BOOLEAN /\ sreset \in BOOLEAN

TypeInv == ConfType /\ FailType /\ ClientType /\ HandlerType /\ SocketType

LEMMA Typed ==
  ASSUME TypeInv
  PROVE  JsonTypeOK
<1>1. /\ \A i \in DOMAIN toServer : toServer[i] \in Requests
      /\ \A i \in DOMAIN toClient : toClient[i] \in Replies
  BY DEF TypeInv, SocketType
<1> QED
  BY <1>1 DEF TypeInv, ConfType, FailType, ClientType, HandlerType, SelType, SocketType,
     JsonTypeOK, Requests, Replies, ClientPlaces, HandlerPlaces

\* Failures stay within their bound.
LEMMA BlameType ==
  ASSUME FailType, NEW F, Blame(F)
  PROVE  FailType'
BY DEF FailType, Blame

LEMMA ConfTypeStep ==
  ASSUME conf' = conf
  PROVE  ConfType' = ConfType /\ Requests' = Requests
BY ConfStep DEF ConfType, Requests, ProfileSelect, BinaryHello, ClientHello, PQCCiphertext

LEMMA SuiteId ==
  ASSUME NEW s \in Suites \cup {NoSel.suite}
  PROVE  s.id \in Nat
BY JsonAssumption DEF NoSel, LEGACY_COMBOS, ALGORITHM_COMBOS, Combo

\* Whatever goes into a key, a key comes out.
LEMMA KeyType ==
  ASSUME NEW kdf \in {"sha256", "blake3"}, NEW id \in Nat, NEW salt \in Salts,
         NEW e \in Shares, NEW q \in Shares, NEW kind,
         NEW k \in Finalised(SessionKey(kdf, id, salt, e, q), kind)
  PROVE  IsKey(k.v)
<1>1. IsKey(SessionKey(kdf, id, salt, e, q))
  BY DEF IsKey, SessionKey, Salts
<1>2. IsKey(NoKey)
  BY DEF IsKey, NoKey, Salts, Shares
<1> QED
  BY <1>1, <1>2, FinalisedKey

LEMMA ClientKeyType ==
  ASSUME ConfType, NEW e \in Shares, NEW q \in Shares, NEW k \in ClientKey(e, q)
  PROVE  IsKey(k.v)
<1>1. conf.suite.id \in Nat /\ conf.kdf \in {"sha256", "blake3"}
  BY SuiteId, JsonAssumption DEF ConfType
<1>2. ProfileSelect.salt \in Salts
  BY DEF ProfileSelect, Salts
<1> QED
  BY <1>1, <1>2, KeyType DEF ClientKey

\* A client's step has the right type if it leaves the handler alone.
LEMMA ClientStepType ==
  ASSUME TypeInv, FailType', UNCHANGED <<conf, handlerVars, sopen>>, ClientType',
         toServer' \in Seq(Requests),
         toClient' = toClient \/ (toClient # <<>> /\ toClient' = Tail(toClient)),
         copen' \in BOOLEAN, creset' \in BOOLEAN, sreset' \in BOOLEAN
  PROVE  TypeInv'
<1>1. ConfType' /\ toServer' \in Seq(Requests')
  BY ConfTypeStep DEF TypeInv
<1>2. HandlerType'
  BY DEF TypeInv, HandlerType, SelType
<1>3. toClient' \in Seq(Replies')
  <2>1. toClient \in Seq(Replies)
    BY DEF TypeInv, SocketType
  <2>2. toClient' \in Seq(Replies)
    BY <2>1, HeadTailProperties
  <2>3. Replies' = Replies
    BY DEF Replies, ServerFinished, KeyMaterial
  <2> QED
    BY <2>2, <2>3
<1>4. SocketType'
  BY <1>1, <1>3 DEF TypeInv, SocketType
<1> QED
  BY <1>1, <1>2, <1>4 DEF TypeInv

LEMMA GiveUpType ==
  ASSUME SocketType, GiveUp
  PROVE  /\ cpc' = "error" /\ toServer' \in Seq(Requests)
         /\ copen' \in BOOLEAN /\ creset' \in BOOLEAN /\ sreset' \in BOOLEAN
BY DEF SocketType, GiveUp, CloseClient

LEMMA ClientSendsType ==
  ASSUME SocketType, FailType, NEW m \in Requests, NEW next \in ClientPlaces, NEW F,
         ClientSends(m, next, F)
  PROVE  /\ FailType' /\ cpc' \in ClientPlaces /\ toServer' \in Seq(Requests)
         /\ copen' \in BOOLEAN /\ creset' \in BOOLEAN /\ sreset' \in BOOLEAN
<1>1. FailType'
  BY BlameType DEF ClientSends
<1>2. cpc' \in ClientPlaces /\ toServer' \in {toServer, Append(toServer, m)}
  BY DEF ClientSends, ClientPlaces
<1>3. toServer' \in Seq(Requests)
  BY <1>2, AppendProperties DEF SocketType
<1>4. copen' \in BOOLEAN /\ creset' \in BOOLEAN /\ sreset' \in BOOLEAN
  BY DEF SocketType, ClientSends, CloseClient
<1> QED
  BY <1>1, <1>2, <1>3, <1>4

LEMMA MessagesAre ==
  /\ ProfileSelect \in Requests /\ BinaryHello \in Requests
  /\ \A p \in BOOLEAN : ClientHello(p) \in Requests
  /\ \A ct \in {"kem", "junk", "missing"} : PQCCiphertext(ct) \in Requests
  /\ ServerFinished \in Replies /\ \A p, q \in BOOLEAN : KeyMaterial(p, q) \in Replies
BY DEF Requests, Replies

LEMMA PlacesAre ==
  {"new", "ok", "error", "crashed", "killed", "profile", "keypair", "join", "await_reply",
   "await_fin"} \subseteq ClientPlaces
BY DEF ClientPlaces, Running, Waiting

LEMMA ConnectType ==
  ASSUME TypeInv, Connect
  PROVE  TypeInv'
<1>1. FailType'
  BY BlameType DEF TypeInv, Connect
<1>2. ClientType'
  BY PlacesAre DEF TypeInv, Connect, ClientType
<1>3. HandlerType'
  BY DEF TypeInv, Connect, HandlerType, SelType, HandlerPlaces, Serving
<1>4. ConfType' /\ Requests' = Requests /\ Replies' = Replies
  BY ConfTypeStep DEF TypeInv, Connect, Replies, ServerFinished, KeyMaterial
<1>5. SocketType'
  BY <1>4 DEF TypeInv, Connect, SocketType
<1> QED
  BY <1>1, <1>2, <1>3, <1>4, <1>5 DEF TypeInv

LEMMA ClientSpeaksType ==
  ASSUME TypeInv, SendProfileSelect \/ SendBinaryHello \/ SendClientHello
  PROVE  TypeInv'
<1>1. CASE /\ SendProfileSelect \/ SendBinaryHello \/ SendClientHello
           /\ \E m \in Requests, next \in ClientPlaces : \E F : ClientSends(m, next, F)
  <2>1. PICK m \in Requests, next \in ClientPlaces : \E F : ClientSends(m, next, F)
    BY <1>1
  <2>2. /\ FailType' /\ cpc' \in ClientPlaces /\ toServer' \in Seq(Requests)
        /\ copen' \in BOOLEAN /\ creset' \in BOOLEAN /\ sreset' \in BOOLEAN
    BY <2>1, ClientSendsType DEF TypeInv
  <2>3. UNCHANGED <<conf, handlerVars, sopen, toClient, cecdh, cth, ckey, finished>>
    BY DEF SendProfileSelect, SendBinaryHello, SendClientHello
  <2>4. ClientType'
    BY <2>2, <2>3 DEF TypeInv, ClientType
  <2> QED
    BY <2>2, <2>3, <2>4, ClientStepType
<1>2. CASE SendProfileSelect
  BY <1>1, <1>2, MessagesAre, PlacesAre DEF SendProfileSelect
<1>3. CASE SendBinaryHello
  BY <1>1, <1>3, MessagesAre, PlacesAre DEF SendBinaryHello
<1>4. CASE SendClientHello /\ Blame({"keypair"}) /\ GiveUp
  <2>1. FailType'
    BY <1>4, BlameType DEF TypeInv
  <2>2. /\ cpc' = "error" /\ toServer' \in Seq(Requests)
        /\ copen' \in BOOLEAN /\ creset' \in BOOLEAN /\ sreset' \in BOOLEAN
    BY <1>4, GiveUpType DEF TypeInv
  <2>3. ClientType'
    BY <1>4, <2>2, PlacesAre DEF SendClientHello, TypeInv, ClientType
  <2> QED
    BY <1>4, <2>1, <2>2, <2>3, ClientStepType DEF SendClientHello
<1>5. CASE /\ SendClientHello
           /\ \E x \in Exported(conf.client) : \E pub \in Encoded(x.v, conf.client) :
                ClientSends(ClientHello(pub.v), "await_reply", x.by \cup pub.by)
  <2>1. PICK x \in Exported(conf.client) : \E pub \in Encoded(x.v, conf.client) :
                ClientSends(ClientHello(pub.v), "await_reply", x.by \cup pub.by)
    BY <1>5
  <2>2. PICK pub \in Encoded(x.v, conf.client) :
                ClientSends(ClientHello(pub.v), "await_reply", x.by \cup pub.by)
    BY <2>1
  <2>3. x.v \in BOOLEAN
    BY ExportedTrue
  <2>4. pub.v \in BOOLEAN
    BY <2>3, EncodedWanted
  <2>5. ClientHello(pub.v) \in Requests /\ "await_reply" \in ClientPlaces
    BY <2>4, MessagesAre, PlacesAre
  <2> QED
    BY <1>1, <1>5, <2>2, <2>5
<1> QED
  BY <1>2, <1>3, <1>4, <1>5 DEF SendClientHello

\* What a client's step that reads or ends its wait leaves.
GoodEnd ==
  /\ FailType' /\ cpc' \in ClientPlaces /\ toServer' \in Seq(Requests)
  /\ copen' \in BOOLEAN /\ creset' \in BOOLEAN /\ sreset' \in BOOLEAN

LEMMA GoodEnds ==
  ASSUME TypeInv
  PROVE  /\ \A F : Blame(F) /\ GiveUp => GoodEnd
         /\ \A F : (/\ Blame(F) /\ cpc' \in ClientPlaces
                    /\ UNCHANGED <<toServer, copen, creset, sreset>>) => GoodEnd
         /\ \A m \in Requests : \A F : ClientSends(m, "await_fin", F) => GoodEnd
<1>1. ASSUME NEW F, Blame(F), GiveUp PROVE GoodEnd
  BY <1>1, BlameType, GiveUpType, PlacesAre DEF TypeInv, GoodEnd
<1>2. ASSUME NEW F, Blame(F), cpc' \in ClientPlaces,
             UNCHANGED <<toServer, copen, creset, sreset>>
      PROVE  GoodEnd
  BY <1>2, BlameType DEF TypeInv, SocketType, GoodEnd
<1>3. ASSUME NEW m \in Requests, NEW F, ClientSends(m, "await_fin", F) PROVE GoodEnd
  BY <1>3, ClientSendsType, PlacesAre DEF TypeInv, GoodEnd
<1> QED
  BY <1>1, <1>2, <1>3

LEMMA ReplyType ==
  ASSUME Head(toClient) \in Replies
  PROVE  Reply.c_pub \in BOOLEAN /\ Reply.q_pk \in BOOLEAN
<1>1. \E p, q \in BOOLEAN : Reply = KeyMaterial(p, q)
  <2>1. CASE Head(toClient) = ServerFinished
    <3>1. Reply = KeyMaterial(FALSE, FALSE)
      BY <2>1 DEF Reply, AsKeyMaterial, ServerFinished, KeyMaterial
    <3> QED
      BY <3>1
  <2>2. CASE \E p, q \in BOOLEAN : Head(toClient) = KeyMaterial(p, q)
    <3>1. PICK p, q \in BOOLEAN : Head(toClient) = KeyMaterial(p, q)
      BY <2>2
    <3>2. Reply = KeyMaterial(p, q)
      BY <3>1 DEF Reply, AsKeyMaterial, KeyMaterial
    <3> QED
      BY <3>2
  <2> QED
    BY <2>1, <2>2 DEF Replies
<1>2. PICK p, q \in BOOLEAN : Reply = KeyMaterial(p, q)
  BY <1>1
<1> QED
  BY <1>2 DEF KeyMaterial

LEMMA HybridReplyType ==
  ASSUME TypeInv, HybridReply(Reply), Reply.c_pub \in BOOLEAN
  PROVE  GoodEnd /\ cecdh' \in Shares /\ cth' \in {"none", "running", "ok", "failed"} /\ IsKey(ckey')
<1>1. CASE Blame({}) /\ GiveUp /\ UNCHANGED <<cecdh, cth>>
  BY <1>1, GoodEnds DEF HybridReply, TypeInv, ClientType
<1>2. CASE /\ \E e \in Derived(Reply.c_pub),
                 th \in {Fine("running"), Bad("failed", "encaps_thread")} :
                Blame(e.by \cup th.by) /\ cecdh' = e.v /\ cth' = th.v
           /\ cpc' = "join" /\ UNCHANGED <<toServer, copen, creset, sreset>>
  <2>1. PICK e \in Derived(Reply.c_pub),
             th \in {Fine("running"), Bad("failed", "encaps_thread")} :
                Blame(e.by \cup th.by) /\ cecdh' = e.v /\ cth' = th.v
    BY <1>2
  <2>2. e.v \in Shares
    BY DerivedShare DEF Shares
  <2>3. th.v \in {"running", "failed"}
    BY DEF Fine, Bad
  <2>4. GoodEnd
    BY <1>2, <2>1, GoodEnds, PlacesAre
  <2> QED
    BY <2>1, <2>2, <2>3, <2>4 DEF HybridReply, TypeInv, ClientType
<1> QED
  BY <1>1, <1>2 DEF HybridReply

LEMMA ClassicalReplyType ==
  ASSUME TypeInv, ClassicalReply(Reply), Reply.c_pub \in BOOLEAN
  PROVE  GoodEnd /\ cecdh' \in Shares /\ cth' = cth /\ IsKey(ckey')
<1>1. PICK e \in Derived(Reply.c_pub) : \E k \in ClientKey(e.v, "none") :
        Blame(e.by \cup k.by) /\ cecdh' = e.v /\ ckey' = k.v
  BY DEF ClassicalReply
<1>2. PICK k \in ClientKey(e.v, "none") :
        Blame(e.by \cup k.by) /\ cecdh' = e.v /\ ckey' = k.v
  BY <1>1
<1>3. e.v \in Shares /\ "none" \in Shares
  BY DerivedShare DEF Shares
<1>4. IsKey(k.v)
  BY <1>3, ClientKeyType DEF TypeInv
<1>5. GoodEnd
  BY <1>2, GoodEnds, PlacesAre DEF ClassicalReply
<1> QED
  BY <1>2, <1>3, <1>4, <1>5 DEF ClassicalReply

LEMMA QuantumReplyType ==
  ASSUME TypeInv, QuantumReply(Reply)
  PROVE  GoodEnd /\ UNCHANGED <<cecdh, cth>> /\ IsKey(ckey')
<1> USE DEF QuantumReply
<1>1. CASE (Blame({"kem"}) \/ Blame({})) /\ GiveUp /\ UNCHANGED ckey
  BY <1>1, GoodEnds DEF TypeInv, ClientType
<1>2. CASE /\ Blame({"malloc"}) /\ cpc' = "crashed" /\ CloseClient
           /\ UNCHANGED <<ckey, toServer, creset>>
  BY <1>2, BlameType, PlacesAre DEF TypeInv, ClientType, SocketType, GoodEnd, CloseClient
<1>3. CASE \E q \in {Fine("kem"), Bad("junk", "encaps")}, ct \in Encoded(TRUE, "c") :
           \E k \in ClientKey("none", q.v) :
             /\ ckey' = k.v
             /\ ClientSends(PQCCiphertext(IF ct.v THEN q.v ELSE "missing"), "await_fin",
                            q.by \cup ct.by \cup k.by)
  <2>1. PICK q \in {Fine("kem"), Bad("junk", "encaps")}, ct \in Encoded(TRUE, "c") :
           \E k \in ClientKey("none", q.v) :
             /\ ckey' = k.v
             /\ ClientSends(PQCCiphertext(IF ct.v THEN q.v ELSE "missing"), "await_fin",
                            q.by \cup ct.by \cup k.by)
    BY <1>3
  <2>2. PICK k \in ClientKey("none", q.v) :
             /\ ckey' = k.v
             /\ ClientSends(PQCCiphertext(IF ct.v THEN q.v ELSE "missing"), "await_fin",
                            q.by \cup ct.by \cup k.by)
    BY <2>1
  <2>3. q.v \in {"kem", "junk"}
    BY DEF Fine, Bad
  <2>4. IsKey(k.v)
    BY <2>3, ClientKeyType DEF TypeInv, Shares
  <2>5. PQCCiphertext(IF ct.v THEN q.v ELSE "missing") \in Requests
    BY <2>3, MessagesAre
  <2>6. GoodEnd
    BY <2>2, <2>5, GoodEnds
  <2> QED
    BY <2>2, <2>4, <2>6
<1> QED
  BY <1>1, <1>2, <1>3

LEMMA PythonReplyType ==
  ASSUME TypeInv, PythonReply(Reply)
  PROVE  GoodEnd /\ UNCHANGED <<cecdh, cth>> /\ IsKey(ckey')
<1> USE DEF PythonReply
<1>1. CASE (\E F : Blame(F)) /\ GiveUp /\ UNCHANGED ckey
  BY <1>1, GoodEnds DEF TypeInv, ClientType
<1>2. CASE \E k \in ClientKey(OwnEcdh, OwnKem) :
             /\ ckey' = k.v
             /\ IF HasKem(conf.suite)
                THEN ClientSends(PQCCiphertext("kem"), "await_fin", k.by)
                ELSE Blame(k.by) /\ cpc' = "await_fin"
                       /\ UNCHANGED <<toServer, copen, creset, sreset>>
  <2>1. PICK k \in ClientKey(OwnEcdh, OwnKem) :
             /\ ckey' = k.v
             /\ IF HasKem(conf.suite)
                THEN ClientSends(PQCCiphertext("kem"), "await_fin", k.by)
                ELSE Blame(k.by) /\ cpc' = "await_fin"
                       /\ UNCHANGED <<toServer, copen, creset, sreset>>
    BY <1>2
  <2>2. OwnEcdh \in Shares /\ OwnKem \in Shares
    BY DEF OwnEcdh, OwnKem, Shares
  <2>3. IsKey(k.v)
    BY <2>2, ClientKeyType DEF TypeInv
  <2>4. GoodEnd
    BY <2>1, GoodEnds, MessagesAre, PlacesAre
  <2> QED
    BY <2>1, <2>3, <2>4
<1> QED
  BY <1>1, <1>2 DEF OwnEcdh, OwnKem

LEMMA ReadReplyType ==
  ASSUME TypeInv, ReadReply
  PROVE  TypeInv'
<1>1. /\ toClient # <<>> /\ toClient' = Tail(toClient)
      /\ UNCHANGED <<conf, finished, handlerVars, sopen>>
  BY DEF ReadReply, ClientGets
<1>2. Reply.c_pub \in BOOLEAN
  <2>1. Head(toClient) \in Replies
    BY <1>1, HeadTailProperties DEF TypeInv, SocketType
  <2> QED
    BY <2>1, ReplyType
<1>3. GoodEnd /\ cecdh' \in Shares /\ cth' \in {"none", "running", "ok", "failed"} /\ IsKey(ckey')
  <2>1. CASE HybridReply(Reply)
    BY <1>2, <2>1, HybridReplyType
  <2>2. CASE ClassicalReply(Reply)
    BY <1>2, <2>2, ClassicalReplyType DEF TypeInv, ClientType
  <2>3. CASE QuantumReply(Reply) \/ PythonReply(Reply)
    BY <2>3, QuantumReplyType, PythonReplyType DEF TypeInv, ClientType
  <2> QED
    BY <2>1, <2>2, <2>3 DEF ReadReply, Reply
<1>4. ClientType'
  BY <1>1, <1>3 DEF TypeInv, ClientType, GoodEnd
<1> QED
  BY <1>1, <1>3, <1>4, ClientStepType DEF GoodEnd

LEMMA EncapsThreadType ==
  ASSUME TypeInv, EncapsThread
  PROVE  TypeInv'
<1>1. FailType'
  BY BlameType DEF TypeInv, EncapsThread
<1>2. ClientType'
  BY DEF TypeInv, EncapsThread, ClientType, Fine, Bad
<1>3. /\ UNCHANGED <<conf, handlerVars, sopen, toClient>> /\ toServer' \in Seq(Requests)
      /\ copen' \in BOOLEAN /\ creset' \in BOOLEAN /\ sreset' \in BOOLEAN
  BY DEF TypeInv, EncapsThread, SocketType
<1> QED
  BY <1>1, <1>2, <1>3, ClientStepType

LEMMA JoinEncapsType ==
  ASSUME TypeInv, JoinEncaps
  PROVE  TypeInv'
<1> USE DEF JoinEncaps
<1>1. GoodEnd /\ IsKey(ckey')
  <2>1. CASE Blame({}) /\ GiveUp /\ UNCHANGED ckey
    BY <2>1, GoodEnds DEF TypeInv, ClientType
  <2>2. CASE \E ct \in Encoded(TRUE, "c"),
                k \in ClientKey(cecdh, IF cth = "ok" THEN "kem" ELSE "none") :
               /\ ckey' = k.v
               /\ ClientSends(PQCCiphertext(IF ct.v THEN "kem" ELSE "missing"), "await_fin",
                              ct.by \cup k.by)
    <3>1. PICK ct \in Encoded(TRUE, "c"),
               k \in ClientKey(cecdh, IF cth = "ok" THEN "kem" ELSE "none") :
               /\ ckey' = k.v
               /\ ClientSends(PQCCiphertext(IF ct.v THEN "kem" ELSE "missing"), "await_fin",
                              ct.by \cup k.by)
      BY <2>2
    <3>2. cecdh \in Shares /\ (IF cth = "ok" THEN "kem" ELSE "none") \in Shares
      BY DEF TypeInv, ClientType, Shares
    <3>3. IsKey(k.v)
      BY <3>2, ClientKeyType DEF TypeInv
    <3>4. PQCCiphertext(IF ct.v THEN "kem" ELSE "missing") \in Requests
      BY MessagesAre
    <3> QED
      BY <3>1, <3>3, <3>4, GoodEnds
  <2> QED
    BY <2>1, <2>2
<1>2. ClientType'
  BY <1>1 DEF TypeInv, ClientType, GoodEnd
<1> QED
  BY <1>1, <1>2, ClientStepType DEF GoodEnd

LEMMA ClientEndsType ==
  ASSUME TypeInv, ReadFinished \/ ClientRecvFails \/ ClientEOF \/ Kill
  PROVE  TypeInv'
<1>1. FailType'
  BY BlameType DEF TypeInv, ReadFinished, ClientRecvFails, ClientEOF, Kill, FailType
<1>2. /\ UNCHANGED <<conf, cecdh, ckey, handlerVars, toServer, creset, sopen>> /\ CloseClient
      /\ cpc' \in {"ok", "error", "killed"} /\ cth' \in {cth, "none"}
      /\ finished' \in {finished, TRUE, FALSE}
      /\ toClient' = toClient \/ (toClient # <<>> /\ toClient' = Tail(toClient))
  BY DEF ReadFinished, ClientRecvFails, ClientEOF, Kill, ClientGets, Unread
<1>3. ClientType'
  BY <1>2, PlacesAre DEF TypeInv, ClientType
<1>4. /\ toServer' \in Seq(Requests)
      /\ copen' \in BOOLEAN /\ creset' \in BOOLEAN /\ sreset' \in BOOLEAN
  BY <1>2 DEF TypeInv, SocketType, CloseClient
<1> QED
  BY <1>1, <1>2, <1>3, <1>4, ClientStepType

\* A step of the handler.
LEMMA HandlerStepType ==
  ASSUME TypeInv, FailType', UNCHANGED <<conf, clientVars, copen>>, HandlerType',
         toServer' = toServer \/ (toServer # <<>> /\ toServer' = Tail(toServer)),
         toClient' \in Seq(Replies),
         sopen' \in BOOLEAN, creset' \in BOOLEAN, sreset' \in BOOLEAN
  PROVE  TypeInv'
<1>1. ConfType' /\ Requests' = Requests /\ Replies' = Replies
  BY ConfTypeStep DEF TypeInv, Replies, ServerFinished, KeyMaterial
<1>2. toServer' \in Seq(Requests)
  BY HeadTailProperties DEF TypeInv, SocketType
<1>3. ClientType' /\ SocketType'
  BY <1>1, <1>2 DEF TypeInv, ClientType, SocketType
<1> QED
  BY <1>1, <1>3 DEF TypeInv

\* ... that writes nothing.
LEMMA HandlerQuietType ==
  ASSUME TypeInv, FailType', UNCHANGED <<conf, clientVars, copen, toClient, sreset>>, HandlerType',
         toServer' = toServer \/ (toServer # <<>> /\ toServer' = Tail(toServer)),
         UNCHANGED <<sopen, creset>> \/ CloseHandler
  PROVE  TypeInv'
<1>1. /\ toClient' \in Seq(Replies)
      /\ sopen' \in BOOLEAN /\ creset' \in BOOLEAN /\ sreset' \in BOOLEAN
  BY DEF TypeInv, SocketType, CloseHandler
<1> QED
  BY <1>1, HandlerStepType

LEMMA HandlerPlacesAre ==
  {"none", "closed", "queued", "lost", "misread", "handed", "join_kg", "reply", "finish",
   "close", "select", "hello", "ct"} \subseteq HandlerPlaces
BY DEF HandlerPlaces, Serving, Reading

LEMMA AcceptType ==
  ASSUME TypeInv, Accept
  PROVE  TypeInv'
<1>1. /\ UNCHANGED <<conf, clientVars, sel, kg, shareVars, toServer, toClient, copen, sreset>>
      /\ UNCHANGED <<sopen, creset>> \/ CloseHandler
      /\ FailType'
      /\ server' \in {server, "dead"} /\ spc' \in {"select", "lost", "closed"}
  BY BlameType DEF TypeInv, Accept, AcceptNative, AcceptPython, ServerDies, CloseHandler
<1>2. HandlerType'
  BY <1>1, HandlerPlacesAre DEF TypeInv, HandlerType, SelType
<1> QED
  BY <1>1, <1>2, HandlerQuietType

LEMMA HandlerLeavesType ==
  ASSUME TypeInv, \/ PeekMagic \/ NoSuchProfile \/ HandlerRecvFails \/ HandlerEOF
                  \/ CloseConnection
  PROVE  TypeInv'
<1>1. FailType'
  BY BlameType DEF TypeInv, FailType, PeekMagic, NoSuchProfile, HandlerRecvFails, HandlerEOF,
     CloseConnection
<1>2. /\ UNCHANGED <<conf, clientVars, server, sel, kg, shareVars, toClient, copen, sreset>>
      /\ UNCHANGED <<sopen, creset>> \/ CloseHandler
      /\ spc' \in {"handed", "misread", "close", "closed"}
      /\ toServer' = toServer \/ (toServer # <<>> /\ toServer' = Tail(toServer))
  BY DEF PeekMagic, NoSuchProfile, HandlerRecvFails, HandlerEOF, CloseConnection, HandlerGets,
     CloseHandler
<1>3. HandlerType'
  BY <1>2, HandlerPlacesAre DEF TypeInv, HandlerType, SelType
<1> QED
  BY <1>1, <1>2, <1>3, HandlerQuietType

LEMMA ReadProfileSelectType ==
  ASSUME IInv, TypeInv, ReadProfileSelect
  PROVE  TypeInv'
<1> DEFINE m == Head(toServer)
<1>1. /\ spc = "select" /\ HandlerGets /\ m = ProfileSelect
      /\ UNCHANGED <<conf, clientVars, server, shareVars, sopen, creset>>
  BY SelectRead DEF ReadProfileSelect
<1>2. PICK s \in ComboById(m.id) :
        \/ conf.server = "c" /\ SelectC(m, s)
        \/ conf.server = "dispatch" /\ SelectDispatch(m, s)
        \/ conf.server = "python" /\ SelectPython(m, s)
  BY DEF ReadProfileSelect
<1>3. s \in Suites
  BY <1>1, <1>2, RowFound DEF TypeInv, ConfType, ProfileSelect
<1>4. m.kdf \in {"sha256", "blake3"} /\ m.salt \in Salts
  <2>1. m.kdf = conf.kdf /\ m.salt \in Salts
    BY <1>1 DEF ProfileSelect, Salts
  <2> QED
    BY <2>1, JsonAssumption DEF TypeInv, ConfType
<1>5. FailType'
  BY <1>2, BlameType DEF TypeInv, SelectC, SelectDispatch, SelectPython
<1>6. SelType' /\ spc' \in {"hello", "join_kg", "reply", "close"}
      /\ kg' \in {"none", "running", "ok", "failed"}
  <2>1. FreedSalt(m.salt) \subseteq Salts
    BY DEF FreedSalt, Salts
  <2>2. CASE SelectC(m, s)
    <3>1. SelType'
      BY <1>3, <1>4, <2>1, <2>2 DEF SelectC, SelType, NoSel
    <3>2. kg' \in {"none", "running", "ok", "failed"}
      BY <2>2 DEF SelectC, Fine, Bad
    <3> QED
      BY <2>2, <3>1, <3>2 DEF SelectC
  <2>3. CASE SelectDispatch(m, s)
    <3>1. SelType'
      BY <1>3, <1>4, <2>1, <2>3 DEF SelectDispatch, SelType, NoSel
    <3> QED
      BY <2>3, <3>1 DEF SelectDispatch, TypeInv, HandlerType
  <2>4. CASE SelectPython(m, s)
    <3>1. SelType'
      BY <1>3, <1>4, <2>4 DEF SelectPython, SelType, NoSel
    <3> QED
      BY <2>4, <3>1 DEF SelectPython, TypeInv, HandlerType
  <2> QED
    BY <1>2, <2>2, <2>3, <2>4
<1>7. HandlerType'
  BY <1>1, <1>6, HandlerPlacesAre DEF TypeInv, HandlerType
<1> QED
  BY <1>1, <1>5, <1>7, HandlerQuietType DEF HandlerGets

LEMMA ReadClientHelloType ==
  ASSUME TypeInv, ReadClientHello
  PROVE  TypeInv'
<1> DEFINE m == Head(toServer)
<1>1. HandlerGets /\ UNCHANGED <<conf, clientVars, server, sel, kg, skem, skey, sopen, creset>>
  BY DEF ReadClientHello
<1>2. FailType' /\ spc' \in {"close", "join_kg", "reply"} /\ srv_pub' \in BOOLEAN
      /\ secdh' \in Shares
  <2>1. CASE HelloC(m)
    BY <2>1, BlameType DEF HelloC, TypeInv, HandlerType, Shares
  <2>2. CASE HelloDispatch(m)
    <3>1. CASE (Blame({}) \/ Blame({"keypair"})) /\ spc' = "close" /\ UNCHANGED <<srv_pub, secdh>>
      BY <3>1, BlameType DEF TypeInv, HandlerType
    <3>2. CASE \E pub \in Exported("dispatch"), e \in Derived(TRUE) :
                 /\ m.c_pub /\ Blame(pub.by \cup e.by) /\ srv_pub' = pub.v /\ secdh' = e.v
                 /\ spc' = "reply"
      <4>1. PICK pub \in Exported("dispatch"), e \in Derived(TRUE) :
                 /\ m.c_pub /\ Blame(pub.by \cup e.by) /\ srv_pub' = pub.v /\ secdh' = e.v
                 /\ spc' = "reply"
        BY <3>2
      <4>2. pub.v \in BOOLEAN /\ e.v \in Shares
        BY ExportedTrue, DerivedShare DEF Shares
      <4> QED
        BY <4>1, <4>2, BlameType DEF TypeInv
    <3> QED
      BY <2>2, <3>1, <3>2 DEF HelloDispatch
  <2>3. CASE HelloPython(m)
    BY <2>3, BlameType DEF HelloPython, TypeInv, HandlerType, Shares
  <2> QED
    BY <2>1, <2>2, <2>3 DEF ReadClientHello
<1>3. HandlerType'
  BY <1>1, <1>2, HandlerPlacesAre DEF TypeInv, HandlerType, SelType
<1> QED
  BY <1>1, <1>2, <1>3, HandlerQuietType DEF HandlerGets

LEMMA KeygenThreadType ==
  ASSUME TypeInv, KeygenThread
  PROVE  TypeInv'
<1>1. FailType'
  BY BlameType DEF TypeInv, KeygenThread
<1>2. kg' \in {"ok", "failed"} /\ UNCHANGED <<conf, clientVars, server, spc, sel, shareVars, socketVars>>
  BY DEF KeygenThread, Fine, Bad
<1>3. HandlerType'
  BY <1>2 DEF TypeInv, HandlerType, SelType
<1> QED
  BY <1>1, <1>2, <1>3, HandlerQuietType

LEMMA JoinKeygenType ==
  ASSUME TypeInv, JoinKeygen
  PROVE  TypeInv'
<1>1. /\ UNCHANGED <<conf, clientVars, sel, kg, shareVars, toServer, toClient, copen, sreset>>
      /\ UNCHANGED <<sopen, creset>> \/ CloseHandler
      /\ FailType'
      /\ server' \in {server, "dead"} /\ spc' \in {"close", "reply", "closed"}
  BY BlameType DEF TypeInv, JoinKeygen, ServerDies, CloseHandler
<1>2. HandlerType'
  BY <1>1, HandlerPlacesAre DEF TypeInv, HandlerType, SelType
<1> QED
  BY <1>1, <1>2, HandlerQuietType

LEMMA HandlerSendsType ==
  ASSUME TypeInv, NEW m \in Replies, NEW next \in HandlerPlaces, NEW F, HandlerSends(m, next, F)
  PROVE  /\ FailType' /\ UNCHANGED <<toServer, copen>> /\ toClient' \in Seq(Replies)
         /\ sopen' \in BOOLEAN /\ creset' \in BOOLEAN /\ sreset' \in BOOLEAN
         /\ server' \in {server, "dead"} /\ spc' \in HandlerPlaces
<1>1. FailType'
  BY BlameType DEF HandlerSends, TypeInv
<1>2. toClient' \in {toClient, Append(toClient, m)}
  BY DEF HandlerSends
<1>3. toClient' \in Seq(Replies)
  BY <1>2, AppendProperties DEF TypeInv, SocketType
<1>4. sopen' \in BOOLEAN /\ creset' \in BOOLEAN /\ sreset' \in BOOLEAN
  BY DEF TypeInv, SocketType, HandlerSends, ServerDies, CloseHandler
<1>5. server' \in {server, "dead"} /\ spc' \in HandlerPlaces
  BY HandlerPlacesAre DEF HandlerSends, ServerDies, CloseHandler
<1> QED
  BY <1>1, <1>3, <1>4, <1>5 DEF HandlerSends

LEMMA SendKeyMaterialType ==
  ASSUME TypeInv, SendKeyMaterial
  PROVE  TypeInv'
<1>1. UNCHANGED <<conf, clientVars, sel, kg, shareVars>>
  BY DEF SendKeyMaterial
<1>2. CASE Blame({"kem"}) /\ spc' = "close" /\ UNCHANGED <<server, socketVars>>
  <2>1. HandlerType'
    BY <1>1, <1>2, HandlerPlacesAre DEF TypeInv, HandlerType, SelType
  <2> QED
    BY <1>1, <1>2, <2>1, BlameType, HandlerQuietType DEF TypeInv
<1>3. CASE \E c \in Encoded(srv_pub, conf.server), q \in Encoded(HasKem(sel.suite), conf.server) :
             HandlerSends(KeyMaterial(c.v, q.v), AfterReply(sel.suite), c.by \cup q.by)
  <2>1. PICK c \in Encoded(srv_pub, conf.server), q \in Encoded(HasKem(sel.suite), conf.server) :
             HandlerSends(KeyMaterial(c.v, q.v), AfterReply(sel.suite), c.by \cup q.by)
    BY <1>3
  <2>2. srv_pub \in BOOLEAN /\ HasKem(sel.suite) \in BOOLEAN
    BY DEF TypeInv, HandlerType, HasKem
  <2>3. c.v \in BOOLEAN /\ q.v \in BOOLEAN
    BY <2>2, EncodedWanted
  <2>4. KeyMaterial(c.v, q.v) \in Replies /\ AfterReply(sel.suite) \in HandlerPlaces
    BY <2>3, MessagesAre, HandlerPlacesAre DEF AfterReply
  <2>5. /\ FailType' /\ UNCHANGED <<toServer, copen>> /\ toClient' \in Seq(Replies)
        /\ sopen' \in BOOLEAN /\ creset' \in BOOLEAN /\ sreset' \in BOOLEAN
        /\ server' \in {server, "dead"} /\ spc' \in HandlerPlaces
    BY <2>1, <2>4, HandlerSendsType
  <2>6. HandlerType'
    BY <1>1, <2>5 DEF TypeInv, HandlerType, SelType
  <2> QED
    BY <1>1, <2>5, <2>6, HandlerStepType
<1> QED
  BY <1>2, <1>3 DEF SendKeyMaterial

LEMMA ReadCiphertextType ==
  ASSUME TypeInv, ReadCiphertext
  PROVE  TypeInv'
<1> DEFINE ct == Head(toServer).ct
<1>1. HandlerGets /\ UNCHANGED <<conf, clientVars, sel, kg, srv_pub, secdh, skey>>
  BY DEF ReadCiphertext
<1>2. /\ FailType'
      /\ UNCHANGED <<sopen, creset>> \/ CloseHandler
      /\ server' \in {server, "dead"} /\ spc' \in {"close", "finish", "closed"}
      /\ skem' \in Shares
  <2>1. CASE CiphertextNative(ct)
    <3>1. CASE \E d \in Decapsulated(ct) : Blame(d.by) /\ skem' = d.v
      <4>1. PICK d \in Decapsulated(ct) : Blame(d.by) /\ skem' = d.v
        BY <3>1
      <4>2. d.v \in {"kem", "rejected", "junk"}
        BY DEF Decapsulated, Fine, Bad
      <4>3. FailType' /\ skem' \in Shares
        BY <4>1, <4>2, BlameType DEF TypeInv, Shares
      <4> QED
        BY <2>1, <4>3 DEF CiphertextNative, ServerDies, CloseHandler
    <3>2. CASE (Blame({}) \/ Blame({"malloc"})) /\ skem' = skem
      <4>1. FailType' /\ skem' \in Shares
        BY <3>2, BlameType DEF TypeInv, HandlerType
      <4> QED
        BY <2>1, <4>1 DEF CiphertextNative, ServerDies, CloseHandler
    <3> QED
      BY <2>1, <3>1, <3>2 DEF CiphertextNative
  <2>2. CASE CiphertextPython(ct)
    BY <2>2, BlameType DEF CiphertextPython, TypeInv, HandlerType, Shares
  <2> QED
    BY <2>1, <2>2 DEF ReadCiphertext
<1>3. HandlerType'
  BY <1>1, <1>2, HandlerPlacesAre DEF TypeInv, HandlerType, SelType
<1> QED
  BY <1>1, <1>2, <1>3, HandlerQuietType DEF HandlerGets

LEMMA SendFinishedType ==
  ASSUME TypeInv, SendFinished
  PROVE  TypeInv'
<1>1. UNCHANGED <<conf, clientVars, sel, kg, srv_pub, secdh, skem>>
  BY DEF SendFinished
<1>2. PICK kdf \in KdfRead :
        \E k \in Finalised(SessionKey(kdf, sel.suite.id, sel.salt, secdh, skem), conf.server) :
          skey' = k.v /\ HandlerSends(ServerFinished, "close", k.by)
  BY DEF SendFinished
<1>3. PICK k \in Finalised(SessionKey(kdf, sel.suite.id, sel.salt, secdh, skem), conf.server) :
          skey' = k.v /\ HandlerSends(ServerFinished, "close", k.by)
  BY <1>2
<1>4. kdf \in {"sha256", "blake3"} /\ sel.suite.id \in Nat /\ sel.salt \in Salts
      /\ secdh \in Shares /\ skem \in Shares
  BY SuiteId DEF KdfRead, TypeInv, HandlerType, SelType
<1>5. IsKey(skey')
  BY <1>3, <1>4, KeyType
<1>6. ServerFinished \in Replies /\ "close" \in HandlerPlaces
  BY MessagesAre, HandlerPlacesAre
<1>7. /\ FailType' /\ UNCHANGED <<toServer, copen>> /\ toClient' \in Seq(Replies)
      /\ sopen' \in BOOLEAN /\ creset' \in BOOLEAN /\ sreset' \in BOOLEAN
      /\ server' \in {server, "dead"} /\ spc' \in HandlerPlaces
  BY <1>3, <1>6, HandlerSendsType
<1>8. HandlerType'
  BY <1>1, <1>5, <1>7 DEF TypeInv, HandlerType, SelType, IsKey
<1> QED
  BY <1>1, <1>7, <1>8, HandlerStepType

LEMMA InitType == Init => TypeInv
<1> SUFFICES ASSUME Init
             PROVE  TypeInv
  OBVIOUS
<1>1. ConfType
  BY DEF Init, ConfType
<1>2. FailType
  BY FS_EmptySet, JsonAssumption DEF Init, FailType
<1>3. IsKey(NoKey)
  BY DEF IsKey, NoKey, Salts, Shares
<1>4. ClientType
  BY <1>3, PlacesAre DEF Init, ClientType, Shares
<1>5. HandlerType
  BY <1>3, HandlerPlacesAre DEF Init, HandlerType, SelType, NoSel, Shares, Salts
<1>6. SocketType
  <2>1. <<>> \in Seq(Requests) /\ <<>> \in Seq(Replies)
    BY EmptySeq
  <2> QED
    BY <2>1 DEF Init, SocketType
<1> QED
  BY <1>1, <1>2, <1>4, <1>5, <1>6 DEF TypeInv

LEMMA NextType ==
  ASSUME IInv, TypeInv, [Next]_vars
  PROVE  TypeInv'
<1>1. CASE ClientStep \/ Kill
  BY <1>1, ConnectType, ClientSpeaksType, ReadReplyType, JoinEncapsType, ClientEndsType
     DEF ClientStep
<1>2. CASE HandlerStep
  BY <1>2, AcceptType, HandlerLeavesType, ReadProfileSelectType, ReadClientHelloType,
     JoinKeygenType, SendKeyMaterialType, ReadCiphertextType, SendFinishedType
     DEF HandlerStep
<1>3. CASE UNCHANGED vars
  <2>1. FailType' /\ HandlerType'
    BY <1>3 DEF vars, TypeInv, FailType, HandlerType, SelType
  <2> QED
    BY <1>3, <2>1, HandlerQuietType DEF vars
<1> QED
  BY <1>1, <1>2, <1>3, EncapsThreadType, KeygenThreadType DEF Next

LEMMA TypesHold == Spec => []TypeInv
<1>1. IInv /\ TypeInv /\ [Next]_vars => TypeInv'
  BY NextType
<1> QED
  BY <1>1, InitType, Invariance, PTL DEF Spec

\* Every variable keeps its type, at most MaxFailures things fail, and the helper
\* threads end before the frames they work on: for any number of failures.
THEOREM JsonHandshakeIsTyped == Spec => []JsonInv
<1>1. IInv /\ TypeInv => JsonInv
  BY Typed DEF IInv, JsonInv
<1> QED
  BY <1>1, TypesHold, Invariance, PTL

----------------------------------------------------------------------------
(* Refinement of KeyAgreement.  Besides the invariant it takes when the    *)
(* keys are made, and that a client which was sent every message does not  *)
(* take ServerFinished for the line with the server's keys.                *)

Told == Blameless({"send"})
Silent == {"new", "profile", "keypair"}   \* clients yet to say who they are

MadeInv ==
  /\ spc \notin Late => skey = NoKey
  /\ Clean /\ HasKem(conf.suite) =>
       /\ spc = "finish" => ckey # NoKey
       /\ spc = "ct" /\ toServer # <<>> => ckey # NoKey
  /\ spc = "finish" \/ toClient # <<>> => cpc \notin Silent
  /\ Told /\ cpc = "await_reply" =>
       /\ spc \in {"ct", "finish"} => toClient # <<>>
       /\ toClient # <<ServerFinished>>

\* No failure is forgotten.
LEMMA FailuresStay ==
  ASSUME [Next]_vars
  PROVE  failed \subseteq failed' /\ conf' = conf
<1> USE BlameEffect
<1>1. CASE Connect
  BY <1>1 DEF Connect
<1>2. CASE SendProfileSelect
  BY <1>2, ClientSendsEffect DEF SendProfileSelect
<1>3. CASE SendBinaryHello
  BY <1>3, ClientSendsEffect DEF SendBinaryHello
<1>4. CASE SendClientHello
  BY <1>4, ClientSendsEffect DEF SendClientHello, GiveUp
<1>5. CASE ReadReply
  BY <1>5, ClientSendsEffect DEF ReadReply, HybridReply, ClassicalReply, QuantumReply, PythonReply
<1>6. CASE JoinEncaps
  BY <1>6, ClientSendsEffect DEF JoinEncaps
<1>7. CASE ReadFinished
  BY <1>7 DEF ReadFinished
<1>8. CASE ClientRecvFails
  BY <1>8 DEF ClientRecvFails
<1>9. CASE ClientEOF
  BY <1>9 DEF ClientEOF
<1>10. CASE Accept
  BY <1>10 DEF Accept, AcceptNative, AcceptPython
<1>11. CASE PeekMagic
  BY <1>11 DEF PeekMagic
<1>12. CASE ReadProfileSelect
  BY <1>12 DEF ReadProfileSelect, SelectC, SelectDispatch, SelectPython
<1>13. CASE NoSuchProfile
  BY <1>13 DEF NoSuchProfile
<1>14. CASE ReadClientHello
  BY <1>14 DEF ReadClientHello, HelloC, HelloDispatch, HelloPython
<1>15. CASE JoinKeygen
  BY <1>15 DEF JoinKeygen
<1>16. CASE SendKeyMaterial
  BY <1>16, HandlerSendsEffect DEF SendKeyMaterial
<1>17. CASE ReadCiphertext
  BY <1>17 DEF ReadCiphertext, CiphertextNative, CiphertextPython
<1>18. CASE SendFinished
  BY <1>18, HandlerSendsEffect DEF SendFinished
<1>19. CASE HandlerRecvFails
  BY <1>19 DEF HandlerRecvFails
<1>20. CASE HandlerEOF
  BY <1>20 DEF HandlerEOF
<1>21. CASE CloseConnection
  BY <1>21 DEF CloseConnection
<1>22. CASE EncapsThread
  BY <1>22 DEF EncapsThread
<1>23. CASE KeygenThread
  BY <1>23 DEF KeygenThread
<1>24. CASE Kill
  BY <1>24 DEF Kill
<1>25. CASE UNCHANGED vars
  BY <1>25 DEF vars
<1> QED
  BY <1>1, <1>2, <1>3, <1>4, <1>5, <1>6, <1>7, <1>8, <1>9, <1>10, <1>11, <1>12, <1>13, <1>14, <1>15, <1>16, <1>17, <1>18, <1>19, <1>20, <1>21, <1>22, <1>23, <1>24, <1>25
  DEF Next, ClientStep, HandlerStep

LEMMA FlagsFall ==
  ASSUME failed \subseteq failed'
  PROVE  (Clean' => Clean) /\ (Told' => Told)
BY DEF Clean, Told, Blameless, Touching, KeyFaults

\* A client that is yet to say who it is has no reply.
LEMMA SpeaksMade ==
  ASSUME IInv, MadeInv, [Next]_vars, SendProfileSelect \/ SendBinaryHello \/ SendClientHello
  PROVE  MadeInv' /\ UNCHANGED <<ckey, skey, finished>>
<1>1. /\ cpc \in Silent /\ UNCHANGED <<conf, ckey, skey, finished, spc, toClient>>
  BY DEF SendProfileSelect, SendBinaryHello, SendClientHello, Silent
<1>2. spc \notin {"ct", "finish"} /\ toClient = <<>>
  BY <1>1 DEF MadeInv, IInv, RequestInv, Silent, Gone
<1> QED
  BY <1>1, <1>2 DEF MadeInv

\* The end of a client.
LEMMA EndsMade ==
  ASSUME IInv, MadeInv, failed \subseteq failed', cpc' \notin {"await_reply"} \cup Silent,
         UNCHANGED <<conf, ckey, skey, spc, toServer>>
  PROVE  MadeInv'
BY FlagsFall DEF MadeInv

\* A step of the handler before its reply, or on its way out.
LEMMA MovesMade ==
  ASSUME IInv, MadeInv, failed \subseteq failed', UNCHANGED <<cpc, ckey, skey, toClient>>,
         spc' \notin {"ct", "finish"}, spc \in Late => spc' \in Late
  PROVE  MadeInv'
BY FlagsFall DEF MadeInv

\* The line a client reads first, where every message was sent.
LEMMA ReplyGood ==
  ASSUME IInv, MadeInv, Told, Clean, cpc = "await_reply", ClientGets
  PROVE  Reply.c_pub = HasEcdh(conf.suite) /\ Reply.q_pk = HasKem(conf.suite)
<1>1. PICK p, q \in BOOLEAN :
        /\ KeyMaterialGood(p, q)
        /\ \/ toClient = <<KeyMaterial(p, q)>>
           \/ toClient = <<KeyMaterial(p, q), ServerFinished>>
  BY DEF IInv, ReplyInv, MadeInv, ClientGets
<1>2. Head(toClient) = KeyMaterial(p, q)
  BY <1>1, ShortSequences
<1>3. Reply = KeyMaterial(p, q)
  BY <1>2 DEF Reply, AsKeyMaterial, KeyMaterial
<1> QED
  BY <1>1, <1>3 DEF KeyMaterial, KeyMaterialGood

\* The connection's key is a key.
LEMMA OwnKeySet ==
  ASSUME conf.kdf \in KdfTypes
  PROVE  OwnKey # NoKey
<1>1. OwnKey.kdf = conf.kdf /\ NoKey.kdf = "failed"
  BY DEF OwnKey, SessionKey, NoKey
<1> QED
  BY <1>1, JsonAssumption

\* The key a client makes from the line it reads.
KeyDue == Clean' /\ Told' => ckey' \in {NoKey, OwnKey}

LEMMA ClassicalKeyDue ==
  ASSUME IInv, MadeInv, [Next]_vars, cpc = "await_reply", ClientGets, ClassicalReply(Reply)
  PROVE  KeyDue
<1> SUFFICES ASSUME Clean', Told' PROVE ckey' = OwnKey
  BY DEF KeyDue
<1>1. PICK e \in Derived(Reply.c_pub) : \E k \in ClientKey(e.v, "none") :
        Blame(e.by \cup k.by) /\ ckey' = k.v
  BY DEF ClassicalReply
<1>2. PICK k \in ClientKey(e.v, "none") : Blame(e.by \cup k.by) /\ ckey' = k.v
  BY <1>1
<1>3. e.by \cap Touching = {} /\ k.by \cap Touching = {}
  BY <1>2, BlameEffect
<1>4. HasEcdh(conf.suite) /\ OwnEcdh = "dh" /\ OwnKem = "none"
  BY DEF ClassicalReply, HasEcdh, HasKem, OwnEcdh, OwnKem
<1>5. Reply.c_pub = TRUE
  BY <1>4, FailuresStay, FlagsFall, ReplyGood
<1>6. e.v = "dh"
  BY <1>3, <1>5, DerivedShare
<1> QED
  BY <1>2, <1>3, <1>4, <1>6, ClientKeyOwn

LEMMA QuantumKeyDue ==
  ASSUME QuantumReply(Reply)
  PROVE  ckey' = ckey \/ KeyDue
<1> SUFFICES ASSUME Clean', ckey' # ckey PROVE ckey' = OwnKey
  BY DEF KeyDue
<1>1. PICK q \in {Fine("kem"), Bad("junk", "encaps")}, ct \in Encoded(TRUE, "c") :
        \E k \in ClientKey("none", q.v) :
          /\ ckey' = k.v
          /\ ClientSends(PQCCiphertext(IF ct.v THEN q.v ELSE "missing"), "await_fin",
                         q.by \cup ct.by \cup k.by)
  BY DEF QuantumReply
<1>2. PICK k \in ClientKey("none", q.v) :
          /\ ckey' = k.v
          /\ ClientSends(PQCCiphertext(IF ct.v THEN q.v ELSE "missing"), "await_fin",
                         q.by \cup ct.by \cup k.by)
  BY <1>1
<1>3. q.by \cap Touching = {} /\ k.by \cap Touching = {}
  BY <1>2, ClientSendsEffect
<1>4. q.v = "kem"
  BY <1>3 DEF Fine, Bad, Touching, KeyFaults
<1>5. OwnEcdh = "none" /\ OwnKem = "kem"
  BY DEF QuantumReply, HasEcdh, HasKem, OwnEcdh, OwnKem
<1> QED
  BY <1>2, <1>3, <1>4, <1>5, ClientKeyOwn

LEMMA PythonKeyDue ==
  ASSUME PythonReply(Reply)
  PROVE  ckey' = ckey \/ KeyDue
<1> SUFFICES ASSUME Clean', ckey' # ckey PROVE ckey' = OwnKey
  BY DEF KeyDue
<1>1. PICK k \in ClientKey(OwnEcdh, OwnKem) :
        /\ ckey' = k.v
        /\ IF HasKem(conf.suite)
           THEN ClientSends(PQCCiphertext("kem"), "await_fin", k.by)
           ELSE Blame(k.by)
  BY DEF PythonReply, OwnEcdh, OwnKem
<1>2. k.by \cap Touching = {}
  BY <1>1, BlameEffect, ClientSendsEffect
<1> QED
  BY <1>1, <1>2, ClientKeyOwn

LEMMA ReadReplyMade ==
  ASSUME IInv, conf.kdf \in KdfTypes, MadeInv, [Next]_vars, ReadReply
  PROVE  MadeInv' /\ ckey = NoKey /\ KeyDue /\ UNCHANGED <<skey, finished>>
<1>1. /\ cpc = "await_reply" /\ ClientGets /\ ckey = NoKey
      /\ UNCHANGED <<conf, skey, finished, spc>>
  BY DEF ReadReply, IInv, ClientInv
<1>2. Answered
  BY <1>1, HybridReplyOK, ClassicalReplyOK, QuantumReplyOK, PythonReplyOK
     DEF ReadReply, Reply
<1>3. (Clean' => Clean) /\ (Told' => Told)
  BY FailuresStay, FlagsFall
<1>4. KeyDue
  <2>1. CASE HybridReply(Reply)
    BY <1>1, <2>1 DEF HybridReply, KeyDue
  <2>2. CASE ClassicalReply(Reply)
    BY <1>1, <2>2, ClassicalKeyDue
  <2>3. CASE QuantumReply(Reply) \/ PythonReply(Reply)
    BY <1>1, <2>3, QuantumKeyDue, PythonKeyDue DEF KeyDue
  <2> QED
    BY <2>1, <2>2, <2>3 DEF ReadReply, Reply
<1>5. OwnKey # NoKey
  BY OwnKeySet
<1>6. cpc' \notin {"await_reply"} \cup Silent
  BY <1>2 DEF Answered, Gone, Silent
<1>7. Clean' /\ HasKem(conf.suite) => spc # "finish"
  BY <1>1, <1>3 DEF MadeInv
<1>8. Clean' /\ spc = "ct" /\ toServer' # <<>> => ckey' # NoKey
  <2> SUFFICES ASSUME Clean', spc = "ct", toServer' # <<>> PROVE ckey' = OwnKey
    BY <1>5
  <2>1. toServer = <<>>
    BY <1>1 DEF IInv, RequestInv, Gone
  <2> QED
    BY <2>1, <1>2 DEF Answered, Late
<1> QED
  BY <1>1, <1>3, <1>4, <1>6, <1>7, <1>8 DEF MadeInv

LEMMA JoinEncapsMade ==
  ASSUME IInv, conf.kdf \in KdfTypes, MadeInv, [Next]_vars, JoinEncaps
  PROVE  MadeInv' /\ ckey = NoKey /\ KeyDue /\ UNCHANGED <<skey, finished>>
<1>1. /\ cpc = "join" /\ conf.suite.profile = "HYBRID" /\ ckey = NoKey
      /\ UNCHANGED <<conf, skey, finished, spc, toClient>>
  BY DEF JoinEncaps, IInv, ClientInv
<1>2. (Clean' => Clean) /\ (Told' => Told)
  BY FailuresStay, FlagsFall
<1>3. /\ cpc' \in {"await_fin"} \cup Gone
      /\ (Clean' => ckey' = OwnKey) \/ (ckey' = NoKey /\ toServer' = toServer)
  <2>1. CASE GiveUp /\ UNCHANGED ckey
    BY <1>1, <2>1 DEF GiveUp, Gone
  <2>2. CASE BothShares /\ \E ct \in Encoded(TRUE, "c"),
                k \in ClientKey(cecdh, IF cth = "ok" THEN "kem" ELSE "none") :
               /\ ckey' = k.v
               /\ ClientSends(PQCCiphertext(IF ct.v THEN "kem" ELSE "missing"),
                              "await_fin", ct.by \cup k.by)
    <3>1. PICK ct \in Encoded(TRUE, "c"), k \in ClientKey(cecdh, "kem") :
               /\ ckey' = k.v
               /\ ClientSends(PQCCiphertext(IF ct.v THEN "kem" ELSE "missing"),
                              "await_fin", ct.by \cup k.by)
      BY <2>2 DEF BothShares
    <3>2. (Clean' => k.by \cap Touching = {}) /\ cpc' \in {"await_fin"} \cup Gone
      BY <3>1, ClientSendsEffect
    <3>3. cecdh \in {"dh", "blank"} /\ (cecdh = "blank" => "derive" \in failed)
      BY <1>1, <2>2 DEF BothShares, IInv, ClientInv
    <3>4. Clean => cecdh = "dh"
      BY <3>3 DEF Clean, Blameless, Touching, KeyFaults
    <3>5. OwnEcdh = "dh" /\ OwnKem = "kem"
      BY <1>1 DEF OwnEcdh, OwnKem, HasEcdh, HasKem
    <3> QED
      BY <1>2, <3>1, <3>2, <3>4, <3>5, ClientKeyOwn
  <2> QED
    BY <2>1, <2>2 DEF JoinEncaps
<1>4. KeyDue
  BY <1>3 DEF KeyDue
<1>5. spc # "none" /\ spc \in {"ct", "finish"} \cup Late /\ (spc = "ct" => toServer = <<>>)
  BY <1>1 DEF IInv, RequestInv, Gone, Late
<1>6. Clean' /\ HasKem(conf.suite) => spc # "finish"
  BY <1>1, <1>2 DEF MadeInv
<1>7. Clean' /\ spc = "ct" /\ toServer' # <<>> => ckey' # NoKey
  BY <1>3, <1>5, OwnKeySet
<1>8. cpc' \notin {"await_reply"} \cup Silent
  BY <1>3 DEF Gone, Silent
<1> QED
  BY <1>1, <1>2, <1>4, <1>6, <1>7, <1>8 DEF MadeInv

LEMMA ReadFinishedMade ==
  ASSUME IInv, MadeInv, [Next]_vars, ReadFinished
  PROVE  /\ MadeInv' /\ UNCHANGED <<ckey, skey>> /\ ~finished
         /\ Clean' /\ finished' => ckey = OwnKey /\ ServerKeyGood'
<1>1. /\ cpc = "await_fin" /\ cpc' = "ok"
      /\ UNCHANGED <<conf, ckey, skey, spc, toServer>>
  BY DEF ReadFinished
<1>2. MadeInv'
  BY <1>1, FailuresStay, EndsMade DEF Silent
<1>3. ~finished
  BY <1>1 DEF IInv, ClientInv
<1>4. IInv'
  BY NextOK
<1>5. Clean' /\ finished' => ckey = OwnKey /\ ServerKeyGood'
  BY <1>1, <1>4, ConfStep DEF IInv, ClientInv
<1> QED
  BY <1>1, <1>2, <1>3, <1>5

\* The line with the server's keys goes out to a client that waits for it, or is
\* known not to be sent.
LEMMA SendKeyMaterialMade ==
  ASSUME IInv, ServeInv, MadeInv, [Next]_vars, SendKeyMaterial
  PROVE  MadeInv'
<1>1. /\ spc = "reply" /\ sel.suite = conf.suite
      /\ UNCHANGED <<conf, cpc, ckey, skey>>
      /\ toClient = <<>> /\ toServer = <<>> /\ cpc \in {"await_reply"} \cup Gone
  BY DEF SendKeyMaterial, IInv, HandlerInv, ReplyInv, RequestInv, Late
<1>2. skey = NoKey
  BY <1>1 DEF MadeInv, Late
<1>3. cpc \notin Silent
  BY <1>1 DEF Gone, Silent
<1>4. CASE spc' = "close" /\ UNCHANGED socketVars
  BY <1>1, <1>2, <1>3, <1>4 DEF MadeInv, Late
<1>5. ASSUME NEW c, NEW q, NEW F,
             HandlerSends(KeyMaterial(c, q), AfterReply(sel.suite), F)
      PROVE  MadeInv'
  <2>1. /\ toServer' = <<>>
        /\ \/ spc' = AfterReply(conf.suite)
           \/ spc' \in {"close", "closed"} /\ toClient' = toClient
        /\ toClient' \in {<<>>, <<KeyMaterial(c, q)>>}
    BY <1>1, <1>5, HandlerSendsEffect, ShortSequences
  <2>2. <<KeyMaterial(c, q)>> # <<ServerFinished>> /\ <<>> # <<ServerFinished>>
    <3>1. KeyMaterial(c, q) # ServerFinished
      BY DEF KeyMaterial, ServerFinished
    <3> QED
      BY <3>1, ShortSequences
  <2>3. HasKem(conf.suite) => spc' # "finish"
    BY <2>1 DEF AfterReply
  <2>4. ASSUME Told', cpc = "await_reply", spc' \in {"ct", "finish"} PROVE toClient' # <<>>
    <3>1. copen /\ ~sreset
      BY <2>4 DEF ServeInv, SocketInv, Running, Waiting
    <3>2. ~Blame(F \cup {"send"})
      BY <2>4 DEF Blame, Told, Blameless
    <3>3. toClient' = Append(toClient, KeyMaterial(c, q))
      BY <1>5, <3>1, <3>2 DEF HandlerSends
    <3> QED
      BY <1>1, <3>3, ShortSequences
  <2> QED
    BY <1>1, <1>2, <1>3, <2>1, <2>2, <2>3, <2>4 DEF MadeInv
<1> QED
  BY <1>4, <1>5 DEF SendKeyMaterial

LEMMA ReadCiphertextMade ==
  ASSUME IInv, MadeInv, [Next]_vars, ReadCiphertext
  PROVE  MadeInv'
<1>1. /\ spc = "ct" /\ toServer # <<>> /\ spc' \in {"close", "closed", "finish"}
      /\ UNCHANGED <<conf, cpc, ckey, skey, toClient>>
  BY DEF ReadCiphertext, CiphertextNative, CiphertextPython, HandlerGets, ServerDies,
         CloseHandler
<1>2. skey = NoKey
  BY <1>1 DEF MadeInv, Late
<1>3. (Clean' => Clean) /\ (Told' => Told)
  BY FailuresStay, FlagsFall
<1>4. cpc \notin Silent
  BY <1>1 DEF IInv, RequestInv, Gone, Silent
<1> QED
  BY <1>1, <1>2, <1>3, <1>4 DEF MadeInv

\* A key that has all its shares is a key.
LEMMA GoodKeySet ==
  ASSUME ConfInv, Clean, ServerKeyGood
  PROVE  skey # NoKey
BY DEF ConfInv, ServerKeyGood, OwnEcdh, OwnKem, HasEcdh, HasKem, NoKey

LEMMA SendFinishedMade ==
  ASSUME IInv, MadeInv, [Next]_vars, SendFinished
  PROVE  /\ MadeInv' /\ skey = NoKey /\ UNCHANGED <<ckey, finished>>
         /\ ServerKeyGood'
         /\ Clean' /\ HasKem(conf.suite) => ckey # NoKey
<1>1. /\ spc = "finish" /\ UNCHANGED <<conf, cpc, ckey, finished>> /\ skey = NoKey
  BY DEF SendFinished, MadeInv, Late
<1>2. (Clean' => Clean) /\ (Told' => Told)
  BY FailuresStay, FlagsFall
<1>3. PICK F : HandlerSends(ServerFinished, "close", F)
  BY DEF SendFinished
<1>4. /\ spc' \in {"close", "closed"}
      /\ toClient' = toClient \/ toClient' = Append(toClient, ServerFinished)
  BY <1>3, HandlerSendsEffect
<1>5. cpc \notin Silent /\ (Clean /\ HasKem(conf.suite) => ckey # NoKey)
  BY <1>1 DEF MadeInv
<1>6. ASSUME Told', cpc = "await_reply" PROVE toClient' # <<ServerFinished>>
  <2>1. PICK p, q \in BOOLEAN : toClient = <<KeyMaterial(p, q)>>
    BY <1>1, <1>2, <1>6 DEF MadeInv, IInv, ReplyInv
  <2>2. \/ toClient' = <<KeyMaterial(p, q)>>
        \/ toClient' = <<KeyMaterial(p, q), ServerFinished>>
    BY <1>4, <2>1, ShortSequences
  <2>3. KeyMaterial(p, q) # ServerFinished
    BY DEF KeyMaterial, ServerFinished
  <2>4. Head(toClient') = KeyMaterial(p, q) /\ Head(<<ServerFinished>>) = ServerFinished
    BY <2>2, ShortSequences
  <2> QED
    BY <2>3, <2>4
<1>7. MadeInv'
  BY <1>1, <1>4, <1>5, <1>6 DEF MadeInv, Late
<1>8. ServerKeyGood'
  BY FinishedKeyGood
<1> QED
  BY <1>1, <1>2, <1>5, <1>7, <1>8

\* Steps that make no key: the client sets out, a thread ends, the client or the
\* handler ends, and the handler's steps up to its reply.
Quiet ==
  \/ Connect \/ SendProfileSelect \/ SendBinaryHello \/ SendClientHello
  \/ ClientRecvFails \/ ClientEOF \/ Kill \/ EncapsThread \/ KeygenThread
  \/ Accept \/ PeekMagic \/ ReadProfileSelect \/ NoSuchProfile \/ ReadClientHello
  \/ JoinKeygen \/ SendKeyMaterial \/ ReadCiphertext \/ HandlerRecvFails
  \/ HandlerEOF \/ CloseConnection

LEMMA QuietKeys ==
  ASSUME Quiet
  PROVE  UNCHANGED <<ckey, skey, finished>>
<1>1. CASE Connect \/ SendProfileSelect \/ SendBinaryHello \/ SendClientHello
  BY <1>1 DEF Connect, SendProfileSelect, SendBinaryHello, SendClientHello
<1>2. CASE ClientRecvFails \/ ClientEOF \/ Kill \/ EncapsThread \/ KeygenThread
  BY <1>2 DEF ClientRecvFails, ClientEOF, Kill, EncapsThread, KeygenThread
<1>3. CASE Accept \/ PeekMagic \/ ReadProfileSelect \/ NoSuchProfile \/ ReadClientHello
  BY <1>3 DEF Accept, PeekMagic, ReadProfileSelect, NoSuchProfile, ReadClientHello
<1>4. CASE JoinKeygen \/ SendKeyMaterial \/ ReadCiphertext
  BY <1>4 DEF JoinKeygen, SendKeyMaterial, ReadCiphertext
<1>5. CASE HandlerRecvFails \/ HandlerEOF \/ CloseConnection
  BY <1>5 DEF HandlerRecvFails, HandlerEOF, CloseConnection
<1> QED
  BY <1>1, <1>2, <1>3, <1>4, <1>5 DEF Quiet

LEMMA ConnectMade ==
  ASSUME IInv, MadeInv, [Next]_vars, Connect
  PROVE  MadeInv'
<1>1. /\ cpc = "new" /\ spc = "none" /\ toClient = <<>> /\ toClient' = <<>>
      /\ spc' \in {"none", "queued"} /\ cpc' \in {"profile", "error"} /\ UNCHANGED <<conf, skey>>
  BY DEF Connect, IInv, RequestInv
<1> QED
  BY <1>1 DEF MadeInv, Late

\* The threads, whatever their parents are doing.
LEMMA ThreadsMade ==
  ASSUME MadeInv, [Next]_vars, EncapsThread \/ KeygenThread
  PROVE  MadeInv'
<1>1. UNCHANGED <<conf, cpc, ckey, skey, spc, toServer, toClient>>
  BY DEF EncapsThread, KeygenThread
<1>2. (Clean' => Clean) /\ (Told' => Told)
  BY FailuresStay, FlagsFall
<1> QED
  BY <1>1, <1>2 DEF MadeInv

LEMMA ClientEndsMade ==
  ASSUME IInv, MadeInv, [Next]_vars, ClientRecvFails \/ ClientEOF \/ Kill
  PROVE  MadeInv'
<1>1. cpc' \notin {"await_reply"} \cup Silent /\ UNCHANGED <<conf, ckey, skey, spc, toServer>>
  BY DEF ClientRecvFails, ClientEOF, Kill, Unread, Silent
<1>2. toClient' # <<>> => toClient # <<>>
  BY DEF ClientRecvFails, ClientEOF, Kill
<1> QED
  BY <1>1, FailuresStay, EndsMade

LEMMA HandlerMovesMade ==
  ASSUME IInv, MadeInv, [Next]_vars,
         \/ Accept \/ PeekMagic \/ ReadProfileSelect \/ NoSuchProfile \/ ReadClientHello
         \/ JoinKeygen \/ HandlerRecvFails \/ HandlerEOF \/ CloseConnection
  PROVE  MadeInv'
<1>1. UNCHANGED <<cpc, ckey, skey, toClient>>
  <2>1. CASE Accept \/ JoinKeygen \/ HandlerRecvFails \/ HandlerEOF \/ CloseConnection
    BY <2>1 DEF Accept, JoinKeygen, HandlerRecvFails, HandlerEOF, CloseConnection
  <2>2. CASE PeekMagic \/ ReadProfileSelect \/ NoSuchProfile \/ ReadClientHello
    BY <2>2 DEF PeekMagic, ReadProfileSelect, NoSuchProfile, ReadClientHello, HandlerGets
  <2> QED
    BY <2>1, <2>2
<1>2. spc' \notin {"ct", "finish"} /\ (spc \in Late => spc' \in Late)
  <2>1. CASE Accept
    BY <2>1 DEF Accept, AcceptNative, AcceptPython, ServerDies, CloseHandler, Late
  <2>2. CASE PeekMagic \/ NoSuchProfile
    BY <2>2 DEF PeekMagic, NoSuchProfile, Late
  <2>3. CASE ReadProfileSelect
    BY <2>3 DEF ReadProfileSelect, SelectC, SelectDispatch, SelectPython, Late
  <2>4. CASE ReadClientHello
    BY <2>4 DEF ReadClientHello, HelloC, HelloDispatch, HelloPython, Late
  <2>5. CASE JoinKeygen
    BY <2>5 DEF JoinKeygen, ServerDies, CloseHandler, Late
  <2>6. CASE HandlerRecvFails \/ HandlerEOF \/ CloseConnection
    BY <2>6 DEF HandlerRecvFails, HandlerEOF, CloseConnection, CloseHandler, Late
  <2> QED
    BY <2>1, <2>2, <2>3, <2>4, <2>5, <2>6
<1> QED
  BY <1>1, <1>2, FailuresStay, MovesMade

LEMMA QuietMade ==
  ASSUME IInv, ServeInv, MadeInv, [Next]_vars, Quiet
  PROVE  MadeInv'
BY ConnectMade, SpeaksMade, ClientEndsMade, ThreadsMade, HandlerMovesMade,
   SendKeyMaterialMade, ReadCiphertextMade DEF Quiet

LEMMA MadeHolds ==
  ASSUME IInv, ServeInv, conf.kdf \in KdfTypes, MadeInv, [Next]_vars
  PROVE  MadeInv'
<1>1. CASE UNCHANGED vars
  BY <1>1 DEF vars, MadeInv, Clean, Told, Blameless
<1>2. CASE Quiet
  BY <1>2, QuietMade
<1>3. CASE ReadReply \/ JoinEncaps \/ ReadFinished \/ SendFinished
  BY <1>3, ReadReplyMade, JoinEncapsMade, ReadFinishedMade, SendFinishedMade
<1> QED
  BY <1>1, <1>2, <1>3 DEF Next, ClientStep, HandlerStep, Quiet

\* The two ways to put a complete key, and what is seen of a key.
LEMMA KeyIsDue == DueKey = OwnKey
BY DEF DueKey, OwnKey, OwnEcdh, OwnKem

LEMMA SeenGood ==
  ASSUME ConfInv, NEW k, IsKey(k), k.ecdh = OwnEcdh, k.kem = OwnKem,
         k.id = conf.suite.id, ReadsFreed \/ k = OwnKey
  PROVE  Seen(k) = OwnKey
<1>1. CASE ~ReadsFreed
  BY <1>1, KeyIsDue DEF Seen
<1>2. CASE ReadsFreed
  <2>1. k # NoKey
    BY DEF ConfInv, OwnEcdh, OwnKem, HasEcdh, HasKem, NoKey
  <2>2. Seen(k) = [k EXCEPT !.kdf = OwnKey.kdf, !.salt = OwnKey.salt]
    BY <1>2, <2>1, KeyIsDue DEF Seen
  <2>3. k.ecdh = OwnKey.ecdh /\ k.kem = OwnKey.kem /\ k.id = OwnKey.id
    BY OwnKeyComplete
  <2> QED
    BY <2>2, <2>3 DEF IsKey, OwnKey, SessionKey
<1> QED
  BY <1>1, <1>2

\* Each step makes one key, reads ServerFinished, or is not seen but for a failure.
LEMMA AgreedStep ==
  ASSUME IInv, IInv', ServeInv, TypeInv, TypeInv', MadeInv, [Next]_vars
  PROVE  [Agreed!Next]_Agreed!vars
<1>a. /\ conf' = conf /\ (Clean' => Clean) /\ (Told' => Told)
      /\ conf.kdf \in KdfTypes /\ ConfInv /\ IsKey(skey')
  BY FailuresStay, FlagsFall DEF TypeInv, ConfType, HandlerType, IInv, IsKey
<1>c. /\ Clean = Blameless(KeyFaults \cup {"malloc"}) /\ Told = Blameless({"send"})
      /\ Clean' = Blameless(KeyFaults \cup {"malloc"})' /\ Told' = Blameless({"send"})'
  BY DEF Clean, Told, Touching
<1>d. /\ UNCHANGED <<DueKey, HasKem(conf.suite), ReadsFreed>>
      /\ DueKey = OwnKey /\ OwnKey # NoKey
  BY <1>a, KeyIsDue, OwnKeySet DEF DueKey, ProfileSelect, ReadsFreed
<1>e. Seen(skey)' = Seen(skey') /\ Seen(NoKey) = NoKey
  BY <1>d DEF Seen
<1>f. ServerKeyGood' /\ Clean' => Seen(skey)' = OwnKey
  BY <1>a, <1>e, SeenGood, ConfStep DEF ServerKeyGood
<1>h. /\ Here(ckey)[1] = ckey /\ Here(ckey)'[1] = ckey'
      /\ Here(Seen(skey))[1] = Seen(skey) /\ Here(Seen(skey))'[1] = Seen(skey)'
      /\ Here(DueKey)[1] = DueKey /\ Here(HasKem(conf.suite))[1] = HasKem(conf.suite)
      /\ Here(finished)[1] = finished
  BY DEF Here
<1>k. UNCHANGED <<Here(DueKey), Here(HasKem(conf.suite))>>
  BY <1>d DEF Here
<1>1. CASE UNCHANGED <<ckey, skey, finished>>
  <2>1. UNCHANGED <<Here(ckey), Here(Seen(skey)), Here(finished)>>
    BY <1>1, <1>e, <1>d DEF Here, Seen
  <2> QED
    BY <1>a, <1>c, <1>k, <2>1 DEF Agreed!Next, Agreed!vars, Agreed!Fail
<1>2. CASE ReadReply \/ JoinEncaps
  <2>1. ckey = NoKey /\ KeyDue /\ UNCHANGED <<skey, finished>>
    BY <1>2, <1>a, ReadReplyMade, JoinEncapsMade
  <2>2. CASE ckey' = NoKey
    BY <1>1, <2>1, <2>2
  <2>3. CASE ckey' # NoKey
    <3>1. UNCHANGED <<Here(Seen(skey)), Here(finished)>>
      BY <1>d, <2>1 DEF Here, Seen
    <3>2. Here(ckey)' = [Here(ckey) EXCEPT ![1] = Here(ckey)'[1]]
      BY DEF Here
    <3>3. Agreed!ClientMakes(1)
      BY <1>c, <1>d, <1>h, <2>1, <2>3, <3>1, <3>2
      DEF Agreed!ClientMakes, Agreed!Makes, KeyDue
    <3> QED
      BY <1>a, <1>c, <1>k, <3>3 DEF Agreed!Next
  <2> QED
    BY <2>2, <2>3
<1>3. CASE ReadFinished
  <2>1. /\ UNCHANGED <<ckey, skey>> /\ ~finished
        /\ Clean' /\ finished' => ckey = OwnKey /\ ServerKeyGood'
    BY <1>3, ReadFinishedMade
  <2>2. CASE finished' = FALSE
    BY <1>1, <2>1, <2>2 DEF TypeInv, ClientType
  <2>3. CASE finished' # FALSE
    <3>1. UNCHANGED <<Here(ckey), Here(Seen(skey))>> /\ Seen(skey)' = Seen(skey)
      BY <1>d, <2>1 DEF Here, Seen
    <3>2. finished' = TRUE
      BY <2>3 DEF TypeInv, ClientType
    <3>3. Here(finished)' = [Here(finished) EXCEPT ![1] = TRUE]
      BY <3>2 DEF Here
    <3>4. Agreed!Finish(1)
      BY <1>c, <1>d, <1>f, <1>h, <2>1, <3>1, <3>2, <3>3 DEF Agreed!Finish
    <3> QED
      BY <1>a, <1>c, <1>k, <3>4 DEF Agreed!Next
  <2> QED
    BY <2>2, <2>3
<1>4. CASE SendFinished
  <2>1. /\ skey = NoKey /\ UNCHANGED <<ckey, finished>> /\ ServerKeyGood'
        /\ Clean' /\ HasKem(conf.suite) => ckey # NoKey
    BY <1>4, SendFinishedMade
  <2>2. UNCHANGED <<Here(ckey), Here(finished)>>
    BY <2>1 DEF Here
  <2>3. CASE Seen(skey)' = NoKey
    <3>1. Here(Seen(skey))' = Here(Seen(skey))
      BY <1>e, <2>1, <2>3 DEF Here
    <3> QED
      BY <1>a, <1>c, <1>k, <2>2, <3>1 DEF Agreed!Next, Agreed!vars, Agreed!Fail
  <2>4. CASE Seen(skey)' # NoKey
    <3>1. Here(Seen(skey))' = [Here(Seen(skey)) EXCEPT ![1] = Here(Seen(skey))'[1]]
      BY DEF Here
    <3>2. Agreed!ServerMakes(1)
      BY <1>c, <1>d, <1>e, <1>f, <1>h, <2>1, <2>2, <2>4, <3>1
      DEF Agreed!ServerMakes, Agreed!Makes
    <3> QED
      BY <1>a, <1>c, <1>k, <3>2 DEF Agreed!Next
  <2> QED
    BY <2>3, <2>4
<1>5. CASE Quiet \/ UNCHANGED vars
  BY <1>1, <1>5, QuietKeys DEF vars
<1> QED
  BY <1>2, <1>3, <1>4, <1>5 DEF Next, ClientStep, HandlerStep, Quiet

\* Whoever talks to whom, c/client.c, network_client.py, c/server.c, server.py and
\* the fallback of c_dispatch/server.c implement KeyAgreement: each end makes its
\* key once, a server that needs a ciphertext only after its client, and
\* ServerFinished counts only for a client when both ends have the key due.
THEOREM AgreementRefined == Spec => ImplementsKeyAgreement
<1>1. Init => MadeInv
  BY DEF Init, MadeInv, Late, Silent
<1>2. Init => Agreed!Init
  <2> SUFFICES ASSUME Init PROVE Agreed!Init
    OBVIOUS
  <2>1. OwnKey # NoKey /\ Seen(NoKey) = NoKey
    BY OwnKeySet DEF Init, Seen
  <2> QED
    BY <2>1, KeyIsDue DEF Init, Agreed!Init, Here
<1>3. IInv /\ ServeInv /\ TypeInv /\ MadeInv /\ [Next]_vars => MadeInv'
  BY MadeHolds DEF TypeInv, ConfType
<1>4. IInv /\ IInv' /\ ServeInv /\ TypeInv /\ TypeInv' /\ MadeInv /\ [Next]_vars
        => [Agreed!Next]_Agreed!vars
  BY AgreedStep
<1> QED
  BY <1>1, <1>2, <1>3, <1>4, Invariance, ServeInvariance, TypesHold, PTL
  DEF Spec, ImplementsKeyAgreement, Agreed!Spec

\* What holds of any behaviour that implements KeyAgreement.
AgreedInv ==
  /\ DueKey # NoKey
  /\ Clean =>
       /\ finished => ckey = DueKey /\ Seen(skey) = DueKey
       /\ Seen(skey) \in {NoKey, DueKey}
       /\ Seen(skey) # NoKey /\ HasKem(conf.suite) => ckey # NoKey
       /\ Told => ckey \in {NoKey, DueKey}

LEMMA AgreedHolds ==
  ASSUME AgreedInv, [Agreed!Next]_Agreed!vars
  PROVE  AgreedInv'
<1>c. /\ Clean = Blameless(KeyFaults \cup {"malloc"}) /\ Told = Blameless({"send"})
      /\ Clean' = Blameless(KeyFaults \cup {"malloc"})' /\ Told' = Blameless({"send"})'
  BY DEF Clean, Told, Touching
<1>h. /\ Here(ckey)[1] = ckey /\ Here(ckey)'[1] = ckey'
      /\ Here(Seen(skey))[1] = Seen(skey) /\ Here(Seen(skey))'[1] = Seen(skey)'
      /\ Here(DueKey)[1] = DueKey /\ Here(DueKey)'[1] = DueKey'
      /\ Here(HasKem(conf.suite))[1] = HasKem(conf.suite)
      /\ Here(HasKem(conf.suite))'[1] = HasKem(conf.suite)'
      /\ Here(finished)[1] = finished /\ Here(finished)'[1] = finished'
  BY DEF Here
<1>1. /\ UNCHANGED <<DueKey, HasKem(conf.suite)>>
      /\ (Clean' => Clean) /\ (Told' => Told)
  BY <1>c, <1>h DEF Agreed!Next, Agreed!vars
<1>2. CASE UNCHANGED <<Here(ckey), Here(Seen(skey)), Here(finished)>>
  <2>1. UNCHANGED <<ckey, Seen(skey), finished>>
    BY <1>2, <1>h
  <2> QED
    BY <1>1, <2>1 DEF AgreedInv
<1>3. CASE Agreed!ClientMakes(1)
  <2>1. /\ ckey = NoKey /\ (Clean' /\ Told' => ckey' = DueKey) /\ ckey' # NoKey
        /\ UNCHANGED <<Seen(skey), finished>>
    BY <1>3, <1>c, <1>h DEF Agreed!ClientMakes, Agreed!Makes
  <2> QED
    BY <1>1, <2>1 DEF AgreedInv
<1>4. CASE Agreed!ServerMakes(1)
  <2>1. /\ Seen(skey) = NoKey
        /\ Clean' => Seen(skey)' = DueKey /\ (HasKem(conf.suite) => ckey # NoKey)
        /\ UNCHANGED <<ckey, finished>>
    BY <1>4, <1>c, <1>h DEF Agreed!ServerMakes, Agreed!Makes
  <2> QED
    BY <1>1, <2>1 DEF AgreedInv
<1>5. CASE Agreed!Finish(1)
  <2>1. /\ Clean' => ckey = DueKey /\ Seen(skey) = DueKey
        /\ UNCHANGED <<ckey, Seen(skey)>>
    BY <1>5, <1>c, <1>h DEF Agreed!Finish
  <2> QED
    BY <1>1, <2>1 DEF AgreedInv
<1> QED
  BY <1>2, <1>3, <1>4, <1>5 DEF Agreed!Next, Agreed!vars, Agreed!Fail

\* A key that is seen as the key due has its shares, and is the key due where the
\* server looks at no freed memory.
LEMMA SeenDue ==
  ASSUME NEW k, Seen(k) = DueKey
  PROVE  /\ k.ecdh = DueKey.ecdh /\ k.kem = DueKey.kem /\ k.id = DueKey.id
         /\ ReadsFreed \/ k = DueKey
<1>1. CASE ~(k # NoKey /\ ReadsFreed)
  BY <1>1 DEF Seen
<1>2. CASE k # NoKey /\ ReadsFreed
  <2>1. [k EXCEPT !.kdf = DueKey.kdf, !.salt = DueKey.salt] = DueKey
    BY <1>2 DEF Seen
  <2>2. DOMAIN k = DOMAIN DueKey
    BY <2>1
  <2>3. DOMAIN DueKey = {"kdf", "id", "salt", "ecdh", "kem"}
    BY DEF DueKey, SessionKey
  <2>4. \A f \in {"ecdh", "kem", "id"} :
          [k EXCEPT !.kdf = DueKey.kdf, !.salt = DueKey.salt][f] = k[f]
    BY <2>2, <2>3
  <2> QED
    BY <1>2, <2>1, <2>4
<1> QED
  BY <1>1, <1>2

\* KeyAgreement is strong enough for this handshake too: whatever implements it
\* has both ends of a finished handshake agree on the complete key, but for what
\* a server took from freed memory.
THEOREM AgreementSuffices ==
  ImplementsKeyAgreement => [](Agreed!Agreement /\ KeysAgree)
<1>1. Agreed!Init => AgreedInv
  BY DEF Agreed!Init, AgreedInv, Here
<1>2. AgreedInv /\ [Agreed!Next]_Agreed!vars => AgreedInv'
  BY AgreedHolds
<1>3. AgreedInv => Agreed!Agreement
  BY DEF AgreedInv, Agreed!Agreement, Here, Clean, Told, Touching
<1>4. AgreedInv => KeysAgree
  BY SeenDue, KeyIsDue, OwnKeyComplete DEF AgreedInv, KeysAgree, Clean, Touching
<1> QED
  BY <1>1, <1>2, <1>3, <1>4, PTL DEF ImplementsKeyAgreement, Agreed!Spec

=============================================================================
