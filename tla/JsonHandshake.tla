--------------------------- MODULE JsonHandshake ---------------------------
(***************************************************************************)
(* The handshake over lines of JSON: one connection between a client       *)
(*   "c"       execute_handshake_with_telemetry in c/client.c,             *)
(*   "python"  execute_handshake in core/network_client.py, or             *)
(*   "binary"  the client of Handshake, up to its first message,           *)
(* and a server                                                            *)
(*   "c"         handle_client in c/server.c,                              *)
(*   "dispatch"  handle_client, the fallback in c_dispatch/server.c, or    *)
(*   "python"    handle_client_connection in server.py.                    *)
(* All of them listen on, or connect to, the same port.  Connections share *)
(* nothing but the server process.                                         *)
(*                                                                         *)
(* A line is a message, sockets are those of Handshake.  A field that was  *)
(* to hold a key or a ciphertext is there or not (missing or empty).  What *)
(* may fail is in Faults; failed is the set of what did fail so far, so    *)
(* that a property can say what a failure excuses.                         *)
(***************************************************************************)
EXTENDS AlgoConfig, Sequences, FiniteSets

CONSTANTS Suites, KdfTypes, ClientKinds, ServerKinds,
          Faults, MaxFailures,  \* what may fail; how many of them may
          ClientMayDie

\* Failures the code notices, failures that crash it, and failures nobody
\* looks at: a message that is not sent, and those that change a key.
CheckedFaults == {"connect", "keypair", "recv", "kem", "encaps_thread", "thread"}
CrashFaults   == {"keygen_thread", "malloc"}
KeyFaults     == {"export", "encode", "load", "derive", "encaps", "decaps", "kdf"}

\* The older table, the same in C and Python, ends before the level-5 hybrids.
LEGACY_COMBOS == {c \in ALGORITHM_COMBOS : c.id <= 8}

ASSUME JsonAssumption ==
  /\ Suites \subseteq {c \in LEGACY_COMBOS : Consistent(c)}
  /\ KdfTypes \subseteq {"sha256", "blake3"}
  /\ ClientKinds \subseteq {"c", "python", "binary"}
  /\ ServerKinds \subseteq {"c", "dispatch", "python"}
  /\ Faults \subseteq CheckedFaults \cup CrashFaults \cup KeyFaults \cup {"send", "peek"}
  /\ MaxFailures \in Nat /\ ClientMayDie \in BOOLEAN

VARIABLES
  conf,             \* who talks to whom, and what the client was asked for
  failed,           \* what has failed so far
  cpc, cecdh, cth,  \* the client, its classical share, its encapsulation thread
  ckey, finished,   \* its session key; has it read ServerFinished
  server,           \* the server process, "up" or "dead"
  spc, sel,         \* the handler, and what it made of ProfileSelect
  kg, srv_pub,      \* its KEM key pair or the thread making it; its public key
  secdh, skem, skey,
  toServer, toClient, copen, sopen, creset, sreset   \* the connection

clientVars  == <<cpc, cecdh, cth, ckey, finished>>
handlerVars == <<server, spc, sel, kg, srv_pub, secdh, skem, skey>>
shareVars   == <<srv_pub, secdh, skem, skey>>
socketVars  == <<toServer, toClient, copen, sopen, creset, sreset>>
vars == <<conf, failed, clientVars, handlerVars, socketVars>>

HasEcdh(s) == s.profile \in {"HYBRID", "PURE_CLASSICAL"}
HasKem(s)  == s.profile \in {"HYBRID", "PURE_QUANTUM"}

\* The messages, as records of what matters of their fields.
ProfileSelect ==
  [type |-> "ProfileSelect", id |-> conf.suite.id, kdf |-> conf.kdf,
   salt |-> IF conf.suite.profile = "HYBRID" /\ conf.kdf = "sha256"
            THEN "static" ELSE "none"]
ClientHello(pub) == [type |-> "ClientHello", c_pub |-> pub]
KeyMaterial(pub, q_pk) == [type |-> "KeyMaterial", c_pub |-> pub, q_pk |-> q_pk]
PQCCiphertext(ct) == [type |-> "PQCCiphertext", ct |-> ct]
ServerFinished == [type |-> "ServerFinished"]
BinaryHello == [type |-> "BinaryHello"]

Shares == {"none", "blank", "dh", "kem", "junk", "rejected"}
Salts  == {"none", "static", "other"}
NoKey  == [kdf |-> "failed", id |-> 0, salt |-> "none", ecdh |-> "none", kem |-> "none"]
IsKey(k) ==
  k \in [kdf : {"sha256", "blake3", "failed"}, id : Nat, salt : Salts,
         ecdh : Shares, kem : Shares]
NoSel  == [suite |-> Combo(0, "PURE_CLASSICAL", "NONE", "NONE"),
           kdf |-> "sha256", salt |-> "none"]

Waiting == {"await_reply", "await_fin"}
Running == {"profile", "keypair", "join"} \cup Waiting
Reading == {"select", "hello", "ct"}
Serving == {"queued", "lost", "misread", "handed", "join_kg", "reply", "finish",
            "close"} \cup Reading

JsonTypeOK ==
  /\ conf.suite \in Suites /\ conf.kdf \in KdfTypes
  /\ conf.client \in ClientKinds /\ conf.server \in ServerKinds
  /\ failed \subseteq Faults /\ Cardinality(failed) <= MaxFailures
  /\ cpc \in {"new", "ok", "error", "crashed", "killed"} \cup Running
  /\ cecdh \in Shares /\ secdh \in Shares /\ skem \in Shares
  /\ cth \in {"none", "running", "ok", "failed"}
  /\ kg \in {"none", "running", "ok", "failed"}
  /\ IsKey(ckey) /\ IsKey(skey) /\ finished \in BOOLEAN
  /\ server \in {"up", "dead"} /\ spc \in {"none", "closed"} \cup Serving
  /\ sel.suite \in Suites \cup {NoSel.suite} /\ sel.salt \in Salts
  /\ srv_pub \in BOOLEAN
  /\ \A i \in DOMAIN toServer :
       toServer[i] \in {ProfileSelect, BinaryHello} \cup {ClientHello(p) : p \in BOOLEAN}
                         \cup {PQCCiphertext(ct) : ct \in {"kem", "junk", "missing"}}
  /\ \A i \in DOMAIN toClient :
       toClient[i] \in {ServerFinished} \cup
                         {KeyMaterial(p, q) : p \in BOOLEAN, q \in BOOLEAN}
  /\ copen \in BOOLEAN /\ sopen \in BOOLEAN
  /\ creset \in BOOLEAN /\ sreset \in BOOLEAN

Init ==
  /\ conf \in {k \in [suite : Suites, kdf : KdfTypes, client : ClientKinds,
                      server : ServerKinds] :
                 k.client = "binary" => k.server = "dispatch"}
  /\ failed = {}
  /\ cpc = "new" /\ cecdh = "none" /\ cth = "none" /\ ckey = NoKey
  /\ finished = FALSE
  /\ server = "up" /\ spc = "none" /\ sel = NoSel /\ kg = "none"
  /\ srv_pub = FALSE /\ secdh = "none" /\ skem = "none" /\ skey = NoKey
  /\ toServer = <<>> /\ toClient = <<>>
  /\ copen = FALSE /\ sopen = FALSE /\ creset = FALSE /\ sreset = FALSE

----------------------------------------------------------------------------
(* Failures, and what computations yield together with what they blame *)

Blame(F) ==
  /\ F \subseteq Faults
  /\ failed' = failed \cup F
  /\ Cardinality(failed') <= MaxFailures

Fine(v) == [v |-> v, by |-> {}]
Bad(v, fault) == [v |-> v, by |-> {fault}]
Native(kind) == kind # "python"

\* A key is exported, bytes are encoded, into a field that else stays empty.
Exported(kind) == {Fine(TRUE)} \cup (IF Native(kind) THEN {Bad(FALSE, "export")} ELSE {})
Encoded(wanted, kind) ==
  {Fine(wanted)} \cup (IF wanted /\ Native(kind) THEN {Bad(FALSE, "encode")} ELSE {})

\* Load the peer's key and derive, the return code of EVP_PKEY_derive unread.
Derived(pub) ==
  IF pub THEN {Fine("dh"), Bad("none", "load"), Bad("blank", "derive")}
         ELSE {Fine("none")}

\* Both shares, the suite's info, and a salt, which BLAKE3 has no use for.
SessionKey(kdf, id, salt, ecdh, kem) ==
  [kdf |-> kdf, id |-> id, salt |-> IF kdf = "blake3" THEN "none" ELSE salt,
   ecdh |-> ecdh, kem |-> kem]

\* HKDF in C may fail and leave the key unset.
Finalised(key, kind) ==
  {Fine(key)} \cup
    (IF key.kdf = "sha256" /\ Native(kind) THEN {Bad(NoKey, "kdf")} ELSE {})

ClientKey(ecdh, kem) ==
  Finalised(SessionKey(conf.kdf, conf.suite.id, ProfileSelect.salt, ecdh, kem), conf.client)

\* The calls that raise an exception in Python.
Raising(s) == (IF HasEcdh(s) THEN {"load", "derive"} ELSE {})
                \cup (IF HasKem(s) THEN {"kem"} ELSE {})

----------------------------------------------------------------------------
(* The connection *)

\* Closing with unread data resets the other end.
CloseClient ==
  /\ copen' = FALSE
  /\ sreset' = (sreset \/ (sopen /\ toClient' # <<>>))

CloseHandler ==
  /\ spc' = "closed" /\ sopen' = FALSE
  /\ creset' = (creset \/ (copen /\ toServer' # <<>>))

ServerDies == server' = "dead" /\ CloseHandler

\* send_json_line() and send_json().  A first write after the peer closed is
\* lost and resets the connection.  The C code reads no return code, neither
\* when there was no memory for the line, nor of a write after a reset, which
\* may also raise SIGPIPE; Python raises an exception.
ClientSends(m, next, F) ==
  \/ /\ ~creset /\ Blame(F)
     /\ toServer' = IF sopen THEN Append(toServer, m) ELSE toServer
     /\ creset' = ~sopen
     /\ cpc' = next /\ UNCHANGED <<copen, sreset>>
  \/ /\ conf.client = "c" /\ Blame(F \cup {"send"})
     /\ cpc' = next /\ UNCHANGED <<toServer, copen, creset, sreset>>
  \/ /\ creset /\ Blame(F)
     /\ \/ conf.client = "c" /\ cpc' = next /\ UNCHANGED <<copen, sreset>>
        \/ conf.client = "c" /\ cpc' = "crashed" /\ CloseClient
        \/ conf.client = "python" /\ cpc' = "error" /\ CloseClient
     /\ UNCHANGED <<toServer, creset>>

HandlerSends(m, next, F) ==
  /\ UNCHANGED <<toServer, copen>>
  /\ \/ /\ ~sreset /\ Blame(F)
        /\ toClient' = IF copen THEN Append(toClient, m) ELSE toClient
        /\ sreset' = ~copen
        /\ spc' = next /\ UNCHANGED <<server, sopen, creset>>
     \/ /\ Native(conf.server) /\ Blame(F \cup {"send"})
        /\ spc' = next /\ UNCHANGED <<server, toClient, sopen, creset, sreset>>
     \/ /\ sreset /\ Blame(F)
        /\ \/ Native(conf.server) /\ spc' = next /\ UNCHANGED <<server, sopen, creset>>
           \/ Native(conf.server) /\ ServerDies
           \/ conf.server = "python" /\ spc' = "close" /\ UNCHANGED <<server, sopen, creset>>
        /\ UNCHANGED <<toClient, sreset>>

\* The next line.  Nobody looks at its type; a field it does not have is missing.
HandlerGets ==
  /\ toServer # <<>> /\ toServer' = Tail(toServer)
  /\ UNCHANGED <<toClient, copen, sreset>>

ClientGets == toClient # <<>> /\ toClient' = Tail(toClient) /\ UNCHANGED sopen
AsKeyMaterial(m) == IF m.type = "KeyMaterial" THEN m ELSE KeyMaterial(FALSE, FALSE)

\* The client gives up and closes.
GiveUp == cpc' = "error" /\ CloseClient /\ UNCHANGED <<toServer, creset>>

----------------------------------------------------------------------------
(* Defects, used by no specification *)

\* The server waits for a ciphertext whatever the profile.
AfterReply_AlwaysCt(s) == "ct"

\* The name of the KDF is not copied before its JSON object is deleted.
KdfRead_NotCopied == {"sha256", "blake3"}

\* The client reads q_pk whatever the profile.
PythonReply_AlwaysKem(m) ==
  /\ ~m.q_pk /\ Blame({}) /\ GiveUp
  /\ UNCHANGED <<ckey, cecdh, cth>>

\* One share is enough.
BothShares_Either == cth = "ok" \/ cecdh # "none"

\* A way out forgets to join the key generation thread.
CloseConnection_NoJoin ==
  /\ spc = "close" /\ UNCHANGED toServer
  /\ CloseHandler
  /\ UNCHANGED <<conf, failed, clientVars, server, sel, kg, shareVars, toClient,
                 copen, sreset>>

\* Nobody looks at whether the key generation thread succeeded.
KeygenFailed_Unread == FALSE
----------------------------------------------------------------------------
(* The client *)

Connect ==
  /\ cpc = "new"
  /\ \/ /\ Blame({}) /\ cpc' = "profile" /\ spc' = "queued"
        /\ copen' = TRUE /\ sopen' = TRUE
     \/ Blame({"connect"}) /\ cpc' = "error" /\ UNCHANGED <<spc, copen, sopen>>
  /\ UNCHANGED <<conf, cecdh, cth, ckey, finished, server, sel, kg, shareVars,
                 toServer, toClient, creset, sreset>>

SendProfileSelect ==
  /\ cpc = "profile" /\ conf.client # "binary" /\ UNCHANGED <<toClient, sopen>>
  /\ ClientSends(ProfileSelect, IF HasEcdh(conf.suite) THEN "keypair" ELSE "await_reply", {})
  /\ UNCHANGED <<conf, cecdh, cth, ckey, finished, handlerVars>>

SendBinaryHello ==
  /\ cpc = "profile" /\ conf.client = "binary" /\ UNCHANGED <<toClient, sopen>>
  /\ ClientSends(BinaryHello, "await_reply", {})
  /\ UNCHANGED <<conf, cecdh, cth, ckey, finished, handlerVars>>

SendClientHello ==
  /\ cpc = "keypair" /\ UNCHANGED <<toClient, sopen>>
  /\ \/ \E x \in Exported(conf.client) : \E pub \in Encoded(x.v, conf.client) :
          ClientSends(ClientHello(pub.v), "await_reply", x.by \cup pub.by)
     \/ Blame({"keypair"}) /\ GiveUp
  /\ UNCHANGED <<conf, cecdh, cth, ckey, finished, handlerVars>>

\* c/client.c, hybrid: start the encapsulation thread, whose arguments are on
\* this stack, and derive the classical share meanwhile.
HybridReply(m) ==
  /\ conf.suite.profile = "HYBRID"
  /\ \/ ~m.q_pk /\ Blame({}) /\ GiveUp /\ UNCHANGED <<cecdh, cth>>
     \/ /\ m.q_pk
        /\ \E e \in Derived(m.c_pub),
              th \in {Fine("running"), Bad("failed", "encaps_thread")} :
             Blame(e.by \cup th.by) /\ cecdh' = e.v /\ cth' = th.v
        /\ cpc' = "join" /\ UNCHANGED <<toServer, copen, creset, sreset>>
  /\ UNCHANGED ckey

\* Pure classical: go on whatever the share is.
ClassicalReply(m) ==
  /\ conf.suite.profile = "PURE_CLASSICAL"
  /\ \E e \in Derived(m.c_pub) : \E k \in ClientKey(e.v, "none") :
       Blame(e.by \cup k.by) /\ cecdh' = e.v /\ ckey' = k.v
  /\ cpc' = "await_fin" /\ UNCHANGED <<cth, toServer, copen, creset, sreset>>

\* Pure quantum: no allocation is checked, nor is OQS_KEM_encaps().
QuantumReply(m) ==
  /\ conf.suite.profile = "PURE_QUANTUM"
  /\ \/ /\ Blame({"kem"}) \/ (~m.q_pk /\ Blame({}))
        /\ GiveUp /\ UNCHANGED ckey
     \/ /\ m.q_pk /\ Blame({"malloc"})
        /\ cpc' = "crashed" /\ CloseClient /\ UNCHANGED <<ckey, toServer, creset>>
     \/ /\ m.q_pk
        /\ \E kem \in {Fine("kem"), Bad("junk", "encaps")}, ct \in Encoded(TRUE, "c") :
           \E k \in ClientKey("none", kem.v) :
             /\ ckey' = k.v
             /\ ClientSends(PQCCiphertext(IF ct.v THEN kem.v ELSE "missing"), "await_fin",
                            kem.by \cup ct.by \cup k.by)
  /\ UNCHANGED <<cecdh, cth>>

\* network_client.py: a field that is not there and a call that fails raise.
PythonReply(m) ==
  /\ \/ /\ \/ (HasEcdh(conf.suite) /\ ~m.c_pub) /\ Blame({})
           \/ (HasKem(conf.suite) /\ ~m.q_pk) /\ Blame({})
           \/ \E f \in Raising(conf.suite) : Blame({f})
        /\ GiveUp /\ UNCHANGED ckey
     \/ /\ HasEcdh(conf.suite) => m.c_pub
        /\ HasKem(conf.suite) => m.q_pk
        /\ \E k \in ClientKey(IF HasEcdh(conf.suite) THEN "dh" ELSE "none",
                              IF HasKem(conf.suite) THEN "kem" ELSE "none") :
             /\ ckey' = k.v
             /\ IF HasKem(conf.suite)
                THEN ClientSends(PQCCiphertext("kem"), "await_fin", k.by)
                ELSE Blame(k.by) /\ cpc' = "await_fin"
                       /\ UNCHANGED <<toServer, copen, creset, sreset>>
  /\ UNCHANGED <<cecdh, cth>>

ReadReply ==
  /\ cpc = "await_reply" /\ ClientGets
  /\ LET m == AsKeyMaterial(Head(toClient)) IN
     \/ conf.client = "c" /\ (HybridReply(m) \/ ClassicalReply(m) \/ QuantumReply(m))
     \/ conf.client = "python" /\ PythonReply(m)
  /\ UNCHANGED <<conf, finished, handlerVars>>

EncapsThread ==
  /\ cth = "running"
  /\ \E r \in {Fine("ok"), Bad("failed", "kem")} : Blame(r.by) /\ cth' = r.v
  /\ UNCHANGED <<conf, cpc, cecdh, ckey, finished, handlerVars, socketVars>>

\* pthread_join(), if there is a thread; then both shares, or nothing.
BothShares == cth = "ok" /\ cecdh # "none"

JoinEncaps ==
  /\ cpc = "join" /\ cth # "running" /\ UNCHANGED <<toClient, sopen>>
  /\ \/ ~BothShares /\ Blame({}) /\ GiveUp /\ UNCHANGED ckey
     \/ /\ BothShares
        /\ \E ct \in Encoded(TRUE, "c"),
              k \in ClientKey(cecdh, IF cth = "ok" THEN "kem" ELSE "none") :
             /\ ckey' = k.v
             /\ ClientSends(PQCCiphertext(IF ct.v THEN "kem" ELSE "missing"), "await_fin",
                            ct.by \cup k.by)
  /\ UNCHANGED <<conf, cecdh, cth, finished, handlerVars>>

ReadFinished ==
  /\ cpc = "await_fin" /\ ClientGets /\ Blame({})
  /\ finished' = (Head(toClient) = ServerFinished) /\ cpc' = "ok" /\ CloseClient
  /\ UNCHANGED <<conf, cecdh, cth, ckey, handlerVars, toServer, creset>>

\* What a reply that cannot be read means: an error, or nothing any more to the
\* C client that waits for ServerFinished.
Unread == IF cpc = "await_fin" /\ conf.client = "c" THEN "ok" ELSE "error"

\* recv_json_line(): no memory for the line, or none to parse it.
ClientRecvFails ==
  /\ conf.client = "c" /\ cpc \in Waiting /\ toClient # <<>> /\ Blame({"recv"})
  /\ toClient' \in {toClient, Tail(toClient)}
  /\ cpc' = Unread /\ CloseClient
  /\ UNCHANGED <<conf, cecdh, cth, ckey, finished, handlerVars, toServer, sopen, creset>>

ClientEOF ==
  /\ cpc \in Waiting /\ toClient = <<>> /\ ~sopen
  /\ cpc' = Unread /\ UNCHANGED toClient /\ CloseClient
  /\ UNCHANGED <<conf, failed, cecdh, cth, ckey, finished, handlerVars, toServer,
                 sopen, creset>>

Kill ==
  /\ ClientMayDie /\ cpc \in Running
  /\ cpc' = "killed" /\ cth' = "none" /\ UNCHANGED toClient /\ CloseClient
  /\ UNCHANGED <<conf, failed, cecdh, ckey, finished, handlerVars, toServer, sopen,
                 creset>>

----------------------------------------------------------------------------
(* The server *)

\* A thread per connection.  C reads the return code of neither malloc() nor
\* pthread_create(); a Python server that cannot start a thread exits.
AcceptNative ==
  \/ Blame({}) /\ spc' = "select" /\ UNCHANGED <<server, sopen, creset>>
  \/ Blame({"thread"}) /\ spc' = "lost" /\ UNCHANGED <<server, sopen, creset>>
  \/ Blame({"malloc"}) /\ ServerDies

AcceptPython ==
  \/ Blame({}) /\ spc' = "select" /\ UNCHANGED <<server, sopen, creset>>
  \/ Blame({"thread"}) /\ ServerDies

Accept ==
  /\ spc = "queued" /\ UNCHANGED toServer
  /\ IF Native(conf.server) THEN AcceptNative ELSE AcceptPython
  /\ UNCHANGED <<conf, clientVars, sel, kg, shareVars, toClient, copen, sreset>>

\* recv(MSG_PEEK) sees the magic number and the binary handshake takes over, or
\* it sees less, and bytes up to the next newline, if any, are taken for JSON.
PeekMagic ==
  /\ spc = "select" /\ HandlerGets /\ Head(toServer) = BinaryHello
  /\ \/ Blame({}) /\ spc' = "handed"
     \/ Blame({"peek"}) /\ spc' \in {"misread", "close"}
  /\ UNCHANGED <<conf, clientVars, server, sel, kg, shareVars, sopen, creset>>

\* The salt and, in c/server.c, the name of the KDF are looked at after
\* cJSON_Delete() freed them.
FreedSalt(salt) == IF salt = "none" THEN {"none"} ELSE Salts

SelectC(m, s) ==
  /\ \E k \in IF HasKem(s) THEN {Fine("running"), Bad("none", "keygen_thread")}
              ELSE {Fine("none")} :
       Blame(k.by) /\ kg' = k.v
  /\ \E salt \in FreedSalt(m.salt) : sel' = [suite |-> s, kdf |-> m.kdf, salt |-> salt]
  /\ spc' = IF HasEcdh(s) THEN "hello" ELSE "join_kg"

SelectDispatch(m, s) ==
  /\ \E salt \in FreedSalt(m.salt) : sel' = [suite |-> s, kdf |-> m.kdf, salt |-> salt]
  /\ \/ /\ Blame({}) /\ kg' = (IF HasKem(s) THEN "ok" ELSE "none")
        /\ spc' = IF HasEcdh(s) THEN "hello" ELSE "reply"
     \/ HasKem(s) /\ Blame({"kem"}) /\ kg' = "failed" /\ spc' = "close"

SelectPython(m, s) ==
  /\ Blame({}) /\ sel' = [suite |-> s, kdf |-> m.kdf, salt |-> m.salt]
  /\ spc' = IF HasEcdh(s) THEN "hello" ELSE "reply"
  /\ UNCHANGED kg

ComboById(id) ==
  {s \in IF conf.server = "dispatch" THEN ALGORITHM_COMBOS ELSE LEGACY_COMBOS : s.id = id}

ReadProfileSelect ==
  /\ spc = "select" /\ HandlerGets /\ Head(toServer).type = "ProfileSelect"
  /\ LET m == Head(toServer) IN
     \E s \in ComboById(m.id) :
       \/ conf.server = "c" /\ SelectC(m, s)
       \/ conf.server = "dispatch" /\ SelectDispatch(m, s)
       \/ conf.server = "python" /\ SelectPython(m, s)
  /\ UNCHANGED <<conf, clientVars, server, shareVars, sopen, creset>>

\* A line without a known combo_id.
NoSuchProfile ==
  /\ spc = "select" /\ HandlerGets /\ Head(toServer).type = "ClientHello"
  /\ spc' = "close"
  /\ UNCHANGED <<conf, failed, clientVars, server, sel, kg, shareVars, sopen, creset>>

\* Whatever fails ends the handshake, once the key generation thread is done.
HelloC(m) ==
  \/ ~m.c_pub /\ Blame({}) /\ spc' = "close" /\ UNCHANGED <<srv_pub, secdh>>
  \/ /\ \E f \in {"keypair", "export", "load", "derive"} : Blame({f})
     /\ spc' = "close" /\ UNCHANGED <<srv_pub, secdh>>
  \/ m.c_pub /\ Blame({}) /\ srv_pub' = TRUE /\ secdh' = "dh" /\ spc' = "join_kg"

\* Nobody looks at whether the key was exported, loaded or derived from.
HelloDispatch(m) ==
  \/ ~m.c_pub /\ Blame({}) /\ spc' = "close" /\ UNCHANGED <<srv_pub, secdh>>
  \/ Blame({"keypair"}) /\ spc' = "close" /\ UNCHANGED <<srv_pub, secdh>>
  \/ \E pub \in Exported("dispatch"), e \in Derived(TRUE) :
       m.c_pub /\ Blame(pub.by \cup e.by) /\ srv_pub' = pub.v /\ secdh' = e.v
         /\ spc' = "reply"

HelloPython(m) ==
  \/ ~m.c_pub /\ Blame({}) /\ spc' = "close" /\ UNCHANGED <<srv_pub, secdh>>
  \/ /\ \E f \in {"keypair", "load", "derive"} : Blame({f})
     /\ spc' = "close" /\ UNCHANGED <<srv_pub, secdh>>
  \/ m.c_pub /\ Blame({}) /\ srv_pub' = TRUE /\ secdh' = "dh" /\ spc' = "reply"

ReadClientHello ==
  /\ spc = "hello" /\ HandlerGets
  /\ LET m == Head(toServer) IN
     \/ conf.server = "c" /\ HelloC(m)
     \/ conf.server = "dispatch" /\ HelloDispatch(m)
     \/ conf.server = "python" /\ HelloPython(m)
  /\ UNCHANGED <<conf, clientVars, server, sel, kg, skem, skey, sopen, creset>>

KeygenThread ==
  /\ kg = "running"
  /\ \E r \in {Fine("ok"), Bad("failed", "kem")} : Blame(r.by) /\ kg' = r.v
  /\ UNCHANGED <<conf, clientVars, server, spc, sel, shareVars, socketVars>>

KeygenFailed == kg = "failed"

\* Without a thread there is nothing to join, and no KEM to take a length from.
JoinKeygen ==
  /\ spc = "join_kg" /\ kg # "running" /\ Blame({}) /\ UNCHANGED toServer
  /\ \/ KeygenFailed /\ spc' = "close" /\ UNCHANGED <<server, sopen, creset>>
     \/ ~KeygenFailed /\ kg # "ok" /\ HasKem(sel.suite) /\ ServerDies
     \/ /\ kg = "ok" \/ ~HasKem(sel.suite)
        /\ spc' = "reply" /\ UNCHANGED <<server, sopen, creset>>
  /\ UNCHANGED <<conf, clientVars, sel, kg, shareVars, toClient, copen, sreset>>

AfterReply(s) == IF HasKem(s) THEN "ct" ELSE "finish"

\* server.py makes its KEM key pair here.
SendKeyMaterial ==
  /\ spc = "reply"
  /\ \/ \E c \in Encoded(srv_pub, conf.server), q \in Encoded(HasKem(sel.suite), conf.server) :
          HandlerSends(KeyMaterial(c.v, q.v), AfterReply(sel.suite), c.by \cup q.by)
     \/ /\ conf.server = "python" /\ HasKem(sel.suite) /\ Blame({"kem"})
        /\ spc' = "close" /\ UNCHANGED <<server, socketVars>>
  /\ UNCHANGED <<conf, clientVars, sel, kg, shareVars>>

\* A KEM rejects a ciphertext it did not make by returning another secret.
Decapsulated(ct) ==
  {Fine(IF ct = "kem" THEN "kem" ELSE "rejected"), Bad("junk", "decaps")}

\* Without a ciphertext, or memory for it, c/server.c gives up and c_dispatch
\* goes on without the share; memory for the secret is not checked.
CiphertextNative(ct) ==
  \/ /\ (ct = "missing" /\ Blame({})) \/ Blame({"malloc"})
     /\ spc' = (IF conf.server = "c" THEN "close" ELSE "finish")
     /\ UNCHANGED <<server, skem, sopen, creset>>
  \/ /\ ct # "missing"
     /\ \E d \in Decapsulated(ct) : Blame(d.by) /\ skem' = d.v
     /\ spc' = "finish" /\ UNCHANGED <<server, sopen, creset>>
  \/ ct # "missing" /\ Blame({"malloc"}) /\ ServerDies /\ UNCHANGED skem

CiphertextPython(ct) ==
  /\ \/ /\ (ct = "missing" /\ Blame({})) \/ Blame({"decaps"})
        /\ spc' = "close" /\ UNCHANGED skem
     \/ /\ ct # "missing" /\ Blame({}) /\ spc' = "finish"
        /\ skem' = IF ct = "kem" THEN "kem" ELSE "rejected"
  /\ UNCHANGED <<server, sopen, creset>>

ReadCiphertext ==
  /\ spc = "ct" /\ HandlerGets
  /\ \/ Native(conf.server) /\ CiphertextNative(Head(toServer).ct)
     \/ ~Native(conf.server) /\ CiphertextPython(Head(toServer).ct)
  /\ UNCHANGED <<conf, clientVars, sel, kg, srv_pub, secdh, skey>>

KdfRead == IF conf.server = "c" THEN {"sha256", "blake3"} ELSE {sel.kdf}

SendFinished ==
  /\ spc = "finish"
  /\ \E kdf \in KdfRead :
     \E k \in Finalised(SessionKey(kdf, sel.suite.id, sel.salt, secdh, skem), conf.server) :
       skey' = k.v /\ HandlerSends(ServerFinished, "close", k.by)
  /\ UNCHANGED <<conf, clientVars, sel, kg, srv_pub, secdh, skem>>

HandlerRecvFails ==
  /\ Native(conf.server) /\ spc \in Reading /\ toServer # <<>> /\ Blame({"recv"})
  /\ toServer' \in {toServer, Tail(toServer)}
  /\ spc' = "close"
  /\ UNCHANGED <<conf, clientVars, server, sel, kg, shareVars, toClient, copen, sopen,
                 creset, sreset>>

HandlerEOF ==
  /\ spc \in Reading \cup {"misread"} /\ toServer = <<>> /\ ~copen
  /\ spc' = "close"
  /\ UNCHANGED <<conf, failed, clientVars, server, sel, kg, shareVars, socketVars>>

\* Every way out joins the thread that uses this stack.
CloseConnection ==
  /\ spc = "close" /\ kg # "running" /\ UNCHANGED toServer
  /\ CloseHandler
  /\ UNCHANGED <<conf, failed, clientVars, server, sel, kg, shareVars, toClient,
                 copen, sreset>>

----------------------------------------------------------------------------
ClientStep ==
  \/ Connect \/ SendProfileSelect \/ SendBinaryHello \/ SendClientHello \/ ReadReply
  \/ JoinEncaps \/ ReadFinished \/ ClientRecvFails \/ ClientEOF

HandlerStep ==
  \/ Accept \/ PeekMagic \/ ReadProfileSelect \/ NoSuchProfile \/ ReadClientHello
  \/ JoinKeygen \/ SendKeyMaterial \/ ReadCiphertext \/ SendFinished \/ HandlerRecvFails
  \/ HandlerEOF \/ CloseConnection

Next == ClientStep \/ HandlerStep \/ EncapsThread \/ KeygenThread \/ Kill

Spec == Init /\ [][Next]_vars

\* Threads keep being scheduled.
Fairness == /\ WF_vars(ClientStep) /\ WF_vars(HandlerStep)
            /\ WF_vars(EncapsThread) /\ WF_vars(KeygenThread)
FairSpec == Spec /\ Fairness

----------------------------------------------------------------------------
(* Properties *)

Blameless(F) == failed \cap F = {}

Complete(k) ==
  /\ k.kdf = conf.kdf /\ k.id = conf.suite.id
  /\ k.salt = IF k.kdf = "blake3" THEN "none" ELSE ProfileSelect.salt
  /\ k.ecdh = IF HasEcdh(conf.suite) THEN "dh" ELSE "none"
  /\ k.kem = IF HasKem(conf.suite) THEN "kem" ELSE "none"

\* Does the server look at freed memory for a part of its key?
ReadsFreed ==
  \/ conf.server = "c"
  \/ conf.server = "dispatch" /\ ProfileSelect.salt # "none"

\* Whoever talks to whom, a client that saw ServerFinished has a complete key and
\* the server has the same shares in its own: the same key, where the server does
\* not look at freed memory for the KDF or the salt.
KeysAgree ==
  finished /\ Blameless(KeyFaults \cup {"malloc"}) =>
    /\ Complete(ckey)
    /\ skey.ecdh = ckey.ecdh /\ skey.kem = ckey.kem /\ skey.id = ckey.id
    /\ ReadsFreed \/ skey = ckey

\* Where nothing fails every client gets along with every server.
EveryPairInteroperates ==
  failed = {} => /\ cpc \notin {"error", "crashed"}
                 /\ cpc = "ok" => finished

\* No failure makes a hybrid client go on with one share only: its classical
\* share may at worst be blank.
NoClientDowngrade ==
  conf.suite.profile = "HYBRID" /\ cpc \in {"await_fin", "ok"} /\ ckey # NoKey =>
    /\ ckey.kem = "kem"
    /\ ckey.ecdh = "dh" \/ (ckey.ecdh = "blank" /\ "derive" \in failed)

\* The threads that use the stack of their parents end before the frames do, on
\* every way out.
FramesOutliveThreads ==
  /\ cth = "running" => cpc = "join"
  /\ kg = "running" => spc \in {"hello", "join_kg", "close"}

\* ... and every variable keeps its type.
JsonInv == JsonTypeOK /\ FramesOutliveThreads

\* What takes the server down: unchecked results of malloc and pthread_create, and
\* SIGPIPE, which takes the client of a classical suite to go away early.
ServerSurvives ==
  server = "dead" =>
    \/ ~Blameless({"malloc", "keygen_thread"})
    \/ conf.server = "python" /\ "thread" \in failed
    \/ /\ Native(conf.server) /\ conf.suite.profile = "PURE_CLASSICAL"
       /\ cpc \in {"error", "killed"} \/ "recv" \in failed

\* Every connection comes to an end, except where a message was not sent, where a
\* connection got no thread, and where a binary client was taken for another.
Ended == cpc \in {"ok", "error", "crashed", "killed"} /\ spc \in {"none", "closed"}
EveryHandshakeEnds ==
  cpc = "profile" ~> Ended \/ spc = "handed" \/ ~Blameless({"send", "thread", "peek"})

----------------------------------------------------------------------------
(* The handshake as an agreement on a key *)

DueKey ==
  SessionKey(conf.kdf, conf.suite.id, ProfileSelect.salt,
             IF HasEcdh(conf.suite) THEN "dh" ELSE "none",
             IF HasKem(conf.suite) THEN "kem" ELSE "none")

\* A key but for what the server took from freed memory.
Seen(k) ==
  IF k # NoKey /\ ReadsFreed
  THEN [k EXCEPT !.kdf = DueKey.kdf, !.salt = DueKey.salt] ELSE k

Here(v) == [x \in {1} |-> v]

Agreed == INSTANCE KeyAgreement WITH
  Exchanges <- {1}, Unset <- NoKey,
  due      <- Here(DueKey),
  led      <- Here(HasKem(conf.suite)),
  sound    <- Blameless(KeyFaults \cup {"malloc"}),
  told     <- Blameless({"send"}),
  ckey     <- Here(ckey), skey <- Here(Seen(skey)),
  finished <- Here(finished)

\* Whoever talks to whom, the handshake implements KeyAgreement: each end makes
\* its key once, the server only after the client where it needs its ciphertext,
\* and the client reads ServerFinished only when both have theirs.
ImplementsKeyAgreement == Agreed!Spec

----------------------------------------------------------------------------
(* What the documentation says *)

\* c/server.c:3, "Exact wire-protocol equivalent of server.py", and :7, "Supports
\* both SHA-256 HKDF and BLAKE3 KDF engines"; c_dispatch/server.c:6, "Wire protocol
\* (newline-delimited JSON, compatible with c/server.c)", salt included: without
\* failures, keys agree.
KeysAlwaysAgree == finished /\ failed = {} => skey = ckey
=============================================================================
