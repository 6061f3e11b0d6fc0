----------------------------- MODULE Handshake ------------------------------
(***************************************************************************)
(* The binary handshake between execute_dispatch_handshake (c_dispatch/    *)
(* client.c) and handle_client_binary (c_dispatch/server.c): one thread    *)
(* per accepted connection, all in one server process.  A member of        *)
(* Clients is one execution of the client and the connection it opens.     *)
(*                                                                         *)
(* TCP is a FIFO of messages each way; recv_all and send_all make a        *)
(* message out of its segments.  A reader blocks until there is a message  *)
(* or the other end has closed.  A share of the key is "none" (nothing is  *)
(* put in the key), "blank" (zero bytes are, EVP_PKEY_derive having        *)
(* failed) or what the exchange of this connection yields.                 *)
(*                                                                         *)
(* Whatever may fail is in Faults.  Some failures end the handshake, some  *)
(* the code goes on from as if nothing had happened.                       *)
(***************************************************************************)
EXTENDS AlgoConfig, Sequences

CONSTANTS Clients,
          Suites, KdfTypes, DispatchModes,  \* the arguments callers pass
          Faults,
          ClientsMayDie   \* may a client process be killed?

CheckedFaults == {"connect", "client_setup", "server_setup", "pk_alloc",
                  "encaps_worker", "ct_alloc"}
SilentFaults  == {"export", "load", "derive", "encaps", "decaps", "kdf",
                  "ct_packet", "thread"}

ASSUME HandshakeAssumption ==
  /\ Suites \subseteq {c \in ALGORITHM_COMBOS : Consistent(c)}
  /\ KdfTypes \subseteq {"sha256", "blake3"}
  /\ DispatchModes \subseteq {"auto", "sequential", "parallel"}
  /\ Faults \subseteq CheckedFaults \cup SilentFaults
  /\ ClientsMayDie \in BOOLEAN

Request == [suite : Suites, kdf : KdfTypes, mode : DispatchModes]
Shares  == {"none", "blank", "dh", "kem", "junk", "rejected"}
Keys    == [kdf : {"sha256", "blake3", "failed"}, id : Nat,
            ecdh : Shares, kem : Shares]
NoKey   == [kdf |-> "failed", id |-> 0, ecdh |-> "none", kem |-> "none"]

VARIABLES
  cpc, req,      \* each client: where it is, what it was asked for
  ckey, finished,\* its session key; has it seen ServerFinished
  unsent,        \* did it go on without sending the ciphertext
  server,        \* the server process, "up" or "dead"
  spc, shello,   \* each handler: where it is, the ClientHello it read
  secdh, skem,   \* its shares
  skey,          \* its session key
  toServer, toClient,  \* messages in flight
  copen, sopen,  \* is the socket open at the client's, the server's end
  reset          \* the server's end was reset

clientVars == <<cpc, req, ckey, finished, unsent>>
serverVars == <<server, spc, shello, secdh, skem, skey>>
socketVars == <<toServer, toClient, copen, sopen, reset>>
vars == <<clientVars, serverVars, socketVars>>

ClientHello(r, pub) ==
  [type |-> "ClientHello", id |-> r.suite.id, kdf |-> r.kdf, mode |-> r.mode,
   c_pub |-> pub]
ServerHello(r, pub) == [type |-> "ServerHello", route |-> r, srv_pub |-> pub]
PQCCiphertext(good) == [type |-> "PQCCiphertext", good |-> good]
ServerFinished == [type |-> "ServerFinished", status |-> 0]

HelloMsg == [type : {"ClientHello"}, id : {c.id : c \in Suites},
             kdf : KdfTypes, mode : DispatchModes, c_pub : BOOLEAN]
CtMsg    == [type : {"PQCCiphertext"}, good : BOOLEAN]
ReplyMsg == [type : {"ServerHello"}, route : {"SEQUENTIAL", "PARALLEL"},
             srv_pub : BOOLEAN]
FinMsg   == [type : {"ServerFinished"}, status : {0}]
NoHello  == [type |-> "none"]

Waiting == {"await_hello", "await_fin"}
Running == {"connected"} \cup Waiting
Reading == {"hello", "ct"}
Writing == {"reply", "finish"}

TypeOK ==
  /\ cpc \in [Clients -> {"new", "ok", "error", "killed"} \cup Running]
  /\ req \in [Clients -> Request]
  /\ ckey \in [Clients -> Keys] /\ skey \in [Clients -> Keys]
  /\ finished \in [Clients -> BOOLEAN] /\ unsent \in [Clients -> BOOLEAN]
  /\ server \in {"up", "dead"}
  /\ spc \in [Clients -> {"none", "queued", "lost", "closed"}
                           \cup Reading \cup Writing]
  /\ shello \in [Clients -> HelloMsg \cup {NoHello}]
  /\ secdh \in [Clients -> Shares] /\ skem \in [Clients -> Shares]
  /\ toServer \in [Clients -> Seq(HelloMsg \cup CtMsg)]
  /\ toClient \in [Clients -> Seq(ReplyMsg \cup FinMsg)]
  /\ copen \in [Clients -> BOOLEAN] /\ sopen \in [Clients -> BOOLEAN]
  /\ reset \in [Clients -> BOOLEAN]

Init ==
  /\ cpc = [c \in Clients |-> "new"]
  /\ req \in [Clients -> Request]
  /\ ckey = [c \in Clients |-> NoKey] /\ skey = ckey
  /\ finished = [c \in Clients |-> FALSE] /\ unsent = finished
  /\ server = "up"
  /\ spc = [c \in Clients |-> "none"]
  /\ shello = [c \in Clients |-> NoHello]
  /\ secdh = [c \in Clients |-> "none"] /\ skem = secdh
  /\ toServer = [c \in Clients |-> <<>>] /\ toClient = toServer
  /\ copen = [c \in Clients |-> FALSE] /\ sopen = copen /\ reset = copen

----------------------------------------------------------------------------
(* What the crypto functions may yield *)

May(fault) == fault \in Faults

\* crypto_export_*_pub_*(), whose return code nobody reads.
Exported(wanted) == IF wanted THEN {TRUE} \cup (IF May("export") THEN {FALSE} ELSE {})
                              ELSE {FALSE}

\* Load the peer's key, if any came, and derive; a failed derivation is taken
\* for a secret of zero bytes.
Derived(pub) ==
  IF ~pub THEN {"none"}
  ELSE {"dh"} \cup (IF May("load") THEN {"none"} ELSE {})
              \cup (IF May("derive") THEN {"blank"} ELSE {})

\* A KEM rejects a ciphertext it did not make by returning another secret.
Decapsulated(good) ==
  {IF good THEN "kem" ELSE "rejected"} \cup (IF May("decaps") THEN {"none"} ELSE {})

\* The session key; HKDF may fail and leave it unset.
Finalised(kdf, id, ecdh, kem) ==
  {[kdf |-> kdf, id |-> id, ecdh |-> ecdh, kem |-> kem]}
    \cup (IF kdf = "sha256" /\ May("kdf") THEN {NoKey} ELSE {})

HasEcdh(c) == c.profile \in {"HYBRID", "PURE_CLASSICAL"}
HasKem(c)  == c.profile \in {"HYBRID", "PURE_QUANTUM"}

----------------------------------------------------------------------------
(* Sockets *)

\* close(): closing with unread data resets the other end.
CloseClient(c, unread) ==
  /\ copen' = [copen EXCEPT ![c] = FALSE]
  /\ reset' = [reset EXCEPT ![c] = @ \/ (sopen[c] /\ unread)]

CloseHandler(c) ==
  /\ sopen' = [sopen EXCEPT ![c] = FALSE]
  /\ spc' = [spc EXCEPT ![c] = "closed"]

\* A first write after the peer closed is lost, and resets the connection.
HandlerWrite(c, m) ==
  /\ ~reset[c]
  /\ toClient' = [toClient EXCEPT ![c] = IF copen[c] THEN Append(@, m) ELSE @]
  /\ reset' = [reset EXCEPT ![c] = ~copen[c]]

ClientWrite(c, m) ==
  toServer' = [toServer EXCEPT ![c] = IF sopen[c] THEN Append(@, m) ELSE @]

----------------------------------------------------------------------------
(* Defects, used by no specification *)

\* A failed setup returns without closing the connection.
ServerSetupFails_LeaksSocket(c) ==
  /\ spc[c] = "reply" /\ May("server_setup")
  /\ spc' = [spc EXCEPT ![c] = "closed"]
  /\ UNCHANGED <<clientVars, server, shello, secdh, skem, skey, socketVars>>

\* The KDF the client asked for is ignored.
SendFinished_IgnoresKdf(c) ==
  /\ spc[c] = "finish"
  /\ \E k \in Finalised("sha256", shello[c].id, secdh[c], skem[c]) :
       skey' = [skey EXCEPT ![c] = k]
  /\ HandlerWrite(c, ServerFinished)
  /\ CloseHandler(c)
  /\ UNCHANGED <<clientVars, server, shello, secdh, skem, toServer, copen>>

\* A client that sends no ciphertext is answered all the same.
HandlerEOF_Finishes(c) ==
  /\ spc[c] \in Reading /\ sopen[c]
  /\ toServer[c] = <<>> /\ ~copen[c]
  /\ IF spc[c] = "ct" THEN spc' = [spc EXCEPT ![c] = "finish"] /\ UNCHANGED sopen
                      ELSE CloseHandler(c)
  /\ UNCHANGED <<clientVars, server, shello, secdh, skem, skey, toServer,
                 toClient, copen, reset>>

\* A hybrid client goes on with the shares it has.
GivesUp_NoShareAtAll(s, ecdh, kem) ==
  HasKem(s) /\ kem = "none" /\ ecdh = "none"

\* The server waits for a ciphertext whatever the profile.
AfterReply_AlwaysCt(s) == "ct"

----------------------------------------------------------------------------
(* The client *)

Connect(c) ==
  /\ cpc[c] = "new"
  /\ \/ /\ server = "up"
        /\ cpc' = [cpc EXCEPT ![c] = "connected"]
        /\ spc' = [spc EXCEPT ![c] = "queued"]
        /\ copen' = [copen EXCEPT ![c] = TRUE]
        /\ sopen' = [sopen EXCEPT ![c] = TRUE]
     \/ /\ server = "dead" \/ May("connect")
        /\ cpc' = [cpc EXCEPT ![c] = "error"]
        /\ UNCHANGED <<spc, copen, sopen>>
  /\ UNCHANGED <<req, ckey, finished, unsent, server, shello, secdh, skem, skey,
                 toServer, toClient, reset>>

\* No key pair, no memory for the packet, or nobody to send it to any more.
ClientSetupFails(c) ==
  /\ cpc[c] = "connected"
  /\ May("client_setup") \/ ~sopen[c]
  /\ cpc' = [cpc EXCEPT ![c] = "error"]
  /\ CloseClient(c, FALSE)
  /\ UNCHANGED <<req, ckey, finished, unsent, serverVars, toServer, toClient,
                 sopen>>

SendClientHello(c) ==
  /\ cpc[c] = "connected"
  /\ \E pub \in Exported(HasEcdh(req[c].suite)) :
       ClientWrite(c, ClientHello(req[c], pub))
  /\ cpc' = [cpc EXCEPT ![c] = "await_hello"]
  /\ UNCHANGED <<req, ckey, finished, unsent, serverVars, toClient, copen, sopen,
                 reset>>

\* Without memory for the KEM's public key the rest of the message stays unread.
PkAllocFails(c) ==
  /\ cpc[c] = "await_hello" /\ toClient[c] # <<>>
  /\ HasKem(req[c].suite) /\ May("pk_alloc")
  /\ cpc' = [cpc EXCEPT ![c] = "error"]
  /\ CloseClient(c, TRUE)
  /\ UNCHANGED <<req, ckey, finished, unsent, serverVars, toServer, toClient,
                 sopen>>

\* The client's KEM share; without a key pair's memory or a KEM there is none.
ClientEncaps(s) ==
  IF ~HasKem(s) THEN {"none"}
  ELSE {"kem"} \cup (IF May("encaps_worker") THEN {"none"} ELSE {})
               \cup (IF s.profile = "PURE_QUANTUM" /\ May("encaps")
                     THEN {"junk"} ELSE {})

\* A suite that is classical only goes on whatever its share is.
GivesUp(s, ecdh, kem) ==
  \/ HasKem(s) /\ kem = "none"
  \/ s.profile = "HYBRID" /\ ecdh = "none"

\* Compute the shares, send the ciphertext and derive the key; then wait.  The
\* client goes on when it has no memory for the packet to send.
ComputeShares(c) ==
  LET s == req[c].suite IN
  /\ cpc[c] = "await_hello" /\ toClient[c] # <<>>
  /\ toClient' = [toClient EXCEPT ![c] = Tail(@)]
  /\ \E ecdh \in Derived(HasEcdh(s) /\ Head(toClient[c]).srv_pub),
        kem \in ClientEncaps(s) :
       \/ /\ GivesUp(s, ecdh, kem)
          /\ cpc' = [cpc EXCEPT ![c] = "error"]
          /\ CloseClient(c, Len(toClient[c]) > 1)
          /\ UNCHANGED <<ckey, unsent, toServer>>
       \/ /\ ~GivesUp(s, ecdh, kem)
          /\ cpc' = [cpc EXCEPT ![c] = "await_fin"]
          /\ \E k \in Finalised(req[c].kdf, s.id, ecdh, kem) :
               ckey' = [ckey EXCEPT ![c] = k]
          /\ \/ ~HasKem(s) /\ UNCHANGED <<unsent, toServer>>
             \/ /\ HasKem(s)
                /\ ClientWrite(c, PQCCiphertext(kem = "kem"))
                /\ UNCHANGED unsent
             \/ /\ HasKem(s) /\ May("ct_packet")
                /\ unsent' = [unsent EXCEPT ![c] = TRUE]
                /\ UNCHANGED toServer
          /\ UNCHANGED <<copen, reset>>
  /\ UNCHANGED <<req, finished, serverVars, sopen>>

ReadServerFinished(c) ==
  /\ cpc[c] = "await_fin" /\ toClient[c] # <<>>
  /\ toClient' = [toClient EXCEPT ![c] = Tail(@)]
  /\ finished' = [finished EXCEPT ![c] = TRUE]
  /\ cpc' = [cpc EXCEPT ![c] = "ok"]
  /\ CloseClient(c, Len(toClient[c]) > 1)
  /\ UNCHANGED <<req, ckey, unsent, serverVars, toServer, sopen>>

\* The server hung up: an error before ServerHello, no matter after it.
ClientEOF(c) ==
  /\ cpc[c] \in Waiting /\ toClient[c] = <<>> /\ ~sopen[c]
  /\ cpc' = [cpc EXCEPT ![c] = IF @ = "await_hello" THEN "error" ELSE "ok"]
  /\ CloseClient(c, FALSE)
  /\ UNCHANGED <<req, ckey, finished, unsent, serverVars, toServer, toClient,
                 sopen>>

Kill(c) ==
  /\ ClientsMayDie /\ cpc[c] \in Running
  /\ cpc' = [cpc EXCEPT ![c] = "killed"]
  /\ CloseClient(c, toClient[c] # <<>>)
  /\ UNCHANGED <<req, ckey, finished, unsent, serverVars, toServer, toClient,
                 sopen>>

----------------------------------------------------------------------------
(* The server *)

\* accept() and pthread_create(), whose return code nobody reads.
Accept(c) ==
  /\ spc[c] = "queued"
  /\ \E pc \in {"hello"} \cup (IF May("thread") THEN {"lost"} ELSE {}) :
       spc' = [spc EXCEPT ![c] = pc]
  /\ UNCHANGED <<clientVars, server, shello, secdh, skem, skey, socketVars>>

ReadClientHello(c) ==
  /\ spc[c] = "hello" /\ toServer[c] # <<>>
  /\ shello' = [shello EXCEPT ![c] = Head(toServer[c])]
  /\ toServer' = [toServer EXCEPT ![c] = Tail(@)]
  /\ spc' = [spc EXCEPT ![c] = "reply"]
  /\ UNCHANGED <<clientVars, server, secdh, skem, skey, toClient, copen, sopen,
                 reset>>

HandlerEOF(c) ==
  /\ spc[c] \in Reading /\ sopen[c]
  /\ toServer[c] = <<>> /\ ~copen[c]
  /\ CloseHandler(c)
  /\ UNCHANGED <<clientVars, server, shello, secdh, skem, skey, toServer,
                 toClient, copen, reset>>

\* No KEM, no key pair, or no memory for the packet.
ServerSetupFails(c) ==
  /\ spc[c] = "reply" /\ May("server_setup")
  /\ CloseHandler(c)
  /\ UNCHANGED <<clientVars, server, shello, secdh, skem, skey, toServer,
                 toClient, copen, reset>>

AfterReply(s) == IF HasKem(s) THEN "ct" ELSE "finish"

\* Every server computation runs on the handler's thread, whatever the mode.
SendServerHello(c) ==
  /\ spc[c] = "reply"
  /\ \E s \in get_combo_by_id(shello[c].id) :
       /\ \E ecdh \in Derived(HasEcdh(s) /\ shello[c].c_pub) :
            secdh' = [secdh EXCEPT ![c] = ecdh]
       /\ \E pub \in Exported(HasEcdh(s)) :
            HandlerWrite(c, ServerHello("SEQUENTIAL", pub))
       /\ spc' = [spc EXCEPT ![c] = AfterReply(s)]
  /\ UNCHANGED <<clientVars, server, shello, skem, skey, toServer, copen, sopen>>

\* Without memory for the ciphertext the handler gives up.
ReadCiphertext(c) ==
  /\ spc[c] = "ct" /\ toServer[c] # <<>>
  /\ toServer' = [toServer EXCEPT ![c] = Tail(@)]
  /\ \/ /\ \E kem \in Decapsulated(Head(toServer[c]).good) :
             skem' = [skem EXCEPT ![c] = kem]
        /\ spc' = [spc EXCEPT ![c] = "finish"]
        /\ UNCHANGED sopen
     \/ May("ct_alloc") /\ CloseHandler(c) /\ UNCHANGED skem
  /\ UNCHANGED <<clientVars, server, shello, secdh, skey, toClient, copen, reset>>

\* The status says success, whatever the shares are.
SendFinished(c) ==
  /\ spc[c] = "finish"
  /\ \E k \in Finalised(shello[c].kdf, shello[c].id, secdh[c], skem[c]) :
       skey' = [skey EXCEPT ![c] = k]
  /\ HandlerWrite(c, ServerFinished)
  /\ CloseHandler(c)
  /\ UNCHANGED <<clientVars, server, shello, secdh, skem, toServer, copen>>

\* A write to a connection that was reset fails and the handler closes ...
WriteFails(c) ==
  /\ spc[c] \in Writing /\ reset[c]
  /\ CloseHandler(c)
  /\ UNCHANGED <<clientVars, server, shello, secdh, skem, skey, toServer,
                 toClient, copen, reset>>

\* ... or raises SIGPIPE, which nobody handles: the process is gone, with
\* every connection of every client.
SigPipe(c) ==
  /\ spc[c] \in Writing /\ reset[c]
  /\ server' = "dead"
  /\ sopen' = [d \in Clients |-> FALSE]
  /\ spc' = [d \in Clients |-> IF spc[d] = "none" THEN "none" ELSE "closed"]
  /\ UNCHANGED <<clientVars, shello, secdh, skem, skey, toServer, toClient,
                 copen, reset>>

----------------------------------------------------------------------------
ClientStep(c) ==
  \/ Connect(c) \/ ClientSetupFails(c) \/ SendClientHello(c) \/ PkAllocFails(c)
  \/ ComputeShares(c) \/ ReadServerFinished(c) \/ ClientEOF(c)

HandlerStep(c) ==
  \/ Accept(c) \/ ReadClientHello(c) \/ HandlerEOF(c) \/ ServerSetupFails(c)
  \/ SendServerHello(c) \/ ReadCiphertext(c) \/ SendFinished(c)
  \/ WriteFails(c) \/ SigPipe(c)

Next == \E c \in Clients : ClientStep(c) \/ HandlerStep(c) \/ Kill(c)

Spec == Init /\ [][Next]_vars

\* Clients, the accepting loop and its threads all keep being scheduled.
Fairness == \A c \in Clients : WF_vars(ClientStep(c)) /\ WF_vars(HandlerStep(c))
FairSpec == Spec /\ Fairness

----------------------------------------------------------------------------
(* Properties *)

\* The failures that leave a key without a share, or without a value, and that
\* neither side looks at.
KeyFaults == SilentFaults \ {"ct_packet", "thread"}

DueKey(r) ==
  [kdf |-> r.kdf, id |-> r.suite.id,
   ecdh |-> IF HasEcdh(r.suite) THEN "dh" ELSE "none",
   kem  |-> IF HasKem(r.suite) THEN "kem" ELSE "none"]

Complete(k, r) == k = DueKey(r)

\* Whatever else fails, and whoever dies: a client that saw ServerFinished and
\* the handler that sent it have the same key, for the suite and the KDF asked
\* for, made of every share of the suite.
KeysAgree ==
  Faults \cap KeyFaults = {} =>
    \A c \in Clients : finished[c] => /\ Complete(ckey[c], req[c])
                                      /\ skey[c] = ckey[c]

\* No failure at all makes a hybrid client go on with one share only: a share
\* may at worst be blank.
NoClientDowngrade ==
  \A c \in Clients :
    cpc[c] \in {"await_fin", "ok"} /\ req[c].suite.profile = "HYBRID" /\ ckey[c] # NoKey =>
      /\ ckey[c].kem = "kem"
      /\ ckey[c].ecdh = "dh" \/ (ckey[c].ecdh = "blank" /\ May("derive"))

\* Nobody waits for nothing: a client that waits has a message or the end of the
\* connection to read, or its handler can go on, except where the code went on
\* without a thread for the connection or without the ciphertext.
WaiterIsServed ==
  \A c \in Clients :
    cpc[c] \in Waiting => \/ toClient[c] # <<>> \/ ~sopen[c]
                          \/ spc[c] \in {"queued"} \cup Writing
                          \/ spc[c] \in Reading /\ toServer[c] # <<>>
                          \/ spc[c] = "lost" \/ unsent[c]

\* Only the death of a client of a classical suite can take the server down: no
\* other failure makes a handler write twice to a connection the client closed.
OnlyClassicalDeathsKill ==
  server = "dead" => \E c \in Clients : /\ cpc[c] = "killed"
                                        /\ req[c].suite.profile = "PURE_CLASSICAL"

\* Every handshake ends on both sides, except where the code went on without a
\* thread for the connection or without the ciphertext.
Stuck(c) == spc[c] = "lost" \/ (cpc[c] = "await_fin" /\ unsent[c])
Ended(c) == cpc[c] \in {"ok", "error", "killed"} /\ spc[c] = "closed"

EveryHandshakeEnds ==
  \A c \in Clients : cpc[c] = "connected" ~> Ended(c) \/ Stuck(c)

----------------------------------------------------------------------------
(* The handshake as an agreement on a key *)

Agreed == INSTANCE KeyAgreement WITH
  Exchanges <- Clients, Unset <- NoKey,
  due   <- [c \in Clients |-> DueKey(req[c])],
  led   <- [c \in Clients |-> HasKem(req[c].suite)],
  sound <- (Faults \cap KeyFaults = {}),
  told  <- TRUE

\* The handshake implements KeyAgreement: whoever dies and whatever fails, each
\* end makes its key once, the server only after the client where it needs its
\* ciphertext, and the client reads ServerFinished only when both have theirs.
ImplementsKeyAgreement == Agreed!Spec

----------------------------------------------------------------------------
(* The inductive invariant *)

Early == {"queued", "hello", "lost"}   \* handlers that have read nothing yet

Hellos(c)  == {ClientHello(req[c], p) : p \in Exported(HasEcdh(req[c].suite))}
Replies(c) == {ServerHello("SEQUENTIAL", p) : p \in Exported(HasEcdh(req[c].suite))}

\* Sockets are open as long as their owners use them, and a reset comes after
\* the client has gone.
SocketInv(c) ==
  /\ copen[c] <=> cpc[c] \in Running
  /\ sopen[c] <=> spc[c] \in Early \cup Reading \cup Writing
  /\ sopen[c] => server = "up"
  /\ cpc[c] = "new" => spc[c] = "none"
  /\ spc[c] = "none" => cpc[c] \in {"new", "error"}
  /\ reset[c] => ~copen[c]

\* What is in flight towards the server, and what the handler has of it.
RequestInv(c) ==
  /\ cpc[c] \in {"new", "connected"} => toServer[c] = <<>>
  /\ cpc[c] = "connected" => spc[c] \in Early \cup {"closed"}
  /\ spc[c] \in Early /\ toServer[c] # <<>> => cpc[c] \in {"await_hello", "killed"}
  /\ cpc[c] = "await_hello" /\ spc[c] \in Early => toServer[c] # <<>>
  /\ spc[c] \in {"none"} \cup Early =>
       toServer[c] \in {<<>>} \cup {<<m>> : m \in Hellos(c)}
  /\ spc[c] \in Writing => toServer[c] = <<>>
  /\ spc[c] = "ct" => /\ HasKem(req[c].suite)
                     /\ toServer[c] \in {<<>>} \cup
                          {<<PQCCiphertext(g)>> : g \in BOOLEAN}
  /\ spc[c] = "ct" /\ toServer[c] # <<>> =>
       ~reset[c] /\ toClient[c] = <<>> /\ cpc[c] \in {"await_fin", "ok", "killed"}
  /\ spc[c] = "ct" /\ toServer[c] = <<>> /\ cpc[c] = "await_fin" => unsent[c]
  /\ spc[c] \in {"ct"} \cup Writing => shello[c] \in Hellos(c)

\* What is in flight towards the client.
ReplyInv(c) ==
  /\ spc[c] \in {"none", "reply"} \cup Early =>
       toClient[c] = <<>> /\ ~reset[c] /\ cpc[c] \notin {"await_fin", "ok"}
  /\ spc[c] = "reply" => cpc[c] \in {"await_hello", "killed"}
  /\ cpc[c] \in {"new", "connected", "await_hello"} =>
       \/ toClient[c] = <<>>
       \/ \E r \in Replies(c) : toClient[c] \in {<<r>>, <<r, ServerFinished>>}
  /\ cpc[c] = "await_fin" => toClient[c] \in {<<>>, <<ServerFinished>>}
  /\ spc[c] \in {"ct", "finish"} =>
       /\ cpc[c] = "await_hello" => \E r \in Replies(c) : toClient[c] = <<r>>
       /\ cpc[c] = "await_fin" => toClient[c] = <<>>
       /\ cpc[c] # "ok"
       /\ \A i \in DOMAIN toClient[c] : toClient[c][i] # ServerFinished
  /\ spc[c] = "finish" =>
       /\ cpc[c] \in Waiting \cup {"killed"}
       /\ reset[c] => cpc[c] = "killed" /\ ~HasKem(req[c].suite)
       /\ HasKem(req[c].suite) => toClient[c] = <<>> /\ cpc[c] # "await_hello"

\* Where no share can be lost silently, every share of the suite is there.
Wanted(wanted, share) == IF wanted THEN share ELSE "none"

KeyInv(c) ==
  /\ finished[c] => cpc[c] = "ok"
  /\ Faults \cap KeyFaults = {} =>
       LET s == req[c].suite IN
       /\ cpc[c] = "await_fin" \/ finished[c] => Complete(ckey[c], req[c])
       /\ spc[c] = "ct" => \A i \in DOMAIN toServer[c] : toServer[c][i].good
       /\ spc[c] \in {"ct", "finish"} => secdh[c] = Wanted(HasEcdh(s), "dh")
       /\ spc[c] \in {"none", "reply", "ct"} \cup Early => skem[c] = "none"
       /\ spc[c] = "finish" => skem[c] = Wanted(HasKem(s), "kem")
       /\ finished[c] => Complete(skey[c], req[c])
       /\ \A i \in DOMAIN toClient[c] :
            toClient[c][i] = ServerFinished => Complete(skey[c], req[c])

IInv ==
  /\ TypeOK
  /\ \A c \in Clients : SocketInv(c) /\ RequestInv(c) /\ ReplyInv(c) /\ KeyInv(c)
  /\ OnlyClassicalDeathsKill
=============================================================================
