---------------------------- MODULE CertSyncProofs ----------------------------
(***************************************************************************)
(* Theorems about CertSync for every number of replicas, clients, requests *)
(* and deployments: type correctness, and that an answer of OK holds on    *)
(* every replica that was addressed (OkHoldsEverywhere).                   *)
(***************************************************************************)
EXTENDS CertSync, TLAPS

--------------------------------------------------------------------------------
(* Type correctness *)

\* What a handler is about to use, it has; it runs on a replica that serves; and
\* it has the mutex while it writes the file.
HandlerShape(o, r) ==
    LET h == handler[o][r]
    IN  /\ h.pc = "off" => h = Off
        /\ h.pc # "off" => h.offer \in Offer /\ phase[r] = "serving"
        /\ h.pc \in {"open", "fill"} => h.offer.cert # None
        /\ h.pc = "configure" => h.offer.svc # None
        /\ h.pc = "fill" => mu[r] = o

\* A client waits for one replica, which works on its request; it has no promise
\* while anybody works for it.
ClientShape(o) ==
    LET c == client[o]
    IN  /\ c.offer = None => c = NoClient
        /\ c.at # None => /\ c.at \in c.left /\ handler[o][c.at].pc # "off"
                          /\ handler[o][c.at].offer = c.offer
        /\ c.offer # None => \A r \in Replica : handler[o][r].pc # "off" => c.at = r
        /\ c.offer # None \/ (\E r \in Replica : handler[o][r].pc # "off") => promise[o] = None

Shapes == \A o \in Op : ClientShape(o) /\ \A r \in Replica : HandlerShape(o, r)

TypeInv == TypeOK /\ Shapes

LEMMA OfferFields ==
  ASSUME NEW f \in Offer
  PROVE  /\ f # None
         /\ f.cert # None => f.cert \in Cert /\ f.content \in File /\ f.content # None
         /\ f.svc # None => f.svc \in Service
         /\ f.cert = None => f.svc # None
         /\ f.version \in Nat \cup {None}
         /\ f.version # None => f.svc # None
  BY CertAssumption DEF OfferRecord, File

LEMMA WorldFields ==
  ASSUME TypeOK
  PROVE  world.replicas \subseteq Replica /\ world.offers \subseteq Offer
  BY CertAssumption DEF TypeOK, WorldRecord

LEMMA CertTypeInit == Init => TypeInv
  BY CertAssumption DEF Init, TypeInv, Shapes, TypeOK, HandlerShape, ClientShape, NoFiles, NoServices, Off,
     NoJoin, NoClient, File, HandlerState, ClientState, WorldRecord

\* What a client waits for changes at most in the replicas that count for it.
SameClients ==
    /\ client' \in [Op -> ClientState]
    /\ \A p \in Op : \/ client'[p] = client[p]
                     \/ /\ client[p].offer # None
                        /\ client'[p].offer = client[p].offer /\ client'[p].left = client[p].left
                        /\ client'[p].at = client[p].at /\ client'[p].failed = client[p].failed
                        /\ client'[p].to \subseteq client[p].to
    /\ promise' \in [Op -> [offer: Offer, to: SUBSET Replica] \cup {None}]
    /\ \A p \in Op : \/ promise'[p] = promise[p] \/ promise'[p] = None
                     \/ /\ promise[p] # None /\ promise'[p].offer = promise[p].offer
                        /\ promise'[p].to \subseteq promise[p].to

LEMMA OverwriteSame ==
  ASSUME TypeInv, NEW o \in Op, NEW r \in Replica, Overwrite(o, r)
  PROVE  SameClients
<1> DEFINE Same(f) == f # None /\ \/ f.cert = handler[o][r].offer.cert /\ handler[o][r].offer.cert # None
                                  \/ f.svc = handler[o][r].offer.svc /\ handler[o][r].offer.svc # None
<1> USE DEF TypeInv, TypeOK
<1>1. /\ client' = [p \in Op |-> IF p # o /\ Same(client[p].offer)
                                 THEN [client[p] EXCEPT !.to = client[p].to \ {r}] ELSE client[p]]
      /\ promise' = [p \in Op |-> IF p # o /\ promise[p] # None /\ Same(promise[p].offer)
                                  THEN Kept([promise[p] EXCEPT !.to = promise[p].to \ {r}])
                                  ELSE promise[p]]
  BY DEF Overwrite
<1>2. ASSUME NEW p \in Op
      PROVE  /\ client'[p] \in ClientState
             /\ \/ client'[p] = client[p]
                \/ /\ client[p].offer # None
                   /\ client'[p].offer = client[p].offer /\ client'[p].left = client[p].left
                   /\ client'[p].at = client[p].at /\ client'[p].failed = client[p].failed
                   /\ client'[p].to \subseteq client[p].to
  <2>1. CASE p # o /\ Same(client[p].offer)
    <3>1. client'[p] = [client[p] EXCEPT !.to = client[p].to \ {r}]
      BY <1>1, <2>1
    <3>2. client[p] \in ClientState /\ client[p].offer # None
      BY <2>1
    <3>3. QED  BY <3>1, <3>2 DEF ClientState
  <2>2. CASE ~(p # o /\ Same(client[p].offer))
    BY <1>1, <2>2
  <2>3. QED  BY <2>1, <2>2
<1>3. ASSUME NEW p \in Op
      PROVE  /\ promise'[p] \in [offer: Offer, to: SUBSET Replica] \cup {None}
             /\ \/ promise'[p] = promise[p] \/ promise'[p] = None
                \/ /\ promise[p] # None /\ promise'[p].offer = promise[p].offer
                   /\ promise'[p].to \subseteq promise[p].to
  BY <1>1 DEF Kept
<1>4. QED  BY <1>1, <1>2, <1>3 DEF SameClients

\* A handler goes on with h, and takes the mutex from nobody.
Moves(o, r, h) ==
    /\ h \in HandlerState /\ h.pc # "off" /\ h.offer = handler[o][r].offer
    /\ h.pc \in {"open", "fill"} => h.offer.cert # None
    /\ h.pc = "configure" => h.offer.svc # None
    /\ h.pc = "fill" => mu'[r] = o
    /\ handler' = [handler EXCEPT ![o][r] = h]
    /\ \A p \in Op, q \in Replica :
          handler[p][q].pc = "fill" /\ (p # o \/ q # r) => mu'[q] = p

LEMMA HandlerMoves ==
  ASSUME TypeInv, SameClients, NEW o \in Op, NEW r \in Replica, NEW h,
         handler[o][r].pc # "off", Moves(o, r, h), phase' = phase
  PROVE  handler' \in [Op -> [Replica -> HandlerState]] /\ Shapes'
<1>1. /\ handler' \in [Op -> [Replica -> HandlerState]]
      /\ handler'[o][r] = h
      /\ \A p \in Op, q \in Replica : p # o \/ q # r => handler'[p][q] = handler[p][q]
  BY DEF TypeInv, TypeOK, Moves
<1>2. ASSUME NEW p \in Op, NEW q \in Replica
      PROVE  HandlerShape(p, q)'
  <2>1. HandlerShape(p, q) /\ HandlerShape(o, r)
    BY DEF TypeInv, Shapes
  <2>2. QED  BY <1>1, <2>1 DEF HandlerShape, Moves
<1>3. ASSUME NEW p \in Op
      PROVE  ClientShape(p)'
  <2>1. ClientShape(p) /\ client[p].at \in Replica \cup {None}
    BY DEF TypeInv, Shapes, TypeOK, ClientState
  <2>2. \A q \in Replica : handler'[p][q].pc # "off" <=> handler[p][q].pc # "off"
    BY <1>1 DEF Moves
  <2>3. \A q \in Replica : handler'[p][q].offer = handler[p][q].offer
    BY <1>1 DEF Moves
  <2>4. promise[p] = None => promise'[p] = None
    BY DEF SameClients
  <2>5. \/ client'[p] = client[p]
        \/ /\ client[p].offer # None /\ client'[p].offer = client[p].offer
           /\ client'[p].left = client[p].left /\ client'[p].at = client[p].at
    BY DEF SameClients
  <2>6. QED  BY <2>1, <2>2, <2>3, <2>4, <2>5 DEF ClientShape
<1>4. QED  BY <1>1, <1>2, <1>3 DEF Shapes

\* A handler has answered.
LEMMA HandlerReturns ==
  ASSUME TypeInv, NEW o \in Op, NEW r \in Replica, NEW ok \in BOOLEAN,
         handler[o][r].pc # "off", handler[o][r].pc # "fill",
         Return(o, r, ok), UNCHANGED <<phase, mu, promise>>
  PROVE  /\ handler' \in [Op -> [Replica -> HandlerState]] /\ client' \in [Op -> ClientState]
         /\ Shapes'
<1>1. /\ handler' \in [Op -> [Replica -> HandlerState]]
      /\ handler'[o][r] = Off
      /\ \A p \in Op, q \in Replica : p # o \/ q # r => handler'[p][q] = handler[p][q]
  BY CertAssumption DEF TypeInv, TypeOK, Return, Off, HandlerState
<1>2. /\ client' \in [Op -> ClientState]
      /\ \A p \in Op \ {o} : client'[p] = client[p]
      /\ client'[o] = IF client[o].at # r THEN client[o]
                      ELSE [client[o] EXCEPT !.at = None, !.left = client[o].left \ {r},
                                             !.failed = client[o].failed \/ ~ok]
  <2>1. client[o] \in ClientState
    BY DEF TypeInv, TypeOK
  <2>2. (client[o].failed \/ ~ok) \in BOOLEAN
    OBVIOUS
  <2>3. [client[o] EXCEPT !.at = None, !.left = client[o].left \ {r},
                          !.failed = client[o].failed \/ ~ok] \in ClientState
    BY <2>1, <2>2 DEF ClientState
  <2>4. QED  BY <2>1, <2>3 DEF TypeInv, TypeOK, Return
<1>3. ASSUME NEW p \in Op, NEW q \in Replica
      PROVE  HandlerShape(p, q)'
  <2>1. HandlerShape(p, q)
    BY DEF TypeInv, Shapes
  <2>2. QED  BY <1>1, <2>1 DEF HandlerShape, Off
<1>4. ASSUME NEW p \in Op
      PROVE  ClientShape(p)'
  <2>1. ClientShape(p) /\ client[p] \in ClientState
    BY DEF TypeInv, Shapes, TypeOK
  <2>2. CASE p # o
    <3>1. client'[p] = client[p] /\ \A q \in Replica : handler'[p][q] = handler[p][q]
      BY <1>1, <1>2, <2>2
    <3>2. client[p].at \in Replica \cup {None}
      BY <2>1 DEF ClientState
    <3>3. QED  BY <2>1, <3>1, <3>2 DEF ClientShape
  <2>3. CASE p = o /\ client[o].at # r
    BY <1>1, <1>2, <2>1, <2>3 DEF ClientShape, ClientState, Off
  <2>4. CASE p = o /\ client[o].at = r
    <3>1. /\ client'[o].offer = client[o].offer /\ client'[o].at = None
      BY <1>2, <2>1, <2>4 DEF ClientState
    <3>2. client[o].offer # None
      BY <2>1, <2>4, CertAssumption DEF ClientShape, NoClient
    <3>3. \A q \in Replica : handler'[o][q].pc = "off"
      BY <1>1, <2>1, <2>4, <3>2 DEF ClientShape, Off
    <3>4. promise'[o] = None
      BY <2>1, <2>4, <3>2 DEF ClientShape
    <3>5. QED  BY <2>4, <3>1, <3>2, <3>3, <3>4 DEF ClientShape
  <2>5. QED  BY <2>2, <2>3, <2>4
<1>5. QED  BY <1>1, <1>2, <1>3, <1>4 DEF Shapes

LEMMA OfferAtWork ==
  ASSUME TypeInv, NEW o \in Op, NEW r \in Replica, handler[o][r].pc # "off"
  PROVE  handler[o][r] \in HandlerState /\ handler[o][r].offer \in Offer /\ phase[r] = "serving"
  BY DEF TypeInv, Shapes, TypeOK, HandlerShape

LEMMA MutexHeld ==
  ASSUME TypeInv
  PROVE  \A p \in Op, q \in Replica : handler[p][q].pc = "fill" => mu[q] = p
  BY DEF TypeInv, Shapes, HandlerShape

\* What is left of TypeInv' once the handlers and clients are settled.
LEMMA TypeRest ==
  ASSUME world' \in World, phase' \in [Replica -> {"down", "starting", "serving"}],
         disk' \in [Replica -> [Cert -> File]], loaded' \in [Replica -> [Cert -> File]],
         crtList' \in [Replica -> SUBSET Cert], mu' \in [Replica -> Op \cup {None}],
         registered' \in [Replica -> [Service -> Nat \cup {None}]],
         routed' \in [Replica -> [Service -> Nat \cup {None}]],
         joiner' \in [Replica -> [left: SUBSET Replica, best: [Cert -> File]]],
         handler' \in [Op -> [Replica -> HandlerState]], client' \in [Op -> ClientState],
         promise' \in [Op -> [offer: Offer, to: SUBSET Replica] \cup {None}],
         unfinished' \in [Op -> SUBSET Replica],
         latest' \in [Cert -> File] \cup {None}, Shapes'
  PROVE  TypeInv'
  BY DEF TypeInv, TypeOK, Shapes, ClientShape

\* A replica that has not finished is none that had.
LEMMA UnfinishedGrows ==
  ASSUME TypeInv, NEW o \in Op, NEW r \in Replica,
         Unfinished(o, r) \/ UNCHANGED unfinished
  PROVE  /\ unfinished' \in [Op -> SUBSET Replica]
         /\ \A p \in Op : unfinished[p] \subseteq unfinished'[p]
         /\ Unfinished(o, r) => r \in unfinished'[o]
<1>1. unfinished \in [Op -> SUBSET Replica]
  BY DEF TypeInv, TypeOK
<1>2. CASE UNCHANGED unfinished /\ ~Unfinished(o, r)
  BY <1>1, <1>2
<1>3. CASE Unfinished(o, r)
  <2>1. unfinished' = [unfinished EXCEPT ![o] = unfinished[o] \cup {r}]
    BY <1>3 DEF Unfinished
  <2>2. QED  BY <1>1, <2>1
<1>4. QED  BY <1>2, <1>3

LEMMA TypeHandler ==
  ASSUME TypeInv, UNCHANGED world, NEW o \in Op, NEW r \in Replica, Handler(o, r)
  PROVE  TypeInv'
<1> USE DEF replicaVars, serviceVars, ghostVars, Goto
<1> DEFINE h == handler[o][r]
<1>1. SameClients \/ ~UNCHANGED <<client, promise>>
  BY DEF TypeInv, TypeOK, SameClients
<1>2. CASE Open(o, r)
  <2>1. /\ h \in HandlerState /\ h.offer \in Offer /\ h.pc = "open" /\ h.offer.cert # None
        /\ mu[r] = None
    BY <1>2, OfferAtWork DEF Open, TypeInv, Shapes, HandlerShape
  <2>2. PICK g \in HandlerState : g = [h EXCEPT !.pc = "fill"]
    BY <2>1 DEF HandlerState
  <2>3. g.pc = "fill" /\ g.offer = h.offer /\ handler' = [handler EXCEPT ![o][r] = g]
    BY <1>2, <2>1, <2>2 DEF Open, HandlerState
  <2>4. SameClients
    BY <1>2, OverwriteSame DEF Open
  <2>5. mu' \in [Replica -> Op \cup {None}] /\ mu'[r] = o /\ \A q \in Replica \ {r} : mu'[q] = mu[q]
    BY <1>2 DEF Open, TypeInv, TypeOK
  <2>6. \A p \in Op, q \in Replica : handler[p][q].pc = "fill" /\ (p # o \/ q # r) => mu'[q] = p
    BY <2>1, <2>5, MutexHeld, CertAssumption
  <2>7. handler' \in [Op -> [Replica -> HandlerState]] /\ Shapes'
    <3>1. Moves(o, r, g)
      BY <1>2, <2>1, <2>3, <2>5, <2>6 DEF Open, Moves
    <3>2. phase' = phase /\ h.pc # "off"
      BY <1>2, <2>1 DEF Open
    <3>3. QED  BY <2>4, <3>1, <3>2, HandlerMoves
  <2>8. disk' \in [Replica -> [Cert -> File]]
    <3>1. h.offer.cert \in Cert /\ Empty \in File
      BY <2>1, OfferFields DEF File
    <3>2. QED  BY <1>2, <3>1 DEF Open, TypeInv, TypeOK
  <2>9. QED
    BY <1>2, <2>4, <2>5, <2>7, <2>8, TypeRest DEF Open, TypeInv, TypeOK, SameClients
<1>3. CASE Fill(o, r)
  <2>1. /\ h \in HandlerState /\ h.offer \in Offer /\ h.pc = "fill" /\ h.offer.cert # None
        /\ mu[r] = o
    BY <1>3, OfferAtWork DEF Fill, TypeInv, Shapes, HandlerShape
  <2>2. PICK g \in HandlerState :
           g = [h EXCEPT !.pc = IF h.offer.svc # None THEN "configure" ELSE "list"]
    BY <2>1 DEF HandlerState
  <2>3. /\ g.pc = IF h.offer.svc # None THEN "configure" ELSE "list"
        /\ g.offer = h.offer /\ handler' = [handler EXCEPT ![o][r] = g]
    BY <1>3, <2>1, <2>2 DEF Fill, HandlerState
  <2>4. SameClients
    BY <1>1, <1>3 DEF Fill
  <2>5. mu' \in [Replica -> Op \cup {None}] /\ \A q \in Replica \ {r} : mu'[q] = mu[q]
    BY <1>3 DEF Fill, TypeInv, TypeOK
  <2>6. \A p \in Op, q \in Replica : handler[p][q].pc = "fill" /\ (p # o \/ q # r) => mu'[q] = p
    BY <2>1, <2>5, MutexHeld
  <2>7. handler' \in [Op -> [Replica -> HandlerState]] /\ Shapes'
    <3>1. Moves(o, r, g)
      BY <1>3, <2>1, <2>3, <2>5, <2>6 DEF Fill, Moves
    <3>2. phase' = phase /\ h.pc # "off"
      BY <1>3, <2>1 DEF Fill
    <3>3. QED  BY <2>4, <3>1, <3>2, HandlerMoves
  <2>8. disk' \in [Replica -> [Cert -> File]]
    <3>1. h.offer.cert \in Cert /\ h.offer.content \in File
      BY <2>1, OfferFields
    <3>2. QED  BY <1>3, <3>1 DEF Fill, TypeInv, TypeOK
  <2>9. QED
    BY <1>3, <2>4, <2>5, <2>7, <2>8, TypeRest DEF Fill, TypeInv, TypeOK, SameClients
<1>4. CASE Register(o, r)
  <2>1. h \in HandlerState /\ h.offer \in Offer /\ h.pc = "configure" /\ h.offer.version # None
    BY <1>4, OfferAtWork DEF Register
  <2>2. PICK g \in HandlerState : g = [h EXCEPT !.pc = "list"]
    BY <2>1 DEF HandlerState
  <2>3. g.pc = "list" /\ g.offer = h.offer /\ handler' = [handler EXCEPT ![o][r] = g]
    BY <1>4, <2>1, <2>2 DEF Register, HandlerState
  <2>4. SameClients
    BY <1>4, OverwriteSame DEF Register
  <2>5. handler' \in [Op -> [Replica -> HandlerState]] /\ Shapes'
    <3>1. Moves(o, r, g)
      BY <1>4, <2>1, <2>3, MutexHeld DEF Register, Moves
    <3>2. phase' = phase /\ h.pc # "off"
      BY <1>4, <2>1 DEF Register
    <3>3. QED  BY <2>4, <3>1, <3>2, HandlerMoves
  <2>6. registered' \in [Replica -> [Service -> Nat \cup {None}]]
    <3>1. h.offer.svc \in Service /\ h.offer.version \in Nat
      BY <2>1, OfferFields
    <3>2. QED  BY <1>4, <3>1 DEF Register, TypeInv, TypeOK
  <2>7. QED
    BY <1>4, <2>4, <2>5, <2>6, TypeRest DEF Register, TypeInv, TypeOK, SameClients
<1>5. CASE Unregister(o, r) /\ registered[r][handler[o][r].offer.svc] # None
  <2>1. h \in HandlerState /\ h.offer \in Offer /\ h.pc = "configure" /\ h.offer.svc # None
    BY <1>5, OfferAtWork DEF Unregister, TypeInv, Shapes, HandlerShape
  <2>2. PICK g \in HandlerState : g = [h EXCEPT !.pc = "list"]
    BY <2>1 DEF HandlerState
  <2>3. g.pc = "list" /\ g.offer = h.offer /\ handler' = [handler EXCEPT ![o][r] = g]
    BY <1>5, <2>1, <2>2 DEF Unregister, HandlerState
  <2>4. SameClients
    BY <1>5, OverwriteSame DEF Unregister
  <2>5. handler' \in [Op -> [Replica -> HandlerState]] /\ Shapes'
    <3>1. Moves(o, r, g)
      BY <1>5, <2>1, <2>3, MutexHeld DEF Unregister, Moves
    <3>2. phase' = phase /\ h.pc # "off"
      BY <1>5, <2>1 DEF Unregister
    <3>3. QED  BY <2>4, <3>1, <3>2, HandlerMoves
  <2>6. registered' \in [Replica -> [Service -> Nat \cup {None}]]
    <3>1. h.offer.svc \in Service
      BY <2>1, OfferFields
    <3>2. registered' = [registered EXCEPT ![r][h.offer.svc] = None]
      BY <1>5 DEF Unregister
    <3>3. QED  BY <3>1, <3>2 DEF TypeInv, TypeOK
  <2>7. QED
    BY <1>5, <2>4, <2>5, <2>6, TypeRest DEF Unregister, TypeInv, TypeOK, SameClients
<1>6. ASSUME NEW ok \in BOOLEAN, h.pc \in {"open", "configure", "load"}, Return(o, r, ok),
             UNCHANGED <<phase, disk, crtList, mu, joiner, registered, promise>>,
             latest' \in {latest, None}, Unfinished(o, r) \/ UNCHANGED unfinished,
             loaded' \in [Replica -> [Cert -> File]],
             routed' \in [Replica -> [Service -> Nat \cup {None}]]
      PROVE  TypeInv'
  <2>1. /\ handler' \in [Op -> [Replica -> HandlerState]] /\ client' \in [Op -> ClientState]
        /\ Shapes'
    BY <1>6, HandlerReturns
  <2>2. unfinished' \in [Op -> SUBSET Replica]
    BY <1>6, UnfinishedGrows
  <2>3. QED  BY <1>6, <2>1, <2>2, TypeRest DEF TypeInv, TypeOK
<1>7. CASE Unregister(o, r) /\ registered[r][handler[o][r].offer.svc] = None
  BY <1>6, <1>7 DEF Unregister, TypeInv, TypeOK
<1>8. CASE List(o, r)
  <2>1. h \in HandlerState /\ h.offer \in Offer /\ h.pc = "list"
    BY <1>8, OfferAtWork DEF List
  <2>2. PICK g \in HandlerState : g = [h EXCEPT !.pc = "write", !.listing = Files(disk[r])]
    BY <2>1 DEF HandlerState, Files
  <2>3. g.pc = "write" /\ g.offer = h.offer /\ handler' = [handler EXCEPT ![o][r] = g]
    BY <1>8, <2>1, <2>2 DEF List, HandlerState
  <2>4. SameClients
    BY <1>1, <1>8 DEF List
  <2>5. handler' \in [Op -> [Replica -> HandlerState]] /\ Shapes'
    <3>1. Moves(o, r, g)
      BY <1>8, <2>1, <2>3, MutexHeld DEF List, Moves
    <3>2. phase' = phase /\ h.pc # "off"
      BY <1>8, <2>1 DEF List
    <3>3. QED  BY <2>4, <3>1, <3>2, HandlerMoves
  <2>6. QED  BY <1>8, <2>4, <2>5, TypeRest DEF List, TypeInv, TypeOK, SameClients
<1>9. CASE WriteList(o, r)
  <2>1. h \in HandlerState /\ h.offer \in Offer /\ h.pc = "write"
    BY <1>9, OfferAtWork DEF WriteList
  <2>2. PICK g \in HandlerState : g = [h EXCEPT !.pc = "load", !.listing = {}]
    BY <2>1 DEF HandlerState
  <2>3. g.pc = "load" /\ g.offer = h.offer /\ handler' = [handler EXCEPT ![o][r] = g]
    BY <1>9, <2>1, <2>2 DEF WriteList, HandlerState
  <2>4. SameClients
    BY <1>1, <1>9 DEF WriteList
  <2>5. handler' \in [Op -> [Replica -> HandlerState]] /\ Shapes'
    <3>1. Moves(o, r, g)
      BY <1>9, <2>1, <2>3, MutexHeld DEF WriteList, Moves
    <3>2. phase' = phase /\ h.pc # "off"
      BY <1>9, <2>1 DEF WriteList
    <3>3. QED  BY <2>4, <3>1, <3>2, HandlerMoves
  <2>6. h.listing \in SUBSET Cert
    BY <2>1 DEF HandlerState
  <2>7. QED  BY <1>9, <2>4, <2>5, <2>6, TypeRest DEF WriteList, TypeInv, TypeOK, SameClients
<1>10. CASE Load(o, r)
  <2>1. loaded' \in [Replica -> [Cert -> File]]
    <3>1. [c \in Cert |-> IF c \in crtList[r] THEN disk[r][c] ELSE None] \in [Cert -> File]
      BY DEF TypeInv, TypeOK, File
    <3>2. QED  BY <1>10, <3>1 DEF Load, TypeInv, TypeOK
  <2>2. routed' \in [Replica -> [Service -> Nat \cup {None}]]
    BY <1>10 DEF Load, TypeInv, TypeOK
  <2>3. QED  BY <1>6, <1>10, <2>1, <2>2 DEF Load
<1>11. CASE GiveUp(o, r) /\ ~(h.offer.version # None /\ ~h.undo)
  BY <1>6, <1>11 DEF GiveUp, TypeInv, TypeOK
<1>12. CASE GiveUp(o, r) /\ h.offer.version # None /\ ~h.undo
  <2>1. h \in HandlerState /\ h.offer \in Offer /\ h.pc = "load" /\ h.offer.svc # None
    BY <1>12, OfferAtWork, OfferFields DEF GiveUp
  <2>2. PICK g \in HandlerState : g = [h EXCEPT !.pc = "configure", !.undo = TRUE]
    BY <2>1 DEF HandlerState
  <2>3. g.pc = "configure" /\ g.offer = h.offer /\ handler' = [handler EXCEPT ![o][r] = g]
    BY <1>12, <2>1, <2>2 DEF GiveUp, HandlerState
  <2>4. SameClients
    BY <1>1, <1>12 DEF GiveUp
  <2>5. handler' \in [Op -> [Replica -> HandlerState]] /\ Shapes'
    <3>1. Moves(o, r, g)
      BY <1>12, <2>1, <2>3, MutexHeld DEF GiveUp, Moves
    <3>2. phase' = phase /\ h.pc # "off"
      BY <1>12, <2>1 DEF GiveUp
    <3>3. QED  BY <2>4, <3>1, <3>2, HandlerMoves
  <2>6. QED  BY <1>12, <2>4, <2>5, TypeRest DEF GiveUp, TypeInv, TypeOK, SameClients
<1>13. CASE OpenFails(o, r) /\ h.offer.svc = None
  BY <1>6, <1>13 DEF OpenFails, TypeInv, TypeOK
<1>14. CASE OpenFails(o, r) /\ h.offer.svc # None
  <2>1. h \in HandlerState /\ h.offer \in Offer /\ h.pc = "open"
    BY <1>14, OfferAtWork DEF OpenFails
  <2>2. PICK g \in HandlerState : g = [h EXCEPT !.pc = "configure"]
    BY <2>1 DEF HandlerState
  <2>3. g.pc = "configure" /\ g.offer = h.offer /\ handler' = [handler EXCEPT ![o][r] = g]
    BY <1>14, <2>1, <2>2 DEF OpenFails, HandlerState
  <2>4. SameClients /\ unfinished' \in [Op -> SUBSET Replica]
    BY <1>1, <1>14, UnfinishedGrows DEF OpenFails
  <2>5. handler' \in [Op -> [Replica -> HandlerState]] /\ Shapes'
    <3>1. Moves(o, r, g)
      BY <1>14, <2>1, <2>3, MutexHeld DEF OpenFails, Moves
    <3>2. phase' = phase /\ h.pc # "off"
      BY <1>14, <2>1 DEF OpenFails
    <3>3. QED  BY <2>4, <3>1, <3>2, HandlerMoves
  <2>6. QED  BY <1>14, <2>4, <2>5, TypeRest DEF OpenFails, TypeInv, TypeOK, SameClients
<1>15. CASE FillFails(o, r)
  <2>1. h \in HandlerState /\ h.offer \in Offer /\ h.pc = "fill" /\ mu[r] = o
    BY <1>15, OfferAtWork DEF FillFails, TypeInv, Shapes, HandlerShape
  <2>2. PICK g \in HandlerState :
           g = [h EXCEPT !.pc = IF h.offer.svc # None THEN "configure" ELSE "list"]
    BY <2>1 DEF HandlerState
  <2>3. /\ g.pc = IF h.offer.svc # None THEN "configure" ELSE "list"
        /\ g.offer = h.offer /\ handler' = [handler EXCEPT ![o][r] = g]
    BY <1>15, <2>1, <2>2 DEF FillFails, HandlerState
  <2>4. SameClients /\ unfinished' \in [Op -> SUBSET Replica]
    BY <1>1, <1>15, UnfinishedGrows DEF FillFails
  <2>5. mu' \in [Replica -> Op \cup {None}] /\ \A q \in Replica \ {r} : mu'[q] = mu[q]
    BY <1>15 DEF FillFails, TypeInv, TypeOK
  <2>6. \A p \in Op, q \in Replica : handler[p][q].pc = "fill" /\ (p # o \/ q # r) => mu'[q] = p
    BY <2>1, <2>5, MutexHeld
  <2>7. handler' \in [Op -> [Replica -> HandlerState]] /\ Shapes'
    <3>1. Moves(o, r, g)
      BY <1>15, <2>1, <2>3, <2>5, <2>6 DEF FillFails, Moves
    <3>2. phase' = phase /\ h.pc # "off"
      BY <1>15, <2>1 DEF FillFails
    <3>3. QED  BY <2>4, <3>1, <3>2, HandlerMoves
  <2>8. QED
    BY <1>15, <2>4, <2>5, <2>7, TypeRest DEF FillFails, TypeInv, TypeOK, SameClients
<1>16. QED
  BY <1>2, <1>3, <1>4, <1>5, <1>7, <1>8, <1>9, <1>10, <1>11, <1>12, <1>13, <1>14, <1>15 DEF Handler

\* Who is not busy has no handler.
LEMMA NotBusy ==
  ASSUME TypeInv, NEW o \in Op, ~Busy(o)
  PROVE  client[o].offer = None /\ \A r \in Replica : handler[o][r].pc = "off"
  BY DEF Busy, Off

LEMMA TypeRequest ==
  ASSUME TypeInv, UNCHANGED world, NEW o \in Op, NEW f \in Offer, NEW via \in Replica,
         NEW to \in SUBSET Replica, Request(o, f, via, to)
  PROVE  TypeInv'
<1> DEFINE c == [NoClient EXCEPT !.offer = f, !.via = via, !.to = to, !.left = to]
<1>1. c \in ClientState /\ c.at = None /\ c.offer = f /\ f # None
  BY OfferFields DEF NoClient, ClientState
<1> HIDE DEF c
<1>2. /\ client' = [client EXCEPT ![o] = c] /\ promise' = [promise EXCEPT ![o] = None]
      /\ UNCHANGED <<world, replicaVars, handler>> /\ latest' \in {latest, None}
      /\ \A r \in Replica : handler[o][r].pc = "off"
  BY NotBusy DEF Request, c
<1>3. client' \in [Op -> ClientState] /\ client'[o] = c /\ \A p \in Op \ {o} : client'[p] = client[p]
  BY <1>1, <1>2 DEF TypeInv, TypeOK
<1>4. /\ promise' \in [Op -> [offer: Offer, to: SUBSET Replica] \cup {None}]
      /\ promise'[o] = None /\ \A p \in Op \ {o} : promise'[p] = promise[p]
  BY <1>2 DEF TypeInv, TypeOK
<1>5. Shapes'
  <2>1. ASSUME NEW p \in Op, NEW q \in Replica
        PROVE  HandlerShape(p, q)'
    BY <1>2 DEF TypeInv, Shapes, HandlerShape, replicaVars
  <2>2. ASSUME NEW p \in Op
        PROVE  ClientShape(p)'
    <3>1. CASE p = o
      BY <1>1, <1>2, <1>3, <1>4, <3>1 DEF ClientShape
    <3>2. CASE p # o
      BY <1>2, <1>3, <1>4, <3>2 DEF TypeInv, Shapes, ClientShape
    <3>3. QED  BY <3>1, <3>2
  <2>3. QED  BY <2>1, <2>2 DEF Shapes
<1>6. unfinished' \in [Op -> SUBSET Replica]
  BY DEF Request, TypeInv, TypeOK
<1>7. QED
  BY <1>2, <1>3, <1>4, <1>5, <1>6, TypeRest DEF TypeInv, TypeOK, replicaVars, serviceVars

LEMMA TypeSend ==
  ASSUME TypeInv, UNCHANGED world, NEW o \in Op, NEW r \in Replica, Send(o, r)
  PROVE  TypeInv'
<1> DEFINE c == client[o]
           h == [Off EXCEPT !.pc = IF c.offer.cert # None THEN "open" ELSE "configure",
                            !.offer = c.offer]
<1>1. /\ c \in ClientState /\ ClientShape(o) /\ c.offer \in Offer /\ c.offer # None
      /\ c.at = None /\ r \in c.left
  <2>1. c \in ClientState /\ ClientShape(o) /\ c.at = None /\ r \in c.left
    BY DEF Send, TypeInv, TypeOK, Shapes
  <2>2. c.offer # None
    BY <2>1 DEF ClientShape, NoClient
  <2>3. QED  BY <2>1, <2>2 DEF ClientState
<1>2. UNCHANGED <<world, replicaVars, ghostVars>>
  BY DEF Send
<1>3. CASE phase[r] = "serving"
  <2>1. /\ h \in HandlerState /\ h.offer = c.offer
        /\ h.pc = IF c.offer.cert # None THEN "open" ELSE "configure"
        /\ c.offer.cert = None => c.offer.svc # None
    BY <1>1, OfferFields DEF Off, HandlerState
  <2>2. PICK d \in ClientState :
           /\ d.at = r /\ d.offer = c.offer /\ d.left = c.left
           /\ client' = [client EXCEPT ![o] = d]
    <3>1. [c EXCEPT !.at = r] \in ClientState
      BY <1>1 DEF ClientState
    <3>2. client' = [client EXCEPT ![o] = [c EXCEPT !.at = r]]
      BY <1>3 DEF Send
    <3>3. [c EXCEPT !.at = r].at = r /\ [c EXCEPT !.at = r].offer = c.offer
          /\ [c EXCEPT !.at = r].left = c.left
      BY <1>1 DEF ClientState
    <3>4. QED  BY <3>1, <3>2, <3>3
  <2>3. handler' = [handler EXCEPT ![o][r] = h]
    BY <1>3 DEF Send
  <2> HIDE DEF h
  <2>4. /\ handler' \in [Op -> [Replica -> HandlerState]] /\ handler'[o][r] = h
        /\ \A p \in Op, q \in Replica : p # o \/ q # r => handler'[p][q] = handler[p][q]
    BY <2>1, <2>3 DEF TypeInv, TypeOK
  <2>5. client' \in [Op -> ClientState] /\ client'[o] = d /\ \A p \in Op \ {o} : client'[p] = client[p]
    BY <2>2 DEF TypeInv, TypeOK
  <2>6. Shapes'
    <3>1. ASSUME NEW p \in Op, NEW q \in Replica
          PROVE  HandlerShape(p, q)'
      <4>1. HandlerShape(p, q)
        BY DEF TypeInv, Shapes
      <4>2. UNCHANGED <<phase, mu>>
        BY <1>2 DEF replicaVars
      <4>3. CASE p = o /\ q = r
        BY <1>1, <1>3, <2>1, <2>4, <4>2, <4>3 DEF HandlerShape
      <4>4. CASE ~(p = o /\ q = r)
        BY <2>4, <4>1, <4>2, <4>4 DEF HandlerShape
      <4>5. QED  BY <4>3, <4>4
    <3>2. ASSUME NEW p \in Op
          PROVE  ClientShape(p)'
      <4>1. ClientShape(p) /\ client[p].at \in Replica \cup {None} /\ promise'[p] = promise[p]
        BY <1>2 DEF TypeInv, Shapes, TypeOK, ClientState, ghostVars
      <4>2. CASE p = o
        <5>1. client'[o].at = r /\ client'[o].offer = c.offer /\ r \in client'[o].left
          BY <1>1, <2>2, <2>5
        <5>2. handler'[o][r].pc # "off" /\ handler'[o][r].offer = c.offer
          BY <2>1, <2>4
        <5>3. \A q \in Replica : handler'[o][q].pc # "off" => q = r
          BY <1>1, <2>4, CertAssumption DEF ClientShape
        <5>4. promise'[o] = None
          BY <1>1, <4>1, <4>2 DEF ClientShape
        <5>5. QED  BY <1>1, <4>2, <5>1, <5>2, <5>3, <5>4 DEF ClientShape
      <4>3. CASE p # o
        BY <2>4, <2>5, <4>1, <4>3 DEF ClientShape
      <4>4. QED  BY <4>2, <4>3
    <3>3. QED  BY <3>1, <3>2 DEF Shapes
  <2>7. QED
    BY <1>2, <2>4, <2>5, <2>6, TypeRest DEF TypeInv, TypeOK, replicaVars, serviceVars, ghostVars
<1>4. CASE phase[r] # "serving"
  <2>1. PICK d \in ClientState :
           /\ d.at = None /\ d.offer = c.offer /\ client' = [client EXCEPT ![o] = d]
    <3>1. [c EXCEPT !.left = c.left \ {r}, !.failed = TRUE] \in ClientState
      BY <1>1 DEF ClientState
    <3>2. client' = [client EXCEPT ![o] = [c EXCEPT !.left = c.left \ {r}, !.failed = TRUE]]
      BY <1>4 DEF Send
    <3>3. /\ [c EXCEPT !.left = c.left \ {r}, !.failed = TRUE].at = None
          /\ [c EXCEPT !.left = c.left \ {r}, !.failed = TRUE].offer = c.offer
      BY <1>1 DEF ClientState
    <3>4. QED  BY <3>1, <3>2, <3>3
  <2>2. handler' = handler
    BY <1>4 DEF Send
  <2>3. client' \in [Op -> ClientState] /\ client'[o] = d /\ \A p \in Op \ {o} : client'[p] = client[p]
    BY <2>1 DEF TypeInv, TypeOK
  <2>4. Shapes'
    <3>1. ASSUME NEW p \in Op, NEW q \in Replica
          PROVE  HandlerShape(p, q)'
      BY <1>2, <2>2 DEF TypeInv, Shapes, HandlerShape, replicaVars
    <3>2. ASSUME NEW p \in Op
          PROVE  ClientShape(p)'
      <4>1. ClientShape(p) /\ promise'[p] = promise[p]
        BY <1>2 DEF TypeInv, Shapes, ghostVars
      <4>2. CASE p = o
        <5>1. client'[o].at = None /\ client'[o].offer = c.offer
          BY <2>1, <2>3
        <5>2. promise'[o] = promise[o]
          BY <4>1, <4>2
        <5>3. QED  BY <1>1, <2>2, <4>2, <5>1, <5>2 DEF ClientShape
      <4>3. CASE p # o
        BY <2>2, <2>3, <4>1, <4>3 DEF ClientShape
      <4>4. QED  BY <4>2, <4>3
    <3>3. QED  BY <3>1, <3>2 DEF Shapes
  <2>5. QED
    BY <1>2, <2>2, <2>3, <2>4, TypeRest DEF TypeInv, TypeOK, replicaVars, serviceVars, ghostVars
<1>5. QED  BY <1>3, <1>4

LEMMA TypeReply ==
  ASSUME TypeInv, UNCHANGED world, NEW o \in Op, Reply(o)
  PROVE  TypeInv'
<1> DEFINE c == client[o]
<1>1. c \in ClientState /\ c.offer \in Offer /\ c.left = {} /\ c.offer # None /\ ClientShape(o)
  BY DEF Reply, TypeInv, TypeOK, Shapes, ClientState
<1>2. \A q \in Replica : handler[o][q].pc = "off"
  BY <1>1, CertAssumption DEF ClientShape, ClientState
<1>3. client' = [client EXCEPT ![o] = NoClient] /\ UNCHANGED <<world, replicaVars, handler>>
  BY DEF Reply
<1>4. PICK k \in [offer: Offer, to: SUBSET Replica] \cup {None} : promise' = [promise EXCEPT ![o] = k]
  <2>1. [offer |-> c.offer, to |-> c.to] \in [offer: Offer, to: SUBSET Replica]
    BY <1>1 DEF ClientState
  <2>2. QED  BY <2>1 DEF Reply, Kept
<1>5. latest' \in [Cert -> File] \cup {None}
  <2>1. c.offer.cert # None => c.offer.cert \in Cert /\ c.offer.content \in File
    BY <1>1, OfferFields
  <2>2. QED  BY <2>1 DEF Reply, TypeInv, TypeOK
<1>6. /\ client' \in [Op -> ClientState] /\ client'[o] = NoClient
      /\ \A p \in Op \ {o} : client'[p] = client[p] /\ promise'[p] = promise[p]
      /\ promise' \in [Op -> [offer: Offer, to: SUBSET Replica] \cup {None}]
  <2>1. NoClient \in ClientState
    BY DEF NoClient, ClientState
  <2>2. QED  BY <1>3, <1>4, <2>1 DEF TypeInv, TypeOK
<1>7. Shapes'
  <2>1. ASSUME NEW p \in Op, NEW q \in Replica
        PROVE  HandlerShape(p, q)'
    BY <1>3 DEF TypeInv, Shapes, HandlerShape, replicaVars
  <2>2. ASSUME NEW p \in Op
        PROVE  ClientShape(p)'
    <3>1. CASE p = o
      BY <1>2, <1>3, <1>6, <3>1 DEF ClientShape, NoClient
    <3>2. CASE p # o
      BY <1>3, <1>6, <3>2 DEF TypeInv, Shapes, ClientShape
    <3>3. QED  BY <3>1, <3>2
  <2>3. QED  BY <2>1, <2>2 DEF Shapes
<1>8. UNCHANGED <<phase, disk, crtList, loaded, mu, joiner, registered, routed, handler, unfinished>>
  BY <1>3 DEF replicaVars, serviceVars, Reply
<1>9. QED
  BY <1>5, <1>6, <1>7, <1>8, TypeRest DEF TypeInv, TypeOK

\* What is left of a client, and of a promise, when a replica is gone.
Crashed(c, r) ==
    IF c.via = r THEN NoClient
    ELSE IF c.at = r THEN [c EXCEPT !.at = None, !.left = c.left \ {r}, !.to = c.to \ {r},
                                    !.failed = TRUE]
    ELSE [c EXCEPT !.to = c.to \ {r}]

LEMMA CrashedClient ==
  ASSUME NEW c \in ClientState, NEW r \in Replica
  PROVE  /\ Crashed(c, r) \in ClientState
         /\ \/ Crashed(c, r) = NoClient
            \/ /\ Crashed(c, r).offer = c.offer
               /\ Crashed(c, r).to = c.to \ {r}
               /\ \/ c.at = r /\ Crashed(c, r).at = None /\ Crashed(c, r).failed
                  \/ /\ c.at # r /\ Crashed(c, r).at = c.at /\ Crashed(c, r).left = c.left
                     /\ Crashed(c, r).failed = c.failed
<1>1. CASE c.via = r
  BY <1>1 DEF Crashed, NoClient, ClientState
<1>2. CASE c.via # r /\ c.at = r
  BY <1>2 DEF Crashed, ClientState
<1>3. CASE c.via # r /\ c.at # r
  BY <1>3 DEF Crashed, ClientState
<1>4. QED  BY <1>1, <1>2, <1>3

LEMMA CrashEffect ==
  ASSUME TypeInv, NEW r \in Replica, Crash(r)
  PROVE  /\ handler' \in [Op -> [Replica -> HandlerState]]
         /\ \A p \in Op, q \in Replica : handler'[p][q] = IF q = r THEN Off ELSE handler[p][q]
         /\ client' \in [Op -> ClientState]
         /\ \A p \in Op : client'[p] = Crashed(client[p], r)
         /\ promise' \in [Op -> [offer: Offer, to: SUBSET Replica] \cup {None}]
         /\ \A p \in Op : \/ promise'[p] = None
                          \/ /\ promise[p] # None /\ promise'[p].offer = promise[p].offer
                             /\ promise'[p].to = promise[p].to \ {r}
<1>1. /\ handler' \in [Op -> [Replica -> HandlerState]]
      /\ \A p \in Op, q \in Replica : handler'[p][q] = IF q = r THEN Off ELSE handler[p][q]
  <2>1. Off \in HandlerState
    BY DEF Off, HandlerState
  <2>2. handler' = [p \in Op |-> [handler[p] EXCEPT ![r] = Off]]
    BY DEF Crash
  <2>3. QED  BY <2>1, <2>2 DEF TypeInv, TypeOK
<1>2. client' \in [Op -> ClientState] /\ \A p \in Op : client'[p] = Crashed(client[p], r)
  <2>1. client' = [p \in Op |-> Crashed(client[p], r)]
    BY DEF Crash, Crashed
  <2>2. \A p \in Op : Crashed(client[p], r) \in ClientState
    BY CrashedClient DEF TypeInv, TypeOK
  <2>3. QED  BY <2>1, <2>2
<1>3. /\ promise' \in [Op -> [offer: Offer, to: SUBSET Replica] \cup {None}]
      /\ \A p \in Op : \/ promise'[p] = None
                       \/ /\ promise[p] # None /\ promise'[p].offer = promise[p].offer
                          /\ promise'[p].to = promise[p].to \ {r}
  <2>1. promise' = [p \in Op |-> IF promise[p] = None THEN None
                                  ELSE Kept([promise[p] EXCEPT !.to = promise[p].to \ {r}])]
    BY DEF Crash
  <2>2. QED  BY <2>1 DEF TypeInv, TypeOK, Kept
<1>4. QED  BY <1>1, <1>2, <1>3

LEMMA TypeCrash ==
  ASSUME TypeInv, UNCHANGED world, NEW r \in Replica, Crash(r)
  PROVE  TypeInv'
<1>1. /\ phase' = [phase EXCEPT ![r] = "down"] /\ mu' = [mu EXCEPT ![r] = None]
      /\ disk' = [disk EXCEPT ![r] = NoFiles] /\ loaded' = [loaded EXCEPT ![r] = NoFiles]
      /\ crtList' = [crtList EXCEPT ![r] = {}] /\ joiner' = [joiner EXCEPT ![r] = NoJoin]
      /\ registered' = [registered EXCEPT ![r] = NoServices]
      /\ routed' = [routed EXCEPT ![r] = NoServices]
      /\ unfinished' = unfinished /\ (latest' = latest \/ latest' = None)
  BY DEF Crash
<1>2. NoFiles \in [Cert -> File] /\ NoServices \in [Service -> Nat \cup {None}]
  BY DEF NoFiles, NoServices, File
<1>3. NoJoin \in [left: SUBSET Replica, best: [Cert -> File]]
  BY <1>2 DEF NoJoin
<1>4. Shapes'
  <2>1. ASSUME NEW p \in Op, NEW q \in Replica
        PROVE  HandlerShape(p, q)'
    <3>1. HandlerShape(p, q)
      BY DEF TypeInv, Shapes
    <3>2. CASE q = r
      <4>1. handler'[p][q] = Off
        BY <3>2, CrashEffect
      <4>2. Off.pc = "off"
        BY DEF Off
      <4>3. QED  BY <4>1, <4>2 DEF HandlerShape
    <3>3. CASE q # r
      <4>1. phase'[q] = phase[q] /\ mu'[q] = mu[q] /\ handler'[p][q] = handler[p][q]
        BY <1>1, <3>3, CrashEffect DEF TypeInv, TypeOK
      <4>2. QED  BY <3>1, <4>1 DEF HandlerShape
    <3>4. QED  BY <3>2, <3>3
  <2>2. ASSUME NEW p \in Op
        PROVE  ClientShape(p)'
    <3>1. ClientShape(p) /\ client[p] \in ClientState /\ client[p].at \in Replica \cup {None}
      BY DEF TypeInv, Shapes, TypeOK, ClientState
    <3>2. \A q \in Replica : /\ handler'[p][q].pc # "off" => handler[p][q].pc # "off" /\ q # r
                             /\ q # r => handler'[p][q] = handler[p][q]
      BY CrashEffect DEF Off
    <3>3. promise[p] = None => promise'[p] = None
      BY CrashEffect
    <3>4. CASE client'[p] = NoClient
      BY <3>1, <3>2, <3>3, <3>4 DEF ClientShape, NoClient
    <3>5. CASE client'[p] # NoClient
      <4>1. /\ client'[p].offer = client[p].offer
            /\ \/ client[p].at = r /\ client'[p].at = None
               \/ client[p].at # r /\ client'[p].at = client[p].at /\ client'[p].left = client[p].left
        BY <3>1, <3>5, CrashEffect, CrashedClient
      <4>2. client[p].offer # None
        <5>1. Crashed(NoClient, r) = NoClient
          <6>1. NoClient.via # r /\ NoClient.at # r
            BY CertAssumption DEF NoClient
          <6>2. [NoClient EXCEPT !.to = NoClient.to \ {r}] = NoClient
            <7>1. NoClient.to \ {r} = {}
              BY DEF NoClient
            <7>2. NoClient \in [{"offer", "via", "to", "left", "at", "failed"} ->
                                {NoClient[k] : k \in {"offer", "via", "to", "left", "at", "failed"}}]
              BY DEF NoClient
            <7>3. NoClient.to = {}
              BY DEF NoClient
            <7>4. QED  BY <7>1, <7>2, <7>3
          <6>3. QED  BY <6>1, <6>2 DEF Crashed
        <5>2. client'[p] = Crashed(client[p], r)
          BY CrashEffect
        <5>3. QED  BY <3>1, <3>5, <5>1, <5>2 DEF ClientShape
      <4>3. QED  BY <3>1, <3>2, <3>3, <4>1, <4>2 DEF ClientShape
    <3>6. QED  BY <3>4, <3>5
  <2>3. QED  BY <2>1, <2>2 DEF Shapes
<1>5. QED
  BY <1>1, <1>2, <1>3, <1>4, CrashEffect, TypeRest DEF TypeInv, TypeOK

LEMMA TypeJoiner ==
  ASSUME TypeInv, UNCHANGED world, NEW r \in Replica,
         \/ \E to \in SUBSET Replica : Start(r, to)
         \/ \E q \in Replica : Ask(r, q)
         \/ Join(r) \/ JoinPartly(r)
  PROVE  TypeInv'
<1>1. /\ UNCHANGED <<mu, registered, routed, client, handler, promise, unfinished>>
      /\ latest' = latest \/ latest' = None
      /\ phase[r] # "serving" /\ \A q \in Replica \ {r} : phase'[q] = phase[q]
  BY DEF Start, Ask, Join, JoinPartly, Listen, serviceVars, ghostVars, TypeInv, TypeOK
<1>2. Shapes'
  <2>1. ASSUME NEW p \in Op, NEW q \in Replica
        PROVE  HandlerShape(p, q)'
    BY <1>1 DEF TypeInv, Shapes, HandlerShape
  <2>2. ASSUME NEW p \in Op
        PROVE  ClientShape(p)'
    BY <1>1 DEF TypeInv, Shapes, ClientShape
  <2>3. QED  BY <2>1, <2>2 DEF Shapes
<1>3. ASSUME NEW to \in SUBSET Replica, Start(r, to)
      PROVE  TypeInv'
  <2>1. [NoJoin EXCEPT !.left = to] \in [left: SUBSET Replica, best: [Cert -> File]]
    BY DEF NoJoin, NoFiles, File
  <2>2. joiner' \in [Replica -> [left: SUBSET Replica, best: [Cert -> File]]]
    BY <1>3, <2>1 DEF Start, TypeInv, TypeOK
  <2>3. QED  BY <1>1, <1>2, <1>3, <2>2, TypeRest DEF Start, TypeInv, TypeOK
<1>4. ASSUME NEW q \in Replica, Ask(r, q)
      PROVE  TypeInv'
  <2>1. GetAll(q) \in [Cert -> File] /\ joiner[r] \in [left: SUBSET Replica, best: [Cert -> File]]
    BY DEF GetAll, NoFiles, File, TypeInv, TypeOK
  <2>2. PICK j \in [left: SUBSET Replica, best: [Cert -> File]] : joiner' = [joiner EXCEPT ![r] = j]
    <3>1. [left |-> joiner[r].left \ {q},
           best |-> IF Cardinality(Files(GetAll(q))) > Cardinality(Files(joiner[r].best))
                    THEN GetAll(q) ELSE joiner[r].best] \in [left: SUBSET Replica, best: [Cert -> File]]
      BY <2>1
    <3>2. QED  BY <1>4, <3>1 DEF Ask
  <2>3. QED  BY <1>1, <1>2, <1>4, <2>2, TypeRest DEF Ask, TypeInv, TypeOK
<1>5. ASSUME NEW d \in [Cert -> File], Listen(r, d)
      PROVE  TypeInv'
  <2>1. Files(d) \in SUBSET Cert /\ NoJoin \in [left: SUBSET Replica, best: [Cert -> File]]
    BY DEF Files, NoJoin, NoFiles, File
  <2>2. /\ disk' \in [Replica -> [Cert -> File]] /\ loaded' \in [Replica -> [Cert -> File]]
        /\ crtList' \in [Replica -> SUBSET Cert]
        /\ joiner' \in [Replica -> [left: SUBSET Replica, best: [Cert -> File]]]
        /\ phase' \in [Replica -> {"down", "starting", "serving"}]
    BY <1>5, <2>1 DEF Listen, TypeInv, TypeOK
  <2>3. QED  BY <1>1, <1>2, <2>2, TypeRest DEF TypeInv, TypeOK
<1>6. joiner[r].best \in [Cert -> File]
  BY DEF TypeInv, TypeOK
<1>7. CASE Join(r)
  BY <1>5, <1>6, <1>7 DEF Join
<1>8. CASE JoinPartly(r)
  <2>1. PICK missing, torn \in SUBSET Files(joiner[r].best) :
           Listen(r, [c \in Cert |-> IF c \in missing THEN None ELSE IF c \in torn THEN Empty
                                    ELSE joiner[r].best[c]])
    BY <1>8 DEF JoinPartly
  <2>2. [c \in Cert |-> IF c \in missing THEN None ELSE IF c \in torn THEN Empty
                       ELSE joiner[r].best[c]] \in [Cert -> File]
    BY <1>6 DEF File
  <2>3. QED  BY <1>5, <2>1, <2>2
<1>9. QED  BY <1>3, <1>4, <1>7, <1>8

LEMMA CertTypeStep == TypeInv /\ [Next]_vars => TypeInv'
<1> SUFFICES ASSUME TypeInv, [Next]_vars  PROVE TypeInv'
  OBVIOUS
<1>1. CASE UNCHANGED vars
  BY <1>1 DEF vars, replicaVars, serviceVars, ghostVars, TypeInv, TypeOK, Shapes, HandlerShape,
     ClientShape
<1>2. CASE Next
  <2>1. UNCHANGED world /\ Step /\ world.replicas \subseteq Replica /\ world.offers \subseteq Offer
    BY <1>2, WorldFields DEF Next, TypeInv
  <2>2. ASSUME NEW o \in Op, NEW f \in world.offers, NEW r \in world.replicas,
               NEW to \in SUBSET world.replicas, Request(o, f, r, to)
        PROVE  TypeInv'
    <3>1. f \in Offer /\ r \in Replica /\ to \in SUBSET Replica
      BY <2>1
    <3>2. QED  BY <2>1, <2>2, <3>1, TypeRequest
  <2>3. ASSUME NEW o \in Op, NEW r \in world.replicas, Send(o, r) \/ Handler(o, r)
        PROVE  TypeInv'
    BY <2>1, <2>3, TypeSend, TypeHandler
  <2>4. ASSUME NEW o \in Op, Reply(o)
        PROVE  TypeInv'
    BY <2>1, <2>4, TypeReply
  <2>5. ASSUME NEW r \in world.replicas, Crash(r) \/ Join(r) \/ JoinPartly(r)
        PROVE  TypeInv'
    BY <2>1, <2>5, TypeCrash, TypeJoiner
  <2>6. ASSUME NEW r \in world.replicas, NEW to \in SUBSET (world.replicas \ {r}), Start(r, to)
        PROVE  TypeInv'
    <3>1. r \in Replica /\ to \in SUBSET Replica
      BY <2>1
    <3>2. QED  BY <2>1, <2>6, <3>1, TypeJoiner
  <2>7. ASSUME NEW r \in world.replicas, NEW q \in world.replicas, Ask(r, q)
        PROVE  TypeInv'
    <3>1. r \in Replica /\ q \in Replica
      BY <2>1
    <3>2. QED  BY <2>1, <2>7, <3>1, TypeJoiner
  <2>8. QED  BY <2>1, <2>2, <2>3, <2>4, <2>5, <2>6, <2>7 DEF Step
<1>3. QED  BY <1>1, <1>2

\* However requests, handlers, crashes and restarts interleave, the variables of
\* cert.go, of the handlers and of sendDistributeRequests hold what the code can
\* hold, and a sender waits only for a replica that works for it.
THEOREM CertTypeCorrect == Spec => []TypeOK
<1>1. TypeInv => TypeOK
  BY DEF TypeInv
<1>2. QED  BY CertTypeInit, CertTypeStep, <1>1, PTL DEF Spec

--------------------------------------------------------------------------------
(* What OK means *)

\* Replica r has what the request f asks for: the certificate, which nobody is
\* writing; the service; and its route, or none.
HasCert(f, r) ==
    f.cert # None =>
        /\ disk[r][f.cert] = f.content
        /\ \A p \in Op : handler[p][r].pc = "fill" => handler[p][r].offer.cert # f.cert
HasService(f, r) == f.svc # None => registered[r][f.svc] = f.version
HasRoute(f, r)   == f.svc # None => routed[r][f.svc] = f.version

\* It has what it has not left unfinished for o.
Has(o, f, r) ==
    /\ phase[r] = "serving" /\ HasService(f, r)
    /\ HasCert(f, r) \/ r \in unfinished[o]
    /\ HasRoute(f, r) \/ (f.version = None /\ r \in unfinished[o])

\* What was promised holds where nothing has undone it.
PromiseKept(o, f) ==
    promise[o] # None /\ promise[o].offer = f => \A r \in promise[o].to : Has(o, f, r)

\* A replica that has answered, and has not failed, has what the client waits
\* for, and one that is at work has what its handler has done so far; both
\* unless another request has overwritten it.
AnswerHolds(o, f) ==
    client[o].offer = f /\ ~client[o].failed =>
        \A r \in client[o].to \ client[o].left : Has(o, f, r)

Waits(o, f, r) == client[o].offer = f /\ client[o].at = r /\ r \in client[o].to

WorkHolds(o, f) ==
    \A r \in Replica : Waits(o, f, r) /\ ~handler[o][r].undo =>
        /\ handler[o][r].pc \in {"configure", "list", "write", "load"} =>
              HasCert(f, r) \/ r \in unfinished[o]
        /\ handler[o][r].pc \in {"list", "write", "load"} => HasService(f, r)

OkInv == \A o \in Op, f \in Offer : PromiseKept(o, f) /\ AnswerHolds(o, f) /\ WorkHolds(o, f)

LEMMA OkInit == Init => OkInv
  BY CertAssumption DEF Init, OkInv, PromiseKept, AnswerHolds, WorkHolds, Waits, NoClient

\* Nothing happens on replica q.
Elsewhere(q) ==
    /\ phase'[q] = phase[q] /\ disk'[q] = disk[q]
    /\ registered'[q] = registered[q] /\ routed'[q] = routed[q]
    /\ \A p \in Op : /\ handler'[p][q] = handler[p][q]
                     /\ unfinished[p] \subseteq unfinished'[p]

\* What f asked for stays on q.
Spares(f, q) ==
    /\ HasCert(f, q) => HasCert(f, q)'
    /\ HasService(f, q) => HasService(f, q)'
    /\ \A p \in Op : /\ Has(p, f, q) => Has(p, f, q)'
                     /\ q \in unfinished[p] => q \in unfinished'[p]

LEMMA ElsewhereSpared ==
  ASSUME NEW f \in Offer, NEW q \in Replica, Elsewhere(q)
  PROVE  Spares(f, q)
  BY DEF Elsewhere, Spares, Has, HasCert, HasService, HasRoute

\* A client whose handlers did nothing keeps what it has, and what it was
\* promised, where that was spared.
LEMMA OkOthers ==
  ASSUME TypeInv, OkInv, NEW p \in Op, NEW f \in Offer,
         \A q \in Replica : handler'[p][q] = handler[p][q],
         SameClients,
         \A q \in Replica : q \in client'[p].to /\ client[p].offer = f => Spares(f, q),
         \A q \in Replica : promise'[p] # None /\ q \in promise'[p].to /\ promise'[p].offer = f
                            => Spares(f, q)
  PROVE  PromiseKept(p, f)' /\ AnswerHolds(p, f)' /\ WorkHolds(p, f)'
<1>1. /\ \/ client'[p] = client[p]
         \/ /\ client'[p].offer = client[p].offer /\ client'[p].left = client[p].left
            /\ client'[p].at = client[p].at /\ client'[p].failed = client[p].failed
            /\ client'[p].to \subseteq client[p].to
      /\ \/ promise'[p] = promise[p] \/ promise'[p] = None
         \/ /\ promise[p] # None /\ promise'[p].offer = promise[p].offer
            /\ promise'[p].to \subseteq promise[p].to
      /\ client'[p].to \subseteq Replica
      /\ promise'[p] # None => promise'[p].to \subseteq Replica
  BY DEF SameClients, ClientState
<1>2. PromiseKept(p, f) /\ AnswerHolds(p, f) /\ WorkHolds(p, f)
  BY DEF OkInv
<1>3. PromiseKept(p, f)'
  BY <1>1, <1>2 DEF PromiseKept, Spares
<1>4. AnswerHolds(p, f)'
  BY <1>1, <1>2 DEF AnswerHolds, Spares
<1>5. WorkHolds(p, f)'
  BY <1>1, <1>2 DEF WorkHolds, Waits, Spares
<1>6. QED  BY <1>3, <1>4, <1>5

\* The requests f that somebody other than o relies on where o works.
Relied(f, o, r) ==
    \E p \in Op \ {o} : \/ client[p].offer = f /\ r \in client'[p].to
                        \/ promise'[p] # None /\ promise'[p].offer = f /\ r \in promise'[p].to

\* A handler goes on, spares what others rely on, and has what it claims.
LEMMA OkMoves ==
  ASSUME TypeInv, OkInv, SameClients, NEW o \in Op, NEW r \in Replica, NEW g,
         handler[o][r].pc # "off", Moves(o, r, g), client'[o] = client[o],
         \A q \in Replica \ {r} : Elsewhere(q),
         \A f \in Offer : Relied(f, o, r) => Spares(f, r),
         \A f \in Offer : Waits(o, f, r) /\ handler[o][r].offer = f /\ ~g.undo =>
            /\ g.pc \in {"configure", "list", "write", "load"} =>
                  HasCert(f, r)' \/ r \in unfinished'[o]
            /\ g.pc \in {"list", "write", "load"} => HasService(f, r)'
  PROVE  OkInv'
<1> SUFFICES ASSUME NEW p \in Op, NEW f \in Offer
             PROVE  PromiseKept(p, f)' /\ AnswerHolds(p, f)' /\ WorkHolds(p, f)'
  BY DEF OkInv
<1>1. /\ \A q \in Replica : p # o \/ q # r => handler'[p][q] = handler[p][q]
      /\ handler'[o][r] = g
  BY DEF Moves, TypeInv, TypeOK
<1>2. f # None /\ r # None
  BY OfferFields, CertAssumption
<1>3. CASE p # o
  BY <1>1, <1>3, OkOthers, ElsewhereSpared DEF Relied
<1>4. CASE p = o
  <2>1. ClientShape(o) /\ client[o] \in ClientState
    BY DEF TypeInv, Shapes, TypeOK
  <2>2. promise'[o] = None
    BY <2>1 DEF ClientShape, SameClients
  <2>3. PromiseKept(p, f)'
    BY <1>4, <2>2 DEF PromiseKept
  <2>4. AnswerHolds(p, f)'
    <3>1. AnswerHolds(o, f)
      BY DEF OkInv
    <3>2. client[o].offer = f => client[o].at = r /\ r \in client[o].left
      BY <1>2, <2>1, CertAssumption DEF ClientShape
    <3>3. client[o].to \subseteq Replica
      BY <2>1 DEF ClientState
    <3>4. QED  BY <1>4, <3>1, <3>2, <3>3, ElsewhereSpared DEF AnswerHolds, Spares
  <2>5. WorkHolds(p, f)'
    <3>1. WorkHolds(o, f)
      BY DEF OkInv
    <3>2. client[o].offer = f => client[o].at = r /\ handler[o][r].offer = f
      BY <1>2, <2>1, CertAssumption DEF ClientShape
    <3>3. ASSUME NEW q \in Replica, Waits(o, f, q)'
          PROVE  q = r /\ handler[o][r].offer = f /\ Waits(o, f, r)
      BY <3>2, <3>3 DEF Waits
    <3>4. QED  BY <1>1, <1>4, <3>3 DEF WorkHolds
  <2>6. QED  BY <2>3, <2>4, <2>5
<1>5. QED  BY <1>3, <1>4

\* A handler answers, changed nothing that others rely on, and has what was asked
\* for if it says OK.
LEMMA OkReturns ==
  ASSUME TypeInv, OkInv, NEW o \in Op, NEW r \in Replica, NEW ok \in BOOLEAN,
         handler[o][r].pc # "off", Return(o, r, ok), UNCHANGED promise,
         \A p \in Op : unfinished[p] \subseteq unfinished'[p],
         \A q \in Replica \ {r} : phase'[q] = phase[q] /\ disk'[q] = disk[q]
            /\ registered'[q] = registered[q] /\ routed'[q] = routed[q],
         \A f \in Offer : Spares(f, r),
         \A f \in Offer : Waits(o, f, r) /\ handler[o][r].offer = f /\ ok => Has(o, f, r)'
  PROVE  OkInv'
<1>1. \A p \in Op, q \in Replica : handler'[p][q] = IF p = o /\ q = r THEN Off ELSE handler[p][q]
  BY DEF Return, TypeInv, TypeOK
<1>2. \A q \in Replica \ {r} : Elsewhere(q)
  BY <1>1 DEF Elsewhere
<1>3. \A f \in Offer, q \in Replica : Spares(f, q)
  BY <1>2, ElsewhereSpared
<1>4. SUFFICES ASSUME NEW p \in Op, NEW f \in Offer
               PROVE  PromiseKept(p, f)' /\ AnswerHolds(p, f)' /\ WorkHolds(p, f)'
  BY DEF OkInv
<1>5. PromiseKept(p, f) /\ AnswerHolds(p, f) /\ WorkHolds(p, f)
  BY DEF OkInv
<1>6. f # None /\ r # None /\ None \notin Replica
  BY OfferFields, CertAssumption
<1>7. ClientShape(p) /\ client[p] \in ClientState /\ client[p].to \subseteq Replica
  BY DEF TypeInv, Shapes, TypeOK, ClientState
<1>8. PromiseKept(p, f)'
  <2>1. promise'[p] # None => promise'[p].to \subseteq Replica
    BY DEF TypeInv, TypeOK
  <2>2. QED  BY <1>3, <1>5, <2>1 DEF PromiseKept, Spares
<1>9. CASE p # o \/ client[o].at # r
  <2>1. client'[p] = client[p]
    BY <1>9 DEF Return, TypeInv, TypeOK
  <2>2. AnswerHolds(p, f)'
    BY <1>3, <1>5, <1>7, <2>1 DEF AnswerHolds, Spares
  <2>3. WorkHolds(p, f)'
    BY <1>1, <1>3, <1>5, <1>9, <2>1 DEF WorkHolds, Waits, Spares
  <2>4. QED  BY <1>8, <2>2, <2>3
<1>10. CASE p = o /\ client[o].at = r
  <2>1. /\ client'[o].at = None /\ client'[o].to = client[o].to /\ client'[o].offer = client[o].offer
        /\ client'[o].left = client[o].left \ {r} /\ client'[o].failed = (client[o].failed \/ ~ok)
    <3>1. client' = [client EXCEPT ![o] =
                       [client[o] EXCEPT !.at = None, !.left = client[o].left \ {r},
                                         !.failed = client[o].failed \/ ~ok]]
      BY <1>10 DEF Return
    <3>2. client[o] \in ClientState
      BY <1>7, <1>10
    <3>3. QED  BY <3>1, <3>2 DEF ClientState, TypeInv, TypeOK
  <2>2. AnswerHolds(p, f)'
    <3>1. SUFFICES ASSUME client[o].offer = f, ~client[o].failed, ok,
                          NEW q \in client[o].to, q \notin client[o].left \ {r}
                   PROVE  Has(o, f, q)'
      BY <1>10, <2>1 DEF AnswerHolds
    <3>2. q \in Replica /\ handler[o][r].offer = f
      BY <1>6, <1>7, <1>10, <3>1 DEF ClientShape
    <3>3. CASE q = r
      BY <1>10, <3>1, <3>2, <3>3 DEF Waits
    <3>4. CASE q # r
      BY <1>3, <1>5, <1>10, <3>1, <3>2, <3>4 DEF AnswerHolds, Spares
    <3>5. QED  BY <3>3, <3>4
  <2>3. WorkHolds(p, f)'
    BY <1>6, <1>10, <2>1 DEF WorkHolds, Waits
  <2>4. QED  BY <1>8, <2>2, <2>3
<1>11. QED  BY <1>9, <1>10

\* Who handles another request for the same certificate or service is not relied
\* on any more.
Clash(f, g) == \/ f.cert = g.cert /\ g.cert # None
               \/ f.svc = g.svc /\ g.svc # None

LEMMA OverwriteClears ==
  ASSUME TypeInv, NEW o \in Op, NEW r \in Replica, Overwrite(o, r)
  PROVE  /\ client'[o] = client[o]
         /\ \A f \in Offer : Relied(f, o, r) => ~Clash(f, handler[o][r].offer)
<1> DEFINE Same(f) == f # None /\ \/ f.cert = handler[o][r].offer.cert /\ handler[o][r].offer.cert # None
                                  \/ f.svc = handler[o][r].offer.svc /\ handler[o][r].offer.svc # None
<1>1. /\ client' = [p \in Op |-> IF p # o /\ Same(client[p].offer)
                                 THEN [client[p] EXCEPT !.to = client[p].to \ {r}] ELSE client[p]]
      /\ promise' = [p \in Op |-> IF p # o /\ promise[p] # None /\ Same(promise[p].offer)
                                  THEN Kept([promise[p] EXCEPT !.to = promise[p].to \ {r}])
                                  ELSE promise[p]]
  BY DEF Overwrite
<1>2. ASSUME NEW f \in Offer, Relied(f, o, r), Clash(f, handler[o][r].offer)
      PROVE  FALSE
  <2>1. Same(f)
    BY <1>2, OfferFields DEF Clash
  <2>2. PICK p \in Op \ {o} :
           \/ client[p].offer = f /\ r \in client'[p].to
           \/ promise'[p] # None /\ promise'[p].offer = f /\ r \in promise'[p].to
    BY <1>2 DEF Relied
  <2>3. CASE client[p].offer = f /\ r \in client'[p].to
    <3>1. client'[p] = [client[p] EXCEPT !.to = client[p].to \ {r}]
      BY <1>1, <2>1, <2>3
    <3>2. client[p] \in ClientState
      BY DEF TypeInv, TypeOK
    <3>3. QED  BY <2>3, <3>1, <3>2 DEF ClientState
  <2>4. CASE promise'[p] # None /\ promise'[p].offer = f /\ r \in promise'[p].to
    <3>1. promise[p] # None /\ promise[p].offer = f
      BY <2>4, OverwriteSame DEF SameClients
    <3>2. promise[p] \in [offer: Offer, to: SUBSET Replica]
      BY <3>1 DEF TypeInv, TypeOK
    <3>3. promise'[p] = Kept([promise[p] EXCEPT !.to = promise[p].to \ {r}])
      BY <1>1, <2>1, <3>1
    <3>4. QED  BY <2>4, <3>2, <3>3 DEF Kept
  <2>5. QED  BY <2>2, <2>3, <2>4
<1>3. client'[o] = client[o]
  BY <1>1
<1>4. QED  BY <1>2, <1>3

\* Nothing is lost on r when what f names is as before, and nobody starts to write
\* its certificate.
LEMMA SparesIf ==
  ASSUME NEW f \in Offer, NEW r \in Replica, phase'[r] = phase[r],
         f.cert # None => /\ disk'[r][f.cert] = disk[r][f.cert]
                          /\ \A p \in Op : handler'[p][r].pc = "fill"
                                => \/ handler'[p][r] = handler[p][r]
                                   \/ handler'[p][r].offer.cert # f.cert,
         f.svc # None => /\ registered'[r][f.svc] = registered[r][f.svc]
                         /\ routed'[r][f.svc] = routed[r][f.svc],
         \A p \in Op : unfinished[p] \subseteq unfinished'[p]
  PROVE  Spares(f, r)
<1>1. HasCert(f, r) => HasCert(f, r)'
  BY DEF HasCert
<1>2. HasService(f, r) => HasService(f, r)'
  BY DEF HasService
<1>3. HasRoute(f, r) => HasRoute(f, r)'
  BY DEF HasRoute
<1>4. QED  BY <1>1, <1>2, <1>3 DEF Spares, Has

LEMMA OkOpen ==
  ASSUME TypeInv, OkInv, NEW o \in Op, NEW r \in Replica, Open(o, r)
  PROVE  OkInv'
<1> DEFINE h == handler[o][r]
<1>1. h \in HandlerState /\ h.pc = "open" /\ h.offer \in Offer /\ h.offer.cert \in Cert
      /\ h.offer.cert # None /\ mu[r] = None
  BY OfferAtWork, OfferFields DEF Open, TypeInv, Shapes, HandlerShape
<1>2. PICK g \in HandlerState : g = [h EXCEPT !.pc = "fill"]
  BY <1>1 DEF HandlerState
<1>3. g.pc = "fill" /\ g.offer = h.offer /\ handler' = [handler EXCEPT ![o][r] = g]
  BY <1>1, <1>2 DEF Open, Goto, HandlerState
<1>4. /\ disk' = [disk EXCEPT ![r][h.offer.cert] = Empty] /\ mu' = [mu EXCEPT ![r] = o]
      /\ UNCHANGED <<phase, registered, routed, unfinished>> /\ Overwrite(o, r)
  BY DEF Open, serviceVars
<1>5. Moves(o, r, g)
  <2>1. mu'[r] = o /\ \A q \in Replica \ {r} : mu'[q] = mu[q]
    BY <1>4 DEF TypeInv, TypeOK
  <2>2. QED  BY <1>1, <1>3, <2>1, MutexHeld, CertAssumption DEF Moves
<1>6. /\ \A p \in Op, q \in Replica : p # o \/ q # r => handler'[p][q] = handler[p][q]
      /\ handler'[o][r] = g
  BY <1>3 DEF TypeInv, TypeOK
<1>7. /\ \A q \in Replica \ {r} : disk'[q] = disk[q]
      /\ \A c \in Cert \ {h.offer.cert} : disk'[r][c] = disk[r][c]
  BY <1>4 DEF TypeInv, TypeOK
<1>8. \A q \in Replica \ {r} : Elsewhere(q)
  BY <1>4, <1>6, <1>7 DEF Elsewhere
<1>9. ASSUME NEW f \in Offer, Relied(f, o, r)
      PROVE  Spares(f, r)
  <2>1. f.cert # None => f.cert \in Cert /\ f.cert # h.offer.cert
    BY <1>1, <1>4, <1>9, OverwriteClears, OfferFields DEF Clash
  <2>2. f.cert # None => /\ disk'[r][f.cert] = disk[r][f.cert]
                         /\ \A p \in Op : handler'[p][r].pc = "fill"
                               => \/ handler'[p][r] = handler[p][r]
                                  \/ handler'[p][r].offer.cert # f.cert
    BY <1>3, <1>6, <1>7, <2>1
  <2>3. QED  BY <1>4, <2>2, SparesIf
<1>10. SameClients /\ client'[o] = client[o]
  BY <1>4, OverwriteSame, OverwriteClears
<1>11. QED  BY <1>1, <1>3, <1>5, <1>8, <1>9, <1>10, OkMoves

LEMMA OkFill ==
  ASSUME TypeInv, OkInv, NEW o \in Op, NEW r \in Replica, Fill(o, r)
  PROVE  OkInv'
<1> DEFINE h == handler[o][r]
<1>1. h \in HandlerState /\ h.pc = "fill" /\ h.offer \in Offer /\ h.offer.cert \in Cert
      /\ h.offer.cert # None /\ mu[r] = o
  BY OfferAtWork, OfferFields DEF Fill, TypeInv, Shapes, HandlerShape
<1>2. PICK g \in HandlerState :
         g = [h EXCEPT !.pc = IF h.offer.svc # None THEN "configure" ELSE "list"]
  BY <1>1 DEF HandlerState
<1>3. /\ g.pc = IF h.offer.svc # None THEN "configure" ELSE "list"
      /\ g.offer = h.offer /\ handler' = [handler EXCEPT ![o][r] = g]
  BY <1>1, <1>2 DEF Fill, Goto, HandlerState
<1>4. /\ disk' = [disk EXCEPT ![r][h.offer.cert] = h.offer.content]
      /\ mu' = [mu EXCEPT ![r] = None]
      /\ UNCHANGED <<phase, registered, routed, client, promise, unfinished>>
  BY DEF Fill, serviceVars, ghostVars
<1>5. Moves(o, r, g)
  <2>1. \A q \in Replica \ {r} : mu'[q] = mu[q]
    BY <1>4 DEF TypeInv, TypeOK
  <2>2. QED  BY <1>1, <1>3, <2>1, MutexHeld DEF Moves
<1>6. /\ \A p \in Op, q \in Replica : p # o \/ q # r => handler'[p][q] = handler[p][q]
      /\ handler'[o][r] = g
  BY <1>3 DEF TypeInv, TypeOK
<1>7. /\ \A q \in Replica \ {r} : disk'[q] = disk[q]
      /\ \A c \in Cert \ {h.offer.cert} : disk'[r][c] = disk[r][c]
      /\ disk'[r][h.offer.cert] = h.offer.content
  BY <1>1, <1>4 DEF TypeInv, TypeOK
<1>8. \A q \in Replica \ {r} : Elsewhere(q)
  BY <1>4, <1>6, <1>7 DEF Elsewhere
<1>9. \A p \in Op : handler'[p][r].pc # "fill"
  BY <1>1, <1>3, <1>6, MutexHeld
<1>10. ASSUME NEW f \in Offer
       PROVE  Spares(f, r)
  <2>1. HasCert(f, r) => HasCert(f, r)'
    <3>1. HasCert(f, r) /\ f.cert # None => f.cert \in Cert /\ f.cert # h.offer.cert
      BY <1>1, OfferFields DEF HasCert
    <3>2. QED  BY <1>7, <1>9, <3>1 DEF HasCert
  <2>2. (HasService(f, r) <=> HasService(f, r)') /\ (HasRoute(f, r) <=> HasRoute(f, r)')
    BY <1>4 DEF HasService, HasRoute
  <2>3. QED  BY <1>4, <2>1, <2>2 DEF Spares, Has
<1>11. ASSUME NEW f \in Offer, h.offer = f
       PROVE  HasCert(f, r)' /\ (g.pc \in {"list", "write", "load"} => HasService(f, r)')
  BY <1>3, <1>7, <1>9, <1>11 DEF HasCert, HasService
<1>12. SameClients /\ client'[o] = client[o]
  BY <1>4 DEF SameClients, TypeInv, TypeOK
<1>13. QED  BY <1>1, <1>5, <1>8, <1>10, <1>11, <1>12, OkMoves

\* Steps from configure to list.
LEMMA OkConfigure ==
  ASSUME TypeInv, OkInv, NEW o \in Op, NEW r \in Replica,
         \/ Register(o, r)
         \/ Unregister(o, r) /\ registered[r][handler[o][r].offer.svc] # None
  PROVE  OkInv'
<1> DEFINE h == handler[o][r]
<1>1. h \in HandlerState /\ h.pc = "configure" /\ h.offer \in Offer /\ h.offer.svc \in Service
      /\ h.offer.svc # None
  BY OfferAtWork, OfferFields DEF Register, Unregister, TypeInv, Shapes, HandlerShape
<1>2. PICK g \in HandlerState : g = [h EXCEPT !.pc = "list"]
  BY <1>1 DEF HandlerState
<1>3. /\ g.pc = "list" /\ g.offer = h.offer /\ g.undo = h.undo
      /\ handler' = [handler EXCEPT ![o][r] = g]
  BY <1>1, <1>2 DEF Register, Unregister, Goto, HandlerState
<1>4. PICK v : /\ registered' = [registered EXCEPT ![r][h.offer.svc] = v]
               /\ ~h.undo => v = h.offer.version
  BY DEF Register, Unregister
<1>5. UNCHANGED <<phase, disk, mu, routed, unfinished>> /\ Overwrite(o, r)
  BY DEF Register, Unregister
<1>6. Moves(o, r, g)
  BY <1>1, <1>3, <1>5, MutexHeld DEF Moves
<1>7. /\ \A p \in Op, q \in Replica : p # o \/ q # r => handler'[p][q] = handler[p][q]
      /\ handler'[o][r] = g
  BY <1>3 DEF TypeInv, TypeOK
<1>8. /\ \A q \in Replica \ {r} : registered'[q] = registered[q]
      /\ \A s \in Service \ {h.offer.svc} : registered'[r][s] = registered[r][s]
      /\ registered'[r][h.offer.svc] = v
  BY <1>1, <1>4 DEF TypeInv, TypeOK
<1>9. \A q \in Replica \ {r} : Elsewhere(q)
  BY <1>5, <1>7, <1>8 DEF Elsewhere
<1>10. ASSUME NEW f \in Offer, Relied(f, o, r)
       PROVE  Spares(f, r)
  <2>1. f.svc # None => f.svc \in Service /\ f.svc # h.offer.svc
    BY <1>1, <1>5, <1>10, OverwriteClears, OfferFields DEF Clash
  <2>2. f.svc # None => registered'[r][f.svc] = registered[r][f.svc]
    BY <1>8, <2>1
  <2>3. \A p \in Op : handler'[p][r].pc = "fill" => handler'[p][r] = handler[p][r]
    BY <1>3, <1>7
  <2>4. QED  BY <1>5, <2>2, <2>3, SparesIf
<1>11. ASSUME NEW f \in Offer, Waits(o, f, r), h.offer = f, ~g.undo
       PROVE  (HasCert(f, r)' \/ r \in unfinished'[o]) /\ HasService(f, r)'
  <2>1. HasCert(f, r) \/ r \in unfinished[o]
    BY <1>1, <1>3, <1>11 DEF OkInv, WorkHolds
  <2>2. HasCert(f, r)' \/ r \in unfinished'[o]
    BY <1>3, <1>5, <1>7, <2>1 DEF HasCert
  <2>3. QED  BY <1>3, <1>4, <1>8, <1>11, <2>2 DEF HasService
<1>12. SameClients /\ client'[o] = client[o]
  BY <1>5, OverwriteSame, OverwriteClears
<1>13. QED  BY <1>1, <1>6, <1>9, <1>10, <1>11, <1>12, OkMoves

\* Steps that change no file and no service.
LEMMA OkOnward ==
  ASSUME TypeInv, OkInv, NEW o \in Op, NEW r \in Replica,
         \/ List(o, r) \/ WriteList(o, r)
         \/ GiveUp(o, r) /\ handler[o][r].offer.version # None /\ ~handler[o][r].undo
  PROVE  OkInv'
<1> DEFINE h == handler[o][r]
<1>1. h \in HandlerState /\ h.pc \in {"list", "write", "load"} /\ h.offer \in Offer
  BY OfferAtWork DEF List, WriteList, GiveUp
<1>2. /\ UNCHANGED <<phase, disk, mu, registered, routed, client, promise, unfinished>>
      /\ h.pc = "load" => h.offer.svc # None
  BY <1>1, OfferFields DEF List, WriteList, GiveUp, replicaVars, serviceVars, ghostVars
<1>3. PICK g \in HandlerState :
         /\ handler' = [handler EXCEPT ![o][r] = g]
         /\ g.offer = h.offer
         /\ \/ g.undo = h.undo /\ g.pc \in {"write", "load"}
            \/ g.undo /\ g.pc = "configure" /\ h.pc = "load"
  <2>1. CASE List(o, r)
    <3>1. [h EXCEPT !.pc = "write", !.listing = Files(disk[r])] \in HandlerState
      BY <1>1 DEF Files, HandlerState
    <3>2. handler' = [handler EXCEPT ![o][r] = [h EXCEPT !.pc = "write", !.listing = Files(disk[r])]]
      BY <2>1 DEF List
    <3>3. QED  BY <1>1, <3>1, <3>2 DEF HandlerState
  <2>2. CASE WriteList(o, r)
    <3>1. [h EXCEPT !.pc = "load", !.listing = {}] \in HandlerState
      BY <1>1 DEF HandlerState
    <3>2. handler' = [handler EXCEPT ![o][r] = [h EXCEPT !.pc = "load", !.listing = {}]]
      BY <2>2 DEF WriteList
    <3>3. QED  BY <1>1, <3>1, <3>2 DEF HandlerState
  <2>3. CASE GiveUp(o, r) /\ h.offer.version # None /\ ~h.undo
    <3>1. [h EXCEPT !.pc = "configure", !.undo = TRUE] \in HandlerState
      BY <1>1 DEF HandlerState
    <3>2. handler' = [handler EXCEPT ![o][r] = [h EXCEPT !.pc = "configure", !.undo = TRUE]]
          /\ h.pc = "load"
      BY <2>3 DEF GiveUp
    <3>3. QED  BY <1>1, <3>1, <3>2 DEF HandlerState
  <2>4. QED  BY <2>1, <2>2, <2>3
<1>4. Moves(o, r, g)
  BY <1>1, <1>2, <1>3, MutexHeld DEF Moves
<1>5. /\ \A p \in Op, q \in Replica : p # o \/ q # r => handler'[p][q] = handler[p][q]
      /\ handler'[o][r] = g
  BY <1>3 DEF TypeInv, TypeOK
<1>6. \A q \in Replica \ {r} : Elsewhere(q)
  BY <1>2, <1>5 DEF Elsewhere
<1>7. \A p \in Op : handler'[p][r].pc = "fill" => handler'[p][r] = handler[p][r]
  BY <1>3, <1>5
<1>8. \A f \in Offer : Spares(f, r)
  BY <1>2, <1>7, SparesIf
<1>9. ASSUME NEW f \in Offer, Waits(o, f, r), ~g.undo
      PROVE  (HasCert(f, r)' \/ r \in unfinished'[o]) /\ HasService(f, r)'
  <2>1. HasCert(f, r) \/ r \in unfinished[o]
    BY <1>1, <1>3, <1>9 DEF OkInv, WorkHolds
  <2>2. HasService(f, r)
    BY <1>1, <1>3, <1>9 DEF OkInv, WorkHolds
  <2>3. QED  BY <1>8, <2>1, <2>2 DEF Spares
<1>10. SameClients /\ client'[o] = client[o]
  BY <1>2 DEF SameClients, TypeInv, TypeOK
<1>11. QED  BY <1>1, <1>3, <1>4, <1>6, <1>8, <1>9, <1>10, OkMoves

\* Steps that answer.
LEMMA OkAnswer ==
  ASSUME TypeInv, OkInv, NEW o \in Op, NEW r \in Replica,
         \/ Unregister(o, r) /\ registered[r][handler[o][r].offer.svc] = None
         \/ Load(o, r)
         \/ GiveUp(o, r) /\ ~(handler[o][r].offer.version # None /\ ~handler[o][r].undo)
  PROVE  OkInv'
<1> DEFINE h == handler[o][r]
<1>1. h \in HandlerState /\ h.pc \in {"configure", "load"} /\ h.offer \in Offer /\ phase[r] = "serving"
  BY OfferAtWork DEF Unregister, Load, GiveUp
<1>2. /\ UNCHANGED <<phase, disk, registered, promise>> /\ Return(o, r, ~h.undo)
      /\ Unfinished(o, r) \/ UNCHANGED unfinished
      /\ \A q \in Replica \ {r} : routed'[q] = routed[q]
      /\ \/ h.pc = "load" /\ routed'[r] = registered[r]
         \/ routed' = routed
      /\ \/ Load(o, r) /\ h.pc = "load"
         \/ ~h.undo => /\ h.offer.version = None
                       /\ h.pc = "load" \/ registered[r][h.offer.svc] = None
                       /\ h.offer.svc = None \/ Unfinished(o, r)
  BY DEF Unregister, Load, GiveUp, replicaVars, serviceVars, ghostVars, TypeInv, TypeOK
<1>3. \A p \in Op, q \in Replica : handler'[p][q] = IF p = o /\ q = r THEN Off ELSE handler[p][q]
  BY <1>2 DEF Return, TypeInv, TypeOK
<1>4. \A p \in Op : handler'[p][r].pc = "fill" => handler'[p][r] = handler[p][r]
  BY <1>3 DEF Off
<1>5. /\ \A p \in Op : unfinished[p] \subseteq unfinished'[p]
      /\ Unfinished(o, r) => r \in unfinished'[o]
  BY <1>2, UnfinishedGrows
<1>6. ASSUME NEW f \in Offer
      PROVE  Spares(f, r)
  <2>1. HasCert(f, r) => HasCert(f, r)'
    BY <1>2, <1>4 DEF HasCert
  <2>2. HasService(f, r) => HasService(f, r)'
    BY <1>2 DEF HasService
  <2>3. HasService(f, r) /\ HasRoute(f, r) => HasRoute(f, r)'
    BY <1>2, OfferFields DEF HasService, HasRoute
  <2>4. ASSUME NEW p \in Op
        PROVE  /\ Has(p, f, r) => Has(p, f, r)'
               /\ r \in unfinished[p] => r \in unfinished'[p]
    <3>1. r \in unfinished[p] => r \in unfinished'[p]
      BY <1>5
    <3>2. QED  BY <1>2, <2>1, <2>2, <2>3, <3>1 DEF Has
  <2>5. QED  BY <2>1, <2>2, <2>4 DEF Spares
<1>7. ASSUME NEW f \in Offer, Waits(o, f, r), h.offer = f, ~h.undo
      PROVE  Has(o, f, r)'
  <2>1. HasCert(f, r) \/ r \in unfinished[o]
    BY <1>1, <1>7 DEF OkInv, WorkHolds
  <2>2. HasService(f, r)
    <3>1. CASE h.pc = "load"
      BY <3>1, <1>7 DEF OkInv, WorkHolds
    <3>2. CASE h.pc # "load"
      BY <1>2, <1>7, <3>2 DEF HasService
    <3>3. QED  BY <3>1, <3>2
  <2>3. HasRoute(f, r)' \/ (f.version = None /\ r \in unfinished'[o])
    <3>1. CASE Load(o, r) /\ h.pc = "load"
      <4>1. routed'[r] = registered[r]
        BY <3>1 DEF Load, TypeInv, TypeOK
      <4>2. QED  BY <2>2, <4>1 DEF HasRoute, HasService
    <3>2. CASE ~(Load(o, r) /\ h.pc = "load")
      BY <1>2, <1>5, <1>7, <3>2 DEF HasRoute
    <3>3. QED  BY <3>1, <3>2
  <2>4. HasCert(f, r)' \/ r \in unfinished'[o]
    BY <1>6, <2>1 DEF Spares
  <2>5. HasService(f, r)' /\ phase'[r] = "serving"
    BY <1>1, <1>2, <1>6, <2>2 DEF Spares
  <2>6. QED  BY <2>3, <2>4, <2>5 DEF Has
<1>8. (~h.undo) \in BOOLEAN /\ h.pc # "off"
  BY <1>1
<1>9. QED  BY <1>2, <1>5, <1>6, <1>7, <1>8, OkReturns

\* The certificate cannot be created: Put fails, a service is configured all the same.
LEMMA OkOpenFails ==
  ASSUME TypeInv, OkInv, NEW o \in Op, NEW r \in Replica, OpenFails(o, r)
  PROVE  OkInv'
<1> DEFINE h == handler[o][r]
<1>1. h \in HandlerState /\ h.pc = "open" /\ h.offer \in Offer
  BY OfferAtWork DEF OpenFails
<1>2. /\ UNCHANGED <<phase, disk, mu, registered, routed, promise>>
      /\ Unfinished(o, r) \/ UNCHANGED unfinished
  BY DEF OpenFails, replicaVars, serviceVars
<1>3. \A p \in Op : unfinished[p] \subseteq unfinished'[p]
  BY <1>2, UnfinishedGrows
<1>4. PICK g \in HandlerState : g = [h EXCEPT !.pc = "configure"]
  BY <1>1 DEF HandlerState
<1>5. g.pc = "configure" /\ g.offer = h.offer
  BY <1>1, <1>4 DEF HandlerState
<1>6. /\ \A p \in Op, q \in Replica : p # o \/ q # r => handler'[p][q] = handler[p][q]
      /\ handler'[o][r].pc \in {"off", "configure"}
  <2>1. PICK d : handler' = [handler EXCEPT ![o][r] = d] /\ d.pc \in {"off", "configure"}
    <3>1. CASE h.offer.svc = None
      <4>1. handler' = [handler EXCEPT ![o][r] = Off] /\ Off.pc = "off"
        BY <3>1 DEF OpenFails, Return, Off
      <4>2. QED  BY <4>1
    <3>2. CASE h.offer.svc # None
      <4>1. handler' = [handler EXCEPT ![o][r] = g]
        BY <1>4, <3>2 DEF OpenFails, Goto
      <4>2. QED  BY <1>5, <4>1
    <3>3. QED  BY <3>1, <3>2
  <2>2. QED  BY <2>1 DEF TypeInv, TypeOK
<1>7. \A f \in Offer : Spares(f, r)
  BY <1>2, <1>3, <1>6, SparesIf
<1>8. CASE h.offer.svc = None
  <2>1. Return(o, r, FALSE)
    BY <1>8 DEF OpenFails
  <2>2. h.pc # "off" /\ FALSE \in BOOLEAN
    BY <1>1
  <2>3. QED  BY <1>2, <1>3, <1>7, <2>1, <2>2, OkReturns
<1>9. CASE h.offer.svc # None
  <2>1. /\ handler' = [handler EXCEPT ![o][r] = g] /\ client' = client
        /\ r \in unfinished'[o]
    BY <1>4, <1>9, UnfinishedGrows DEF OpenFails, Goto
  <2>2. Moves(o, r, g)
    BY <1>1, <1>2, <1>5, <1>9, <2>1, MutexHeld DEF Moves
  <2>3. \A q \in Replica \ {r} : Elsewhere(q)
    BY <1>2, <1>3, <1>6 DEF Elsewhere
  <2>4. SameClients /\ client'[o] = client[o]
    BY <1>2, <2>1 DEF SameClients, TypeInv, TypeOK
  <2>5. h.pc # "off"
    BY <1>1
  <2>6. QED  BY <1>5, <1>7, <2>1, <2>2, <2>3, <2>4, <2>5, OkMoves
<1>10. QED  BY <1>8, <1>9

\* The certificate is not written, and nobody is told.
LEMMA OkFillFails ==
  ASSUME TypeInv, OkInv, NEW o \in Op, NEW r \in Replica, FillFails(o, r)
  PROVE  OkInv'
<1> DEFINE h == handler[o][r]
<1>1. h \in HandlerState /\ h.pc = "fill" /\ h.offer \in Offer /\ mu[r] = o
  BY OfferAtWork DEF FillFails, TypeInv, Shapes, HandlerShape
<1>2. /\ UNCHANGED <<phase, disk, registered, routed, client, promise>>
      /\ Unfinished(o, r) /\ mu' = [mu EXCEPT ![r] = None]
  BY DEF FillFails, serviceVars
<1>3. (\A p \in Op : unfinished[p] \subseteq unfinished'[p]) /\ r \in unfinished'[o]
  BY <1>2, UnfinishedGrows
<1>4. PICK g \in HandlerState :
         g = [h EXCEPT !.pc = IF h.offer.svc # None THEN "configure" ELSE "list"]
  BY <1>1 DEF HandlerState
<1>5. /\ g.pc = IF h.offer.svc # None THEN "configure" ELSE "list"
      /\ g.offer = h.offer /\ handler' = [handler EXCEPT ![o][r] = g]
  BY <1>1, <1>4 DEF FillFails, Goto, HandlerState
<1>6. Moves(o, r, g)
  <2>1. \A q \in Replica \ {r} : mu'[q] = mu[q]
    BY <1>2 DEF TypeInv, TypeOK
  <2>2. QED  BY <1>1, <1>5, <2>1, MutexHeld DEF Moves
<1>7. /\ \A p \in Op, q \in Replica : p # o \/ q # r => handler'[p][q] = handler[p][q]
      /\ handler'[o][r] = g
  BY <1>5 DEF TypeInv, TypeOK
<1>8. \A q \in Replica \ {r} : Elsewhere(q)
  BY <1>2, <1>3, <1>7 DEF Elsewhere
<1>9. \A p \in Op : handler'[p][r].pc = "fill" => handler'[p][r] = handler[p][r]
  BY <1>5, <1>7
<1>10. \A f \in Offer : Spares(f, r)
  BY <1>2, <1>3, <1>9, SparesIf
<1>11. \A f \in Offer : h.offer = f /\ g.pc \in {"list", "write", "load"} => HasService(f, r)'
  BY <1>5 DEF HasService
<1>12. SameClients /\ client'[o] = client[o]
  BY <1>2 DEF SameClients, TypeInv, TypeOK
<1>13. h.pc # "off"
  BY <1>1
<1>14. QED  BY <1>3, <1>6, <1>8, <1>10, <1>11, <1>12, <1>13, OkMoves

LEMMA OkHandler ==
  ASSUME TypeInv, OkInv, NEW o \in Op, NEW r \in Replica, Handler(o, r)
  PROVE  OkInv'
  BY OkOpen, OkOpenFails, OkFill, OkFillFails, OkConfigure, OkOnward, OkAnswer DEF Handler

LEMMA OkRequest ==
  ASSUME TypeInv, OkInv, NEW o \in Op, NEW f \in Offer, NEW via \in Replica,
         NEW to \in SUBSET Replica, Request(o, f, via, to)
  PROVE  OkInv'
<1> DEFINE c == [NoClient EXCEPT !.offer = f, !.via = via, !.to = to, !.left = to]
<1>1. c.at = None /\ c.to = to /\ c.left = to
  BY DEF NoClient
<1> HIDE DEF c
<1>2. /\ client' = [client EXCEPT ![o] = c] /\ promise' = [promise EXCEPT ![o] = None]
      /\ UNCHANGED <<phase, disk, registered, routed, handler>>
  BY DEF Request, c, replicaVars, serviceVars
<1>3. /\ client'[o] = c /\ \A p \in Op \ {o} : client'[p] = client[p]
      /\ promise'[o] = None /\ \A p \in Op \ {o} : promise'[p] = promise[p]
  BY <1>2 DEF TypeInv, TypeOK
<1>4. \A p \in Op \ {o} : /\ unfinished'[p] = unfinished[p]
                         /\ \A g \in Offer, q \in Replica : Has(p, g, q)' <=> Has(p, g, q)
  <2>1. \A p \in Op \ {o} : unfinished'[p] = unfinished[p]
    BY DEF Request, TypeInv, TypeOK
  <2>2. QED  BY <1>2, <2>1 DEF Has, HasCert, HasService, HasRoute
<1>5. ASSUME NEW p \in Op, NEW g \in Offer
      PROVE  PromiseKept(p, g)' /\ AnswerHolds(p, g)' /\ WorkHolds(p, g)'
  <2>1. /\ PromiseKept(p, g) /\ AnswerHolds(p, g) /\ WorkHolds(p, g) /\ client[p].to \subseteq Replica
        /\ promise[p] # None => promise[p].to \subseteq Replica
    BY DEF OkInv, TypeInv, TypeOK, ClientState
  <2>2. CASE p = o
    BY <1>1, <1>3, <2>2, CertAssumption DEF PromiseKept, AnswerHolds, WorkHolds, Waits
  <2>3. CASE p # o
    BY <1>2, <1>3, <1>4, <2>1, <2>3 DEF PromiseKept, AnswerHolds, WorkHolds, Waits, HasCert, HasService
  <2>4. QED  BY <2>2, <2>3
<1>6. QED  BY <1>5 DEF OkInv

\* The replica starts to work, or does not listen: then the client gets no OK.
LEMMA OkSend ==
  ASSUME TypeInv, OkInv, NEW o \in Op, NEW r \in Replica, Send(o, r)
  PROVE  OkInv'
<1> DEFINE c == client[o]
<1>1. /\ c \in ClientState /\ ClientShape(o) /\ c.offer \in Offer /\ c.at = None /\ r \in c.left
      /\ \A q \in Replica : handler[o][q].pc = "off"
  <2>1. c \in ClientState /\ ClientShape(o) /\ c.at = None /\ r \in c.left
    BY DEF Send, TypeInv, TypeOK, Shapes
  <2>2. c.offer # None
    BY <2>1 DEF ClientShape, NoClient
  <2>3. QED  BY <2>1, <2>2, CertAssumption DEF ClientState, ClientShape
<1>2. UNCHANGED <<phase, disk, registered, routed, promise, unfinished>>
  BY DEF Send, replicaVars, serviceVars, ghostVars
<1>3. PICK d \in ClientState :
         /\ client' = [client EXCEPT ![o] = d] /\ d.offer = c.offer /\ d.to = c.to
         /\ \/ d.at = r /\ d.left = c.left /\ d.failed = c.failed
            \/ d.at = None /\ d.failed /\ handler' = handler
  <2>1. CASE phase[r] = "serving"
    <3>1. [c EXCEPT !.at = r] \in ClientState
      BY <1>1 DEF ClientState
    <3>2. client' = [client EXCEPT ![o] = [c EXCEPT !.at = r]]
      BY <2>1 DEF Send
    <3>3. QED  BY <1>1, <3>1, <3>2 DEF ClientState
  <2>2. CASE phase[r] # "serving"
    <3>1. [c EXCEPT !.left = c.left \ {r}, !.failed = TRUE] \in ClientState
      BY <1>1 DEF ClientState
    <3>2. client' = [client EXCEPT ![o] = [c EXCEPT !.left = c.left \ {r}, !.failed = TRUE]]
          /\ handler' = handler
      BY <2>2 DEF Send
    <3>3. QED  BY <1>1, <3>1, <3>2 DEF ClientState
  <2>3. QED  BY <2>1, <2>2
<1>4. client'[o] = d /\ \A p \in Op \ {o} : client'[p] = client[p]
  BY <1>3 DEF TypeInv, TypeOK
<1>5. PICK h : /\ h.pc \in {"open", "configure", "off"}
               /\ h.pc = "configure" => c.offer.cert = None
               /\ \A p \in Op, q \in Replica :
                     handler'[p][q] = IF p = o /\ q = r THEN h ELSE handler[p][q]
  <2>1. CASE phase[r] = "serving"
    <3> DEFINE h == [Off EXCEPT !.pc = IF c.offer.cert # None THEN "open" ELSE "configure",
                                !.offer = c.offer]
    <3>1. handler' = [handler EXCEPT ![o][r] = h]
      BY <2>1 DEF Send
    <3>2. h.pc = IF c.offer.cert # None THEN "open" ELSE "configure"
      BY DEF Off
    <3> HIDE DEF h
    <3>3. \A p \in Op, q \in Replica :
             handler'[p][q] = IF p = o /\ q = r THEN h ELSE handler[p][q]
      BY <3>1 DEF TypeInv, TypeOK
    <3>4. QED  BY <3>2, <3>3
  <2>2. CASE phase[r] # "serving"
    BY <1>1, <2>2 DEF Send
  <2>3. QED  BY <2>1, <2>2
<1>6. ASSUME NEW f \in Offer, NEW q \in Replica
      PROVE  (HasCert(f, q)' <=> HasCert(f, q)) /\ (HasService(f, q)' <=> HasService(f, q))
             /\ \A p \in Op : Has(p, f, q)' <=> Has(p, f, q)
  <2>1. \A p \in Op : /\ handler'[p][q].pc = "fill" => handler'[p][q] = handler[p][q]
                      /\ handler[p][q].pc = "fill" => handler'[p][q] = handler[p][q]
    BY <1>1, <1>5
  <2>2. HasCert(f, q)' <=> HasCert(f, q)
    BY <1>2, <2>1 DEF HasCert
  <2>3. QED  BY <1>2, <2>2 DEF Has, HasService, HasRoute
<1>7. ASSUME NEW p \in Op, NEW f \in Offer
      PROVE  PromiseKept(p, f)' /\ AnswerHolds(p, f)' /\ WorkHolds(p, f)'
  <2>1. /\ PromiseKept(p, f) /\ AnswerHolds(p, f) /\ WorkHolds(p, f) /\ client[p].to \subseteq Replica
        /\ promise[p] # None => promise[p].to \subseteq Replica
    BY DEF OkInv, TypeInv, TypeOK, ClientState
  <2>2. PromiseKept(p, f)'
    BY <1>2, <1>6, <2>1 DEF PromiseKept
  <2>3. AnswerHolds(p, f)'
    BY <1>3, <1>4, <1>6, <2>1 DEF AnswerHolds
  <2>4. WorkHolds(p, f)'
    <3>1. CASE p = o
      <4>1. SUFFICES ASSUME NEW q \in Replica, Waits(o, f, q)'
                     PROVE  /\ handler'[o][q].pc \in {"configure", "list", "write", "load"}
                               => HasCert(f, q)'
                            /\ handler'[o][q].pc \notin {"list", "write", "load"}
        BY <3>1 DEF WorkHolds
      <4>2. handler'[o][q].pc \in {"open", "configure", "off"}
        BY <1>1, <1>5
      <4>3. handler'[o][q].pc = "configure" => q = r /\ f.cert = None
        BY <1>1, <1>3, <1>4, <1>5, <4>1 DEF Waits
      <4>4. QED  BY <4>2, <4>3 DEF HasCert
    <3>2. CASE p # o
      <4>1. client'[p] = client[p] /\ unfinished'[p] = unfinished[p]
            /\ \A q \in Replica : handler'[p][q] = handler[p][q]
        BY <1>2, <1>4, <1>5, <3>2
      <4>2. QED  BY <1>6, <2>1, <4>1 DEF WorkHolds, Waits
    <3>3. QED  BY <3>1, <3>2
  <2>5. QED  BY <2>2, <2>3, <2>4
<1>8. QED  BY <1>7 DEF OkInv

\* What OK is said about has been answered by every replica.
LEMMA OkReply ==
  ASSUME TypeInv, OkInv, NEW o \in Op, Reply(o)
  PROVE  OkInv'
<1> DEFINE c == client[o]
<1>1. c \in ClientState /\ c.offer \in Offer /\ c.left = {} /\ c.offer # None
  BY DEF Reply, TypeInv, TypeOK, ClientState
<1>2. UNCHANGED <<phase, disk, registered, routed, handler, unfinished>>
  BY DEF Reply, replicaVars, serviceVars
<1>3. client'[o] = NoClient /\ \A p \in Op \ {o} : client'[p] = client[p] /\ promise'[p] = promise[p]
  BY DEF Reply, TypeInv, TypeOK
<1>4. promise'[o] # None => ~c.failed /\ promise'[o].offer = c.offer /\ promise'[o].to = c.to
  BY DEF Reply, Kept, TypeInv, TypeOK
<1>5. \A f \in Offer, q \in Replica :
         (HasCert(f, q)' <=> HasCert(f, q)) /\ (HasService(f, q)' <=> HasService(f, q))
         /\ \A p \in Op : Has(p, f, q)' <=> Has(p, f, q)
  BY <1>2 DEF Has, HasCert, HasService, HasRoute
<1>6. ASSUME NEW p \in Op, NEW f \in Offer
      PROVE  PromiseKept(p, f)' /\ AnswerHolds(p, f)' /\ WorkHolds(p, f)'
  <2>1. /\ PromiseKept(p, f) /\ AnswerHolds(p, f) /\ WorkHolds(p, f) /\ client[p].to \subseteq Replica
        /\ promise[p] # None => promise[p].to \subseteq Replica
    BY DEF OkInv, TypeInv, TypeOK, ClientState
  <2>2. CASE p = o
    <3>1. PromiseKept(p, f)'
      BY <1>1, <1>4, <1>5, <2>1, <2>2 DEF PromiseKept, AnswerHolds
    <3>2. AnswerHolds(p, f)' /\ WorkHolds(p, f)'
      BY <1>3, <2>2 DEF AnswerHolds, WorkHolds, Waits, NoClient
    <3>3. QED  BY <3>1, <3>2
  <2>3. CASE p # o
    BY <1>2, <1>3, <1>5, <2>1, <2>3 DEF PromiseKept, AnswerHolds, WorkHolds, Waits
  <2>4. QED  BY <2>2, <2>3
<1>7. QED  BY <1>6 DEF OkInv

\* Nothing is claimed of a replica that is gone.
LEMMA OkCrash ==
  ASSUME TypeInv, OkInv, NEW r \in Replica, Crash(r)
  PROVE  OkInv'
<1>1. \A q \in Replica \ {r} :
         /\ phase'[q] = phase[q] /\ disk'[q] = disk[q]
         /\ registered'[q] = registered[q] /\ routed'[q] = routed[q]
         /\ \A p \in Op : handler'[p][q] = handler[p][q] /\ unfinished'[p] = unfinished[p]
  <2>1. /\ unfinished' = unfinished
        /\ phase' = [phase EXCEPT ![r] = "down"] /\ disk' = [disk EXCEPT ![r] = NoFiles]
        /\ registered' = [registered EXCEPT ![r] = NoServices]
        /\ routed' = [routed EXCEPT ![r] = NoServices]
    BY DEF Crash
  <2>2. QED  BY <2>1, CrashEffect DEF TypeInv, TypeOK
<1>2. \A f \in Offer, q \in Replica \ {r} : Spares(f, q)
  BY <1>1, ElsewhereSpared DEF Elsewhere
<1>3. ASSUME NEW p \in Op, NEW f \in Offer
      PROVE  PromiseKept(p, f)' /\ AnswerHolds(p, f)' /\ WorkHolds(p, f)'
  <2>1. /\ PromiseKept(p, f) /\ AnswerHolds(p, f) /\ WorkHolds(p, f)
        /\ client[p] \in ClientState /\ client[p].to \subseteq Replica
        /\ promise[p] # None => promise[p].to \subseteq Replica
    BY DEF OkInv, TypeInv, TypeOK, ClientState
  <2>2. PromiseKept(p, f)'
    BY <1>2, <2>1, CrashEffect DEF PromiseKept, Spares
  <2>3. CASE client'[p] = NoClient
    BY <2>2, <2>3 DEF NoClient, AnswerHolds, WorkHolds, Waits
  <2>4. CASE client'[p] # NoClient
    <3>1. /\ client'[p].offer = client[p].offer /\ client'[p].to = client[p].to \ {r}
          /\ \/ client'[p].at = None /\ client'[p].failed
             \/ /\ client'[p].at = client[p].at /\ client'[p].left = client[p].left
                /\ client'[p].failed = client[p].failed
      BY <2>1, <2>4, CrashEffect, CrashedClient
    <3>2. AnswerHolds(p, f)'
      BY <1>2, <2>1, <3>1 DEF AnswerHolds, Spares
    <3>3. WorkHolds(p, f)'
      BY <1>1, <1>2, <2>1, <3>1, CertAssumption DEF WorkHolds, Waits, Spares
    <3>4. QED  BY <2>2, <3>2, <3>3
  <2>5. QED  BY <2>3, <2>4
<1>4. QED  BY <1>3 DEF OkInv

\* Nothing is claimed yet of a replica that starts.
LEMMA OkJoiner ==
  ASSUME TypeInv, OkInv, NEW r \in Replica,
         \/ \E to \in SUBSET Replica : Start(r, to)
         \/ \E q \in Replica : Ask(r, q)
         \/ Join(r) \/ JoinPartly(r)
  PROVE  OkInv'
<1>1. /\ UNCHANGED <<registered, routed, client, handler, promise, unfinished>> /\ phase[r] # "serving"
      /\ \A q \in Replica \ {r} : phase'[q] = phase[q] /\ disk'[q] = disk[q]
  BY DEF Start, Ask, Join, JoinPartly, Listen, serviceVars, ghostVars, TypeInv, TypeOK
<1>2. \A f \in Offer, q \in Replica \ {r} : Spares(f, q)
  BY <1>1, ElsewhereSpared DEF Elsewhere
<1>3. \A p \in Op, f \in Offer : ~Has(p, f, r)
  BY <1>1 DEF Has
<1>4. \A p \in Op : handler[p][r].pc = "off"
  BY <1>1 DEF TypeInv, Shapes, HandlerShape
<1>5. ASSUME NEW p \in Op, NEW f \in Offer
      PROVE  PromiseKept(p, f)' /\ AnswerHolds(p, f)' /\ WorkHolds(p, f)'
  <2>1. /\ PromiseKept(p, f) /\ AnswerHolds(p, f) /\ WorkHolds(p, f) /\ client[p].to \subseteq Replica
        /\ promise[p] # None => promise[p].to \subseteq Replica
    BY DEF OkInv, TypeInv, TypeOK, ClientState
  <2>2. PromiseKept(p, f)'
    BY <1>1, <1>2, <1>3, <2>1 DEF PromiseKept, Spares
  <2>3. AnswerHolds(p, f)'
    BY <1>1, <1>2, <1>3, <2>1 DEF AnswerHolds, Spares
  <2>4. WorkHolds(p, f)'
    BY <1>1, <1>2, <1>4, <2>1 DEF WorkHolds, Waits, Spares
  <2>5. QED  BY <2>2, <2>3, <2>4
<1>6. QED  BY <1>5 DEF OkInv

LEMMA OkStep == TypeInv /\ OkInv /\ [Next]_vars => OkInv'
<1> SUFFICES ASSUME TypeInv, OkInv, [Next]_vars  PROVE OkInv'
  OBVIOUS
<1>1. CASE UNCHANGED vars
  BY <1>1 DEF vars, replicaVars, serviceVars, ghostVars, OkInv, PromiseKept, AnswerHolds, WorkHolds,
     Waits, Has, HasCert, HasService, HasRoute
<1>2. CASE Next
  <2>1. Step /\ world.replicas \subseteq Replica /\ world.offers \subseteq Offer
    BY <1>2, WorldFields DEF Next, TypeInv
  <2>2. ASSUME NEW o \in Op, NEW f \in world.offers, NEW r \in world.replicas,
               NEW to \in SUBSET world.replicas, Request(o, f, r, to)
        PROVE  OkInv'
    <3>1. f \in Offer /\ r \in Replica /\ to \in SUBSET Replica
      BY <2>1
    <3>2. QED  BY <2>2, <3>1, OkRequest
  <2>3. ASSUME NEW o \in Op, NEW r \in world.replicas, Send(o, r) \/ Handler(o, r)
        PROVE  OkInv'
    BY <2>1, <2>3, OkSend, OkHandler
  <2>4. ASSUME NEW o \in Op, Reply(o)
        PROVE  OkInv'
    BY <2>4, OkReply
  <2>5. ASSUME NEW r \in world.replicas, Crash(r) \/ Join(r) \/ JoinPartly(r)
        PROVE  OkInv'
    BY <2>1, <2>5, OkCrash, OkJoiner
  <2>6. ASSUME NEW r \in world.replicas, NEW to \in SUBSET (world.replicas \ {r}), Start(r, to)
        PROVE  OkInv'
    <3>1. r \in Replica /\ to \in SUBSET Replica
      BY <2>1
    <3>2. QED  BY <2>6, <3>1, OkJoiner
  <2>7. ASSUME NEW r \in world.replicas, NEW q \in world.replicas, Ask(r, q)
        PROVE  OkInv'
    <3>1. r \in Replica /\ q \in Replica
      BY <2>1
    <3>2. QED  BY <2>7, <3>1, OkJoiner
  <2>8. QED  BY <2>1, <2>2, <2>3, <2>4, <2>5, <2>6, <2>7 DEF Step
<1>3. QED  BY <1>1, <1>2

\* However many clients send requests for the same certificates and services to
\* however many replicas, which crash and restart at any time: who is told OK
\* (sendDistributeRequests found no replica that failed) finds on every replica
\* that was addressed what it asked for, unless that replica has restarted or has
\* handled another request for the same certificate or service.
THEOREM OkHoldsEverywhere == Spec => []OkMeansEverywhere
<1>1. TypeInv /\ OkInv => OkMeansEverywhere
  <2> SUFFICES ASSUME TypeInv, OkInv, NEW o \in Op, promise[o] # None, NEW r \in promise[o].to
               PROVE  Has(o, promise[o].offer, r) /\ promise[o].offer \in Offer
    BY OfferFields DEF OkMeansEverywhere, Has, HasCert, HasService, HasRoute
  <2>1. PICK f \in Offer : f = promise[o].offer
    BY DEF TypeInv, TypeOK
  <2>2. QED  BY <2>1 DEF OkInv, PromiseKept
<1>2. QED  BY CertTypeInit, OkInit, CertTypeStep, OkStep, <1>1, PTL DEF Spec

================================================================================
