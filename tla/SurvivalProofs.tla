---------------------------- MODULE SurvivalProofs ----------------------------
(***************************************************************************)
(* The certificates survive the restarts of the replicas: as long as one   *)
(* thing happens at a time, every replica serves exactly those that were   *)
(* put (CertificatesSurvive), for every number of replicas, clients and    *)
(* certificates.                                                           *)
(***************************************************************************)
EXTENDS CertSyncProofs, FiniteSetTheorems

--------------------------------------------------------------------------------
(* The inductive invariant *)

\* The files once the request f is done, and before.
After(f) == IF f.cert = None THEN latest ELSE [latest EXCEPT ![f.cert] = f.content]
Fresh(r)   == disk[r] = latest /\ loaded[r] = latest
Done(f, r) == disk[r] = After(f) /\ loaded[r] = After(f)

\* How far the handler h of f is on r.
Underway(f, r, h) ==
    /\ h.pc = "open" => disk[r] = latest
    /\ h.pc = "fill" => disk[r] = [latest EXCEPT ![f.cert] = Empty]
    /\ h.pc \notin {"open", "fill"} => disk[r] = After(f)
    /\ h.pc = "write" => h.listing = Files(disk[r])
    /\ h.pc = "load" => crtList[r] = Files(disk[r])
    /\ f.cert = None => loaded[r] = latest
    /\ ~h.undo

\* Of the request f that a client waits for, every replica has all or nothing, but
\* for the one that is at work.
Progress(o, f) ==
    client[o].offer = f =>
        /\ f.content # Bad
        /\ \A r \in world.replicas :
              /\ r \in client[o].left /\ client[o].at # r => Fresh(r)
              /\ r \notin client[o].left => Done(f, r)
              /\ client[o].at = r => Underway(f, r, handler[o][r])

\* A replica that starts has the certificates, or will ask whoever has them.
Joins(r) ==
    phase[r] = "starting" =>
        \/ joiner[r].best = latest
        \/ joiner[r].best = NoFiles /\ Serving \subseteq joiner[r].left

\* One thing happens at a time, in a deployment that has replicas.
CalmInv ==
    /\ Calm \/ (world.replicas = {} /\ \A o \in Op : ~Busy(o))
    /\ \A r \in Replica : phase[r] # "down" => r \in world.replicas
    /\ \A o \in Op : client[o].offer = None => ~Busy(o)

SurviveInv ==
    latest # None =>
        /\ CalmInv
        /\ \A c \in Cert : latest[c] \in Content \cup {None}
        /\ (\A o \in Op : ~Busy(o)) => \A r \in Serving : Fresh(r)
        /\ \A r \in Replica : Joins(r)
        /\ \A o \in Op, f \in Offer : Progress(o, f)

LEMMA AtMostOne ==
  ASSUME NEW S, IsFiniteSet(S), Cardinality(S) <= 1, NEW a \in S, NEW b \in S
  PROVE  a = b
<1> SUFFICES ASSUME a # b  PROVE FALSE
  OBVIOUS
<1>1. IsFiniteSet({a}) /\ Cardinality({a}) = 1
  BY FS_Singleton
<1>2. IsFiniteSet({a} \cup {b}) /\ Cardinality({a} \cup {b}) = Cardinality({a}) + 1
  <2>1. b \notin {a}
    OBVIOUS
  <2>2. QED  BY <1>1, <2>1, FS_AddElement, Zenon
<1>3. Cardinality({a} \cup {b}) <= Cardinality(S) /\ Cardinality(S) \in Nat
  BY FS_Subset, FS_CardinalityType
<1>4. QED  BY <1>1, <1>2, <1>3

LEMMA SurviveInit == Init => SurviveInv
<1> SUFFICES ASSUME Init  PROVE SurviveInv
  OBVIOUS
<1>1. /\ world.replicas \subseteq Replica /\ \A o \in Op : ~Busy(o)
      /\ \A o \in Op : client[o] = NoClient
  BY CertTypeInit, WorldFields DEF TypeInv, Init, Busy, NoClient
<1>2. Serving = world.replicas
  BY <1>1 DEF Init, Serving
<1>3. CalmInv
  <2>1. world.replicas \ Serving = {}
    BY <1>2
  <2>2. Cardinality(world.replicas \ Serving) = 0
    BY <2>1, FS_EmptySet
  <2>3. Calm \/ world.replicas = {}
    BY <1>1, <1>2, <2>2 DEF Calm
  <2>4. QED  BY <1>1, <2>3 DEF CalmInv, Init
<1>4. QED
  BY <1>1, <1>3, OfferFields DEF SurviveInv, Init, Fresh, Joins, Progress, NoFiles, NoClient, Serving

\* While anybody is busy, everybody serves and nobody else is.
LEMMA AllServe ==
  ASSUME TypeInv, SurviveInv, latest # None, NEW o \in Op, Busy(o)
  PROVE  /\ Serving = world.replicas
         /\ \A p \in Op \ {o} : ~Busy(p) /\ client[p].offer = None /\ client[p] = NoClient
         /\ client[o].offer \in Offer
<1>1. Calm
  BY DEF SurviveInv, CalmInv
<1>2. Serving \subseteq world.replicas
  BY DEF SurviveInv, CalmInv, Serving
<1>3. client[o].offer \in Offer
  BY DEF SurviveInv, CalmInv, TypeInv, TypeOK, ClientState
<1>4. Serving = world.replicas
  BY <1>1, <1>2 DEF Calm
<1>5. ASSUME NEW p \in Op \ {o}
      PROVE  ~Busy(p) /\ client[p].offer = None /\ client[p] = NoClient
  <2>1. ~Busy(p)
    BY <1>1, <1>5 DEF Calm
  <2>2. QED  BY <2>1 DEF Busy, TypeInv, Shapes, ClientShape
<1>6. QED  BY <1>3, <1>4, <1>5

\* Where a handler works, in between.
LEMMA Working ==
  ASSUME TypeInv, SurviveInv, latest # None, NEW o \in Op, NEW r \in Replica,
         handler[o][r].pc # "off"
  PROVE  /\ Busy(o) /\ client[o].offer \in Offer /\ client[o].offer.content # Bad
         /\ handler[o][r].offer = client[o].offer
         /\ client[o].at = r /\ r \in client[o].left /\ r \in world.replicas
         /\ Underway(client[o].offer, r, handler[o][r])
         /\ \A p \in Op, q \in Replica : p # o \/ q # r => handler[p][q].pc = "off"
<1>1. Busy(o)
  BY DEF Busy, Off
<1>2. client[o].offer \in Offer /\ client[o].offer # None
  BY <1>1, AllServe, CertAssumption
<1>3. client[o].at = r /\ r \in client[o].left /\ handler[o][r].offer = client[o].offer
      /\ \A q \in Replica \ {r} : handler[o][q].pc = "off"
  BY <1>2, CertAssumption DEF TypeInv, Shapes, ClientShape
<1>4. r \in world.replicas
  BY AllServe, <1>1 DEF TypeInv, Shapes, HandlerShape, Serving
<1>5. client[o].offer.content # Bad /\ Underway(client[o].offer, r, handler[o][r])
  <2>1. Progress(o, client[o].offer)
    BY <1>2 DEF SurviveInv
  <2>2. QED  BY <1>3, <1>4, <2>1 DEF Progress
<1>6. \A p \in Op \ {o}, q \in Replica : handler[p][q].pc = "off"
  BY <1>1, AllServe DEF Busy, Off
<1>7. QED  BY <1>1, <1>2, <1>3, <1>4, <1>5, <1>6

\* A handler goes on, and is where g says.
LEMMA SurviveMoves ==
  ASSUME TypeInv, TypeInv', SurviveInv, latest # None, NEW o \in Op, NEW r \in Replica, NEW g,
         handler[o][r].pc # "off", g.pc # "off", handler' = [handler EXCEPT ![o][r] = g],
         UNCHANGED <<world, phase, loaded, joiner, latest>>,
         \A q \in Replica \ {r} : disk'[q] = disk[q],
         client'[o] = client[o],
         \A p \in Op \ {o} : client'[p].offer = client[p].offer,
         \A f \in Offer : handler[o][r].offer = f => Underway(f, r, g)'
  PROVE  SurviveInv'
<1>1. /\ Busy(o) /\ client[o].offer \in Offer /\ client[o].offer.content # Bad
      /\ handler[o][r].offer = client[o].offer
      /\ client[o].at = r /\ r \in client[o].left
      /\ \A p \in Op, q \in Replica : p # o \/ q # r => handler[p][q].pc = "off"
  BY Working
<1>2. /\ handler'[o][r] = g
      /\ \A p \in Op, q \in Replica : p # o \/ q # r => handler'[p][q] = handler[p][q]
  BY DEF TypeInv, TypeOK
<1>3. /\ Serving = world.replicas /\ Serving' = Serving
      /\ \A p \in Op \ {o} : ~Busy(p) /\ client[p].offer = None
  BY <1>1, AllServe DEF Serving
<1>4. Busy(o)' /\ \A p \in Op \ {o} : ~Busy(p)'
  <2>1. Busy(o)'
    BY <1>2 DEF Busy, Off
  <2>2. ASSUME NEW p \in Op \ {o}
        PROVE  ~Busy(p)'
    BY <1>2, <1>3 DEF Busy
  <2>3. QED  BY <2>1, <2>2
<1>5. CalmInv'
  <2>1. Calm
    BY <1>1 DEF SurviveInv, CalmInv
  <2>2. Calm'
    BY <1>3, <1>4, <2>1 DEF Calm
  <2>3. \A p \in Op : client'[p].offer = None => ~Busy(p)'
    BY <1>1, <1>4, CertAssumption
  <2>4. QED  BY <2>2, <2>3 DEF SurviveInv, CalmInv
<1>6. \A q \in Replica : Joins(q)'
  BY <1>3 DEF SurviveInv, Joins
<1>7. ASSUME NEW p \in Op, NEW f \in Offer
      PROVE  Progress(p, f)'
  <2>1. CASE p = o
    <3>1. SUFFICES ASSUME client[o].offer = f, NEW q \in world.replicas
                   PROVE  /\ q \in client[o].left /\ client[o].at # q => Fresh(q)'
                          /\ q \notin client[o].left => Done(f, q)'
                          /\ client[o].at = q => Underway(f, q, handler[o][q])'
      BY <1>1, <2>1 DEF Progress
    <3>2. /\ q \in client[o].left /\ client[o].at # q => Fresh(q)
          /\ q \notin client[o].left => Done(f, q)
      BY <3>1 DEF SurviveInv, Progress
    <3>3. q \in Replica
      BY <3>1, WorldFields DEF TypeInv
    <3>4. q # r => (Fresh(q) <=> Fresh(q)') /\ (Done(f, q) <=> Done(f, q)')
      BY <3>3 DEF Fresh, Done, After
    <3>5. Underway(f, r, handler[o][r])'
      BY <1>1, <1>2, <3>1 DEF Underway
    <3>6. QED  BY <1>1, <3>2, <3>4, <3>5
  <2>2. CASE p # o
    BY <1>3, <2>2, OfferFields DEF Progress
  <2>3. QED  BY <2>1, <2>2
<1>8. QED
  BY <1>4, <1>5, <1>6, <1>7 DEF SurviveInv

\* A handler is done, and so is its replica.
LEMMA SurviveReturns ==
  ASSUME TypeInv, TypeInv', SurviveInv, latest # None, NEW o \in Op, NEW r \in Replica,
         NEW ok \in BOOLEAN, handler[o][r].pc # "off", Return(o, r, ok),
         UNCHANGED <<world, phase, disk, joiner, latest>>,
         \A q \in Replica \ {r} : loaded'[q] = loaded[q],
         \A f \in Offer : handler[o][r].offer = f => Done(f, r)'
  PROVE  SurviveInv'
<1>1. /\ Busy(o) /\ client[o].offer \in Offer /\ client[o].offer.content # Bad
      /\ handler[o][r].offer = client[o].offer
      /\ client[o].at = r /\ r \in client[o].left
      /\ \A p \in Op, q \in Replica : p # o \/ q # r => handler[p][q].pc = "off"
  BY Working
<1>2. \A p \in Op, q \in Replica : p # o => handler'[p][q] = handler[p][q]
  BY DEF Return, TypeInv, TypeOK
<1>3. /\ client'[o].at = None /\ client'[o].offer = client[o].offer
      /\ client'[o].left = client[o].left \ {r}
      /\ \A p \in Op \ {o} : client'[p] = client[p]
  <2>1. client' = [client EXCEPT ![o] =
                     [client[o] EXCEPT !.at = None, !.left = client[o].left \ {r},
                                       !.failed = client[o].failed \/ ~ok]]
    BY <1>1 DEF Return
  <2>2. client[o] \in ClientState
    BY DEF TypeInv, TypeOK
  <2>3. QED  BY <2>1, <2>2 DEF ClientState, TypeInv, TypeOK
<1>4. /\ Serving = world.replicas /\ Serving' = Serving
      /\ \A p \in Op \ {o} : ~Busy(p) /\ client[p].offer = None
  BY <1>1, AllServe DEF Serving
<1>5. Busy(o)' /\ \A p \in Op \ {o} : ~Busy(p)'
  <2>1. Busy(o)'
    BY <1>1, <1>3, CertAssumption DEF Busy
  <2>2. ASSUME NEW p \in Op \ {o}
        PROVE  ~Busy(p)'
    BY <1>2, <1>3, <1>4 DEF Busy
  <2>3. QED  BY <2>1, <2>2
<1>6. CalmInv'
  <2>1. Calm
    BY <1>1 DEF SurviveInv, CalmInv
  <2>2. Calm'
    BY <1>4, <1>5, <2>1 DEF Calm
  <2>3. \A p \in Op : client'[p].offer = None => ~Busy(p)'
    BY <1>1, <1>3, <1>5, CertAssumption
  <2>4. QED  BY <2>2, <2>3 DEF SurviveInv, CalmInv
<1>7. \A q \in Replica : Joins(q)'
  BY <1>4 DEF SurviveInv, Joins
<1>8. ASSUME NEW p \in Op, NEW f \in Offer
      PROVE  Progress(p, f)'
  <2>1. CASE p = o
    <3>1. SUFFICES ASSUME client[o].offer = f, NEW q \in world.replicas
                   PROVE  /\ q \in client'[o].left => Fresh(q)'
                          /\ q \notin client'[o].left => Done(f, q)'
                          /\ client'[o].at # q
      BY <1>1, <1>3, <2>1 DEF Progress
    <3>2. /\ q \in client[o].left /\ client[o].at # q => Fresh(q)
          /\ q \notin client[o].left => Done(f, q)
      BY <3>1 DEF SurviveInv, Progress
    <3>3. q \in Replica
      BY <3>1, WorldFields DEF TypeInv
    <3>4. q # r => (Fresh(q) <=> Fresh(q)') /\ (Done(f, q) <=> Done(f, q)')
      BY <3>3 DEF Fresh, Done, After
    <3>5. QED  BY <1>1, <1>3, <3>1, <3>2, <3>3, <3>4, CertAssumption
  <2>2. CASE p # o
    BY <1>3, <1>4, <2>2, OfferFields DEF Progress
  <2>3. QED  BY <2>1, <2>2
<1>9. QED
  BY <1>5, <1>6, <1>7, <1>8 DEF SurviveInv

\* What a request puts, HAProxy accepts.
LEMMA AfterAccepted ==
  ASSUME TypeInv, SurviveInv, latest # None, NEW f \in Offer, f.content # Bad
  PROVE  /\ After(f) \in [Cert -> File]
         /\ \A c \in Files(After(f)) : After(f)[c] \in Content
<1>1. latest \in [Cert -> File] /\ \A c \in Cert : latest[c] \in Content \cup {None}
  BY DEF TypeInv, TypeOK, SurviveInv
<1>2. f.cert # None => f.cert \in Cert /\ f.content \in Content
  BY CertAssumption DEF OfferRecord
<1>3. QED  BY <1>1, <1>2 DEF After, Files, File

LEMMA SurviveHandler ==
  ASSUME TypeInv, TypeInv', SurviveInv, latest # None, latest' # None, UNCHANGED world,
         NEW o \in Op, NEW r \in Replica, Handler(o, r)
  PROVE  SurviveInv'
<1> DEFINE h == handler[o][r]
<1>1. /\ h \in HandlerState /\ h.pc # "off" /\ h.offer \in Offer /\ h.offer.content # Bad
      /\ Underway(h.offer, r, h)
  <2>1. h.pc # "off"
    BY DEF Handler, Open, OpenFails, Fill, FillFails, Register, Unregister, List, WriteList, Load, GiveUp
  <2>2. QED  BY <2>1, Working, OfferAtWork
<1>2. /\ h.pc \in {"open", "fill"} => h.offer.cert \in Cert /\ h.offer.cert # None
      /\ h.pc = "configure" => h.offer.svc # None
      /\ latest \in [Cert -> File] /\ disk[r] \in [Cert -> File]
  BY <1>1, OfferFields DEF TypeInv, TypeOK, Shapes, HandlerShape
<1>3. CASE Open(o, r) \/ Register(o, r)
           \/ (Unregister(o, r) /\ registered[r][handler[o][r].offer.svc] # None)
  <2>1. /\ UNCHANGED <<phase, crtList, loaded, joiner, latest>> /\ Overwrite(o, r)
    BY <1>3 DEF Open, Register, Unregister, serviceVars
  <2>2. client'[o] = client[o] /\ \A p \in Op \ {o} : client'[p].offer = client[p].offer
    BY <2>1, OverwriteClears, OverwriteSame DEF SameClients
  <2>3. CASE Open(o, r)
    <3>1. PICK g \in HandlerState : g.pc = "fill" /\ g.undo = h.undo
                                    /\ handler' = [handler EXCEPT ![o][r] = g]
      <4>1. [h EXCEPT !.pc = "fill"] \in HandlerState
        BY <1>1 DEF HandlerState
      <4>2. handler' = [handler EXCEPT ![o][r] = [h EXCEPT !.pc = "fill"]]
        BY <2>3 DEF Open, Goto
      <4>3. QED  BY <1>1, <4>1, <4>2 DEF HandlerState
    <3>2. h.pc = "open" /\ disk' = [disk EXCEPT ![r][h.offer.cert] = Empty]
      BY <2>3 DEF Open
    <3>3. disk'[r] = [disk[r] EXCEPT ![h.offer.cert] = Empty] /\ \A q \in Replica \ {r} : disk'[q] = disk[q]
      BY <3>2 DEF TypeInv, TypeOK
    <3>4. ASSUME NEW f \in Offer, h.offer = f
          PROVE  Underway(f, r, g)'
      BY <1>1, <1>2, <2>1, <3>1, <3>2, <3>3, <3>4 DEF Underway
    <3>5. QED  BY <1>1, <2>1, <2>2, <3>1, <3>3, <3>4, SurviveMoves
  <2>4. CASE ~Open(o, r)
    <3>1. PICK g \in HandlerState : g.pc = "list" /\ g.undo = h.undo
                                    /\ handler' = [handler EXCEPT ![o][r] = g]
      <4>1. [h EXCEPT !.pc = "list"] \in HandlerState
        BY <1>1 DEF HandlerState
      <4>2. handler' = [handler EXCEPT ![o][r] = [h EXCEPT !.pc = "list"]]
        BY <1>3, <2>4 DEF Register, Unregister, Goto
      <4>3. QED  BY <1>1, <4>1, <4>2 DEF HandlerState
    <3>2. h.pc = "configure" /\ disk' = disk
      BY <1>3, <2>4 DEF Register, Unregister
    <3>3. ASSUME NEW f \in Offer, h.offer = f
          PROVE  Underway(f, r, g)'
      BY <1>1, <2>1, <3>1, <3>2, <3>3 DEF Underway, After
    <3>4. QED  BY <1>1, <2>1, <2>2, <3>1, <3>2, <3>3, SurviveMoves
  <2>5. QED  BY <2>3, <2>4
<1>4. CASE Fill(o, r)
  <2>1. /\ UNCHANGED <<phase, crtList, loaded, joiner, client, latest>> /\ h.pc = "fill"
        /\ disk' = [disk EXCEPT ![r][h.offer.cert] = h.offer.content]
    BY <1>4 DEF Fill, serviceVars, ghostVars
  <2>2. PICK g \in HandlerState : g.pc \in {"configure", "list"} /\ g.undo = h.undo
                                  /\ handler' = [handler EXCEPT ![o][r] = g]
    <3>1. PICK l \in {"configure", "list"} : handler' = [handler EXCEPT ![o][r] = [h EXCEPT !.pc = l]]
      BY <1>4 DEF Fill, Goto
    <3>2. [h EXCEPT !.pc = l] \in HandlerState
      BY <1>1 DEF HandlerState
    <3>3. QED  BY <1>1, <3>1, <3>2 DEF HandlerState
  <2>3. disk'[r] = [disk[r] EXCEPT ![h.offer.cert] = h.offer.content]
        /\ \A q \in Replica \ {r} : disk'[q] = disk[q]
    BY <2>1 DEF TypeInv, TypeOK
  <2>4. ASSUME NEW f \in Offer, h.offer = f
        PROVE  Underway(f, r, g)'
    <3>1. disk[r] = [latest EXCEPT ![f.cert] = Empty]
      BY <1>1, <2>1, <2>4 DEF Underway
    <3>2. disk'[r] = [latest EXCEPT ![f.cert] = f.content]
      BY <1>2, <2>1, <2>3, <2>4, <3>1
    <3>3. disk'[r] = After(f)'
      BY <1>2, <2>1, <2>4, <3>2 DEF After
    <3>4. QED  BY <1>1, <1>2, <2>1, <2>2, <2>4, <3>3 DEF Underway
  <2>5. QED  BY <1>1, <2>1, <2>2, <2>3, <2>4, SurviveMoves
<1>5. CASE List(o, r) \/ WriteList(o, r)
  <2>1. UNCHANGED <<phase, disk, loaded, joiner, client, latest>>
    BY <1>5 DEF List, WriteList, replicaVars, ghostVars
  <2>2. PICK g \in HandlerState :
           /\ handler' = [handler EXCEPT ![o][r] = g] /\ g.undo = h.undo
           /\ \/ g.pc = "write" /\ g.listing = Files(disk[r]) /\ h.pc = "list"
              \/ g.pc = "load" /\ crtList'[r] = h.listing /\ h.pc = "write"
    <3>1. CASE List(o, r)
      <4>1. [h EXCEPT !.pc = "write", !.listing = Files(disk[r])] \in HandlerState
        BY <1>1 DEF Files, HandlerState
      <4>2. h.pc = "list" /\ handler' = [handler EXCEPT ![o][r] =
                               [h EXCEPT !.pc = "write", !.listing = Files(disk[r])]]
        BY <3>1 DEF List
      <4>3. QED  BY <1>1, <4>1, <4>2 DEF HandlerState
    <3>2. CASE WriteList(o, r)
      <4>1. [h EXCEPT !.pc = "load", !.listing = {}] \in HandlerState
        BY <1>1 DEF HandlerState
      <4>2. h.pc = "write" /\ crtList' = [crtList EXCEPT ![r] = h.listing]
            /\ handler' = [handler EXCEPT ![o][r] = [h EXCEPT !.pc = "load", !.listing = {}]]
        BY <3>2 DEF WriteList
      <4>3. crtList'[r] = h.listing
        BY <4>2 DEF TypeInv, TypeOK
      <4>4. QED  BY <1>1, <4>1, <4>2, <4>3 DEF HandlerState
    <3>3. QED  BY <1>5, <3>1, <3>2
  <2>3. Files(disk[r])' = Files(disk[r])
    BY <2>1 DEF Files
  <2>4. ASSUME NEW f \in Offer, h.offer = f
        PROVE  Underway(f, r, g)'
    BY <1>1, <2>1, <2>2, <2>3, <2>4 DEF Underway, After
  <2>5. QED  BY <1>1, <2>1, <2>2, <2>4, SurviveMoves
<1>6. CASE Load(o, r)
  <2>1. /\ UNCHANGED <<phase, disk, joiner, latest>> /\ Return(o, r, ~h.undo) /\ h.pc = "load"
        /\ loaded' = [loaded EXCEPT ![r] = [c \in Cert |-> IF c \in crtList[r] THEN disk[r][c] ELSE None]]
    BY <1>6 DEF Load, ghostVars
  <2>2. /\ \A q \in Replica \ {r} : loaded'[q] = loaded[q]
        /\ loaded'[r] = [c \in Cert |-> IF c \in crtList[r] THEN disk[r][c] ELSE None]
    BY <2>1 DEF TypeInv, TypeOK
  <2>3. ASSUME NEW f \in Offer, h.offer = f
        PROVE  Done(f, r)'
    <3>1. disk[r] = After(f) /\ crtList[r] = Files(disk[r])
      BY <1>1, <2>1, <2>3 DEF Underway
    <3>2. loaded'[r] = disk[r]
      BY <1>2, <2>2, <3>1 DEF Files
    <3>3. QED  BY <2>1, <3>1, <3>2 DEF Done, After
  <2>4. (~h.undo) \in BOOLEAN
    OBVIOUS
  <2>5. QED  BY <1>1, <2>1, <2>2, <2>3, <2>4, SurviveReturns
<1>7. CASE Unregister(o, r) /\ registered[r][handler[o][r].offer.svc] = None
  <2>1. /\ UNCHANGED <<phase, disk, joiner, loaded, latest>> /\ Return(o, r, ~h.undo)
        /\ h.pc = "configure" /\ (h.undo \/ h.offer.version = None)
    BY <1>7 DEF Unregister
  <2>2. ASSUME NEW f \in Offer, h.offer = f
        PROVE  Done(f, r)'
    <3>1. disk[r] = After(f) /\ f.version = None /\ (f.cert = None => loaded[r] = latest)
      BY <1>1, <2>1, <2>2 DEF Underway
    <3>2. f.cert = None
      BY <1>2, <2>1, <2>2, <3>1, CertAssumption
    <3>3. QED  BY <2>1, <3>1, <3>2 DEF Done, After
  <2>3. (~h.undo) \in BOOLEAN
    OBVIOUS
  <2>4. QED  BY <1>1, <2>1, <2>2, <2>3, SurviveReturns
<1>8. CASE GiveUp(o, r)
  <2>1. h.pc = "load" /\ ~Valid(disk[r], crtList[r])
    BY <1>8 DEF GiveUp
  <2>2. disk[r] = After(h.offer) /\ crtList[r] = Files(disk[r])
    BY <1>1, <2>1 DEF Underway
  <2>3. QED  BY <1>1, <2>1, <2>2, AfterAccepted DEF Valid
<1>9. ~OpenFails(o, r) /\ ~FillFails(o, r)
  BY DEF OpenFails, FillFails
<1>10. QED
  BY <1>3, <1>4, <1>5, <1>6, <1>7, <1>8, <1>9 DEF Handler

\* Nobody is busy while a replica is away.
LEMMA NobodyBusy ==
  ASSUME TypeInv, SurviveInv, latest # None, NEW r \in world.replicas, phase[r] # "serving"
  PROVE  \A o \in Op : ~Busy(o) /\ client[o].offer = None
<1>1. ASSUME NEW o \in Op
      PROVE  ~Busy(o) /\ client[o].offer = None
  <2>1. ~Busy(o)
    BY AllServe DEF Serving
  <2>2. QED  BY <2>1 DEF Busy
<1>2. QED  BY <1>1

\* There is one replica that is away, at most.
LEMMA OneAway ==
  ASSUME NEW S, S \subseteq Replica, NEW T, Cardinality(S \ T) <= 1,
         NEW a \in S, a \notin T, NEW b \in S, b \notin T
  PROVE  a = b
<1>1. IsFiniteSet(S \ T)
  <2>1. S \ T \in SUBSET Replica
    OBVIOUS
  <2>2. QED  BY <2>1, FS_Subset, CertAssumption
<1>2. a \in S \ T /\ b \in S \ T
  OBVIOUS
<1>3. QED  BY <1>1, <1>2, AtMostOne

LEMMA SurviveRequest ==
  ASSUME TypeInv, TypeInv', SurviveInv, latest # None, latest' # None, UNCHANGED world,
         NEW o \in Op, NEW f \in Offer, NEW via \in Replica, NEW to \in SUBSET Replica,
         Request(o, f, via, to)
  PROVE  SurviveInv'
<1> DEFINE c == [NoClient EXCEPT !.offer = f, !.via = via, !.to = to, !.left = to]
<1>1. c.at = None /\ c.offer = f /\ c.left = to /\ f # None
  BY OfferFields DEF NoClient
<1> HIDE DEF c
<1>2. /\ client' = [client EXCEPT ![o] = c] /\ ~Busy(o)
      /\ UNCHANGED <<phase, disk, loaded, joiner, handler, latest>>
      /\ Calm' /\ to = world.replicas /\ f.content # Bad
  BY DEF Request, c, replicaVars
<1>3. client'[o] = c /\ \A p \in Op \ {o} : client'[p] = client[p]
  BY <1>2 DEF TypeInv, TypeOK
<1>4. Busy(o)' /\ \A p \in Op \ {o} : Busy(p)' <=> Busy(p)
  BY <1>1, <1>2, <1>3 DEF Busy
<1>5. /\ Serving = world.replicas
      /\ \A p \in Op : ~Busy(p) /\ client[p].offer = None
  <2>1. Serving' = world.replicas /\ \A p \in Op \ {o} : ~Busy(p)'
    BY <1>2, <1>4 DEF Calm
  <2>2. Serving' = Serving
    BY <1>2 DEF Serving
  <2>3. QED  BY <1>2, <1>4, <2>1, <2>2 DEF Busy
<1>6. \A r \in world.replicas : Fresh(r)
  BY <1>5 DEF SurviveInv
<1>7. CalmInv'
  <2>1. \A p \in Op : client'[p].offer = None => ~Busy(p)'
    BY <1>1, <1>3, <1>4, <1>5
  <2>2. QED  BY <1>2, <2>1 DEF SurviveInv, CalmInv
<1>8. \A r \in Replica : Joins(r)'
  <2>1. Serving' = Serving
    BY <1>2 DEF Serving
  <2>2. QED  BY <1>2, <2>1 DEF SurviveInv, Joins
<1>9. ASSUME NEW p \in Op, NEW g \in Offer
      PROVE  Progress(p, g)'
  <2>1. CASE p = o
    <3>1. \A r \in world.replicas : r \in client'[o].left /\ client'[o].at # r /\ Fresh(r)'
      BY <1>1, <1>2, <1>3, <1>6, CertAssumption, WorldFields DEF Fresh, TypeInv
    <3>2. client'[o].offer = g => g.content # Bad
      BY <1>1, <1>2, <1>3
    <3>3. QED  BY <2>1, <3>1, <3>2 DEF Progress
  <2>2. CASE p # o
    BY <1>3, <1>5, <2>2, OfferFields DEF Progress
  <2>3. QED  BY <2>1, <2>2
<1>10. QED
  BY <1>2, <1>4, <1>7, <1>8, <1>9 DEF SurviveInv

LEMMA SurviveSend ==
  ASSUME TypeInv, TypeInv', SurviveInv, latest # None, UNCHANGED world,
         NEW o \in Op, NEW r \in world.replicas, Send(o, r)
  PROVE  SurviveInv'
<1> DEFINE c == client[o]
<1>1. /\ r \in Replica /\ c \in ClientState /\ c.at = None /\ r \in c.left /\ c.offer \in Offer
      /\ c.offer # None
  <2>1. r \in Replica /\ c \in ClientState /\ ClientShape(o) /\ c.at = None /\ r \in c.left
    BY WorldFields DEF Send, TypeInv, TypeOK, Shapes
  <2>2. c.offer # None
    BY <2>1 DEF ClientShape, NoClient
  <2>3. QED  BY <2>1, <2>2 DEF ClientState
<1>2. /\ UNCHANGED <<phase, disk, crtList, loaded, joiner, latest>> /\ Busy(o)
  BY <1>1 DEF Send, Busy, replicaVars, ghostVars
<1>3. /\ Serving = world.replicas /\ Serving' = Serving /\ phase[r] = "serving"
      /\ \A p \in Op \ {o} : ~Busy(p) /\ client[p].offer = None
  BY <1>2, AllServe DEF Serving
<1>4. /\ client'[o].at = r /\ client'[o].offer = c.offer /\ client'[o].left = c.left
      /\ \A p \in Op \ {o} : client'[p] = client[p]
  <2>1. client' = [client EXCEPT ![o] = [client[o] EXCEPT !.at = r]]
    BY <1>3 DEF Send
  <2>2. QED  BY <1>1, <2>1 DEF ClientState, TypeInv, TypeOK
<1>5. PICK h : /\ h.pc = IF c.offer.cert # None THEN "open" ELSE "configure"
               /\ ~h.undo /\ handler'[o][r] = h
               /\ \A p \in Op \ {o} : handler'[p] = handler[p]
  <2> DEFINE h == [Off EXCEPT !.pc = IF c.offer.cert # None THEN "open" ELSE "configure",
                              !.offer = c.offer]
  <2>1. handler' = [handler EXCEPT ![o][r] = h]
    BY <1>3 DEF Send
  <2>2. h.pc = (IF c.offer.cert # None THEN "open" ELSE "configure") /\ ~h.undo
    BY DEF Off
  <2> HIDE DEF h
  <2>3. QED  BY <1>1, <2>1, <2>2 DEF TypeInv, TypeOK
<1>6. Busy(o)' /\ \A p \in Op \ {o} : ~Busy(p)'
  BY <1>1, <1>3, <1>4, <1>5 DEF Busy
<1>7. CalmInv'
  <2>1. Calm
    BY <1>2 DEF SurviveInv, CalmInv
  <2>2. Calm'
    BY <1>3, <1>6, <2>1 DEF Calm
  <2>3. \A p \in Op : client'[p].offer = None => ~Busy(p)'
    BY <1>1, <1>4, <1>6
  <2>4. QED  BY <1>2, <2>2, <2>3 DEF SurviveInv, CalmInv
<1>8. \A q \in Replica : Joins(q)'
  BY <1>2, <1>3 DEF SurviveInv, Joins
<1>9. ASSUME NEW p \in Op, NEW f \in Offer
      PROVE  Progress(p, f)'
  <2>1. CASE p = o
    <3>1. SUFFICES ASSUME c.offer = f
                   PROVE  /\ f.content # Bad
                          /\ \A q \in world.replicas :
                                /\ q \in c.left /\ q # r => Fresh(q)'
                                /\ q \notin c.left => Done(f, q)'
                          /\ Underway(f, r, h)'
      BY <1>4, <1>5, <2>1 DEF Progress
    <3>2. /\ f.content # Bad
          /\ \A q \in world.replicas : /\ q \in c.left => Fresh(q)
                                       /\ q \notin c.left => Done(f, q)
      BY <1>1, <3>1, CertAssumption, WorldFields DEF SurviveInv, Progress, TypeInv
    <3>3. Underway(f, r, h)'
      BY <1>1, <1>2, <1>5, <3>1, <3>2 DEF Underway, Fresh, After
    <3>4. QED  BY <1>2, <3>2, <3>3 DEF Fresh, Done, After
  <2>2. CASE p # o
    BY <1>3, <1>4, <2>2, OfferFields DEF Progress
  <2>3. QED  BY <2>1, <2>2
<1>10. QED
  BY <1>2, <1>6, <1>7, <1>8, <1>9 DEF SurviveInv

\* All replicas are done: what was put is what all of them serve.
LEMMA SurviveReply ==
  ASSUME TypeInv, TypeInv', SurviveInv, latest # None, UNCHANGED world, NEW o \in Op, Reply(o)
  PROVE  SurviveInv'
<1> DEFINE f == client[o].offer
<1>1. f # None /\ client[o].left = {} /\ Busy(o)
  BY DEF Reply, Busy
<1>2. /\ Serving = world.replicas /\ f \in Offer
      /\ \A p \in Op \ {o} : ~Busy(p) /\ client[p].offer = None
  BY <1>1, AllServe
<1>3. f.content # Bad /\ \A r \in world.replicas : Done(f, r)
  <2>1. Progress(o, f)
    BY <1>2 DEF SurviveInv
  <2>2. QED  BY <1>1, <2>1 DEF Progress
<1>4. /\ UNCHANGED <<phase, disk, loaded, joiner, handler>> /\ latest' = After(f)
      /\ client' = [client EXCEPT ![o] = NoClient]
  BY DEF Reply, After, replicaVars
<1>5. Serving' = world.replicas
  BY <1>2, <1>4 DEF Serving
<1>6. client'[o] = NoClient /\ \A p \in Op \ {o} : client'[p] = client[p]
  BY <1>4 DEF TypeInv, TypeOK
<1>7. \A p \in Op : ~Busy(p)' /\ client'[p].offer = None
  <2>1. \A r \in Replica : handler[o][r] = Off
    BY <1>1, CertAssumption DEF TypeInv, Shapes, ClientShape, HandlerShape
  <2>2. QED  BY <1>2, <1>4, <1>6, <2>1 DEF Busy, NoClient
<1>8. CalmInv'
  <2>1. Calm
    BY <1>1 DEF SurviveInv, CalmInv
  <2>2. Serving' = Serving
    BY <1>2, <1>5
  <2>3. Calm'
    BY <1>7, <2>1, <2>2 DEF Calm
  <2>4. QED  BY <1>4, <1>7, <2>3 DEF SurviveInv, CalmInv
<1>9. \A c \in Cert : latest'[c] \in Content \cup {None}
  <2>1. /\ After(f) \in [Cert -> File]
        /\ \A c \in Files(After(f)) : After(f)[c] \in Content
    BY <1>2, <1>3, AfterAccepted
  <2>2. QED  BY <1>4, <2>1 DEF Files
<1>10. \A r \in Serving' : Fresh(r)'
  BY <1>3, <1>4, <1>5 DEF Fresh, Done
<1>11. \A r \in Replica : Joins(r)'
  BY <1>2, <1>4 DEF Joins, Serving, SurviveInv, CalmInv
<1>12. \A p \in Op, g \in Offer : Progress(p, g)'
  BY <1>7, OfferFields DEF Progress
<1>13. QED
  BY <1>8, <1>9, <1>10, <1>11, <1>12 DEF SurviveInv

LEMMA SurviveCrash ==
  ASSUME TypeInv, TypeInv', SurviveInv, latest # None, latest' # None, UNCHANGED world,
         NEW r \in world.replicas, Crash(r)
  PROVE  SurviveInv'
<1>1. /\ Calm' /\ latest' = latest /\ phase[r] # "down" /\ r \in Replica
      /\ \A o \in Op : ~Busy(o)
      /\ phase' = [phase EXCEPT ![r] = "down"] /\ disk' = [disk EXCEPT ![r] = NoFiles]
      /\ loaded' = [loaded EXCEPT ![r] = NoFiles]
  BY WorldFields DEF Crash, TypeInv
<1>2. phase'[r] = "down" /\ \A q \in Replica \ {r} : /\ phase'[q] = phase[q]
                                                     /\ disk'[q] = disk[q] /\ loaded'[q] = loaded[q]
  BY <1>1 DEF TypeInv, TypeOK
<1>3. \A o \in Op : ~Busy(o)' /\ client'[o].offer = None
  <2>1. ASSUME NEW o \in Op
        PROVE  ~Busy(o)' /\ client'[o].offer = None
    <3>1. client[o].offer = None /\ client[o] \in ClientState /\ \A q \in Replica : handler[o][q] = Off
      BY <1>1 DEF Busy, TypeInv, TypeOK
    <3>2. client'[o].offer = None
      <4>1. client'[o] = Crashed(client[o], r)
        BY <1>1, CrashEffect
      <4>2. Crashed(client[o], r) = NoClient \/ Crashed(client[o], r).offer = client[o].offer
        BY <1>1, <3>1, CrashedClient
      <4>3. NoClient.offer = None
        BY DEF NoClient
      <4>4. QED  BY <3>1, <4>1, <4>2, <4>3
    <3>3. \A q \in Replica : handler'[o][q] = Off
      BY <1>1, <3>1, CrashEffect
    <3>4. QED  BY <3>2, <3>3 DEF Busy
  <2>2. QED  BY <2>1
<1>4. CalmInv'
  <2>1. \A q \in Replica : phase'[q] # "down" => q \in world.replicas
    BY <1>1, <1>2 DEF SurviveInv, CalmInv
  <2>2. QED  BY <1>1, <1>3, <2>1 DEF CalmInv
<1>5. \A q \in Serving' : Fresh(q)'
  BY <1>1, <1>2 DEF SurviveInv, Serving, Fresh
<1>6. ASSUME NEW q \in Replica
      PROVE  Joins(q)'
  <2>1. SUFFICES ASSUME phase'[q] = "starting"  PROVE FALSE
    BY DEF Joins
  <2>2. q # r /\ q \in world.replicas
    BY <1>2, <2>1 DEF SurviveInv, CalmInv
  <2>3. Cardinality(world.replicas \ Serving') <= 1
    BY <1>1 DEF Calm
  <2>4. q \notin Serving' /\ r \notin Serving'
    BY <1>2, <2>1 DEF Serving
  <2>5. world.replicas \subseteq Replica
    BY WorldFields DEF TypeInv
  <2>6. QED  BY <2>2, <2>3, <2>4, <2>5, OneAway
<1>7. \A o \in Op, f \in Offer : Progress(o, f)'
  BY <1>3, OfferFields DEF Progress
<1>8. QED
  BY <1>1, <1>4, <1>5, <1>6, <1>7 DEF SurviveInv

LEMMA SurviveStart ==
  ASSUME TypeInv, TypeInv', SurviveInv, latest # None, latest' # None, UNCHANGED world,
         NEW r \in world.replicas, NEW to \in SUBSET Replica, Start(r, to)
  PROVE  SurviveInv'
<1>1. /\ phase[r] = "down" /\ phase' = [phase EXCEPT ![r] = "starting"]
      /\ joiner' = [joiner EXCEPT ![r] = [NoJoin EXCEPT !.left = to]]
      /\ UNCHANGED <<disk, loaded, client, handler, latest>> /\ Serving \subseteq to
      /\ r \in Replica
  BY WorldFields DEF Start, TypeInv
<1>2. /\ phase'[r] = "starting" /\ joiner'[r].left = to /\ joiner'[r].best = NoFiles
      /\ \A q \in Replica \ {r} : phase'[q] = phase[q] /\ joiner'[q] = joiner[q]
  <2>1. [NoJoin EXCEPT !.left = to].left = to /\ [NoJoin EXCEPT !.left = to].best = NoFiles
    BY DEF NoJoin
  <2>2. QED  BY <1>1, <2>1 DEF TypeInv, TypeOK
<1>3. Serving' = Serving /\ \A o \in Op : Busy(o)' <=> Busy(o)
  <2>1. Serving' = Serving
    BY <1>1, <1>2 DEF Serving
  <2>2. QED  BY <1>1, <2>1 DEF Busy
<1>4. CalmInv'
  <2>1. Calm' <=> Calm
    BY <1>3 DEF Calm
  <2>2. \A q \in Replica : phase'[q] # "down" => q \in world.replicas
    BY <1>2 DEF SurviveInv, CalmInv
  <2>3. QED  BY <1>1, <1>3, <2>1, <2>2 DEF SurviveInv, CalmInv
<1>5. \A q \in Serving : Fresh(q) <=> Fresh(q)'
  BY <1>1 DEF Fresh
<1>6. \A q \in Replica : Joins(q)'
  BY <1>1, <1>2, <1>3 DEF SurviveInv, Joins
<1>7. \A o \in Op, f \in Offer : Progress(o, f)'
  <2>1. \A o \in Op : client'[o].offer = None
    BY <1>1, NobodyBusy
  <2>2. QED  BY <2>1, OfferFields DEF Progress
<1>8. QED
  BY <1>1, <1>3, <1>4, <1>5, <1>6, <1>7 DEF SurviveInv

\* Whoever serves has all certificates, and more than none.
LEMMA SurviveAsk ==
  ASSUME TypeInv, TypeInv', SurviveInv, latest # None, UNCHANGED world,
         NEW r \in world.replicas, NEW q \in world.replicas, Ask(r, q)
  PROVE  SurviveInv'
<1> DEFINE b == joiner[r].best
           n(d) == Cardinality(Files(d))
           a == IF n(GetAll(q)) > n(b) THEN GetAll(q) ELSE b
<1>1. /\ phase[r] = "starting" /\ r \in Replica /\ q \in Replica
      /\ joiner' = [joiner EXCEPT ![r] = [left |-> joiner[r].left \ {q}, best |-> a]]
      /\ UNCHANGED <<phase, disk, loaded, client, handler, latest>>
  BY WorldFields DEF Ask, ghostVars, TypeInv
<1>2. /\ joiner'[r].left = joiner[r].left \ {q} /\ joiner'[r].best = a
      /\ \A s \in Replica \ {r} : joiner'[s] = joiner[s]
  BY <1>1 DEF TypeInv, TypeOK
<1>3. Serving' = Serving /\ \A o \in Op : Busy(o)' <=> Busy(o)
  BY <1>1 DEF Serving, Busy
<1>4. CalmInv'
  <2>1. Calm' <=> Calm
    BY <1>3 DEF Calm
  <2>2. QED  BY <1>1, <1>3, <2>1 DEF SurviveInv, CalmInv
<1>5. /\ n(NoFiles) = 0 /\ n(latest) \in Nat
      /\ n(latest) = 0 => latest = NoFiles
  <2>1. Files(NoFiles) = {}
    BY DEF Files, NoFiles
  <2>2. Files(latest) \in SUBSET Cert
    BY DEF Files
  <2>3. IsFiniteSet(Files(latest))
    BY <2>2, FS_Subset, CertAssumption
  <2>4. Files(latest) = {} => latest = NoFiles
    BY DEF Files, NoFiles, TypeInv, TypeOK
  <2>5. QED  BY <2>1, <2>3, <2>4, FS_EmptySet, FS_CardinalityType
<1>6. GetAll(q) = IF q \in Serving THEN latest ELSE NoFiles
  <2>1. q \in Serving => Fresh(q)
    BY <1>1, NobodyBusy DEF SurviveInv
  <2>2. QED  BY <1>1, <2>1 DEF GetAll, Serving, Fresh
<1>7. Joins(r)'
  <2> HIDE DEF n
  <2>1. b = latest \/ (b = NoFiles /\ Serving \subseteq joiner[r].left)
    BY <1>1 DEF SurviveInv, Joins
  <2>2. CASE b = latest
    BY <1>1, <1>2, <1>5, <1>6, <2>2 DEF Joins
  <2>3. CASE b = NoFiles /\ Serving \subseteq joiner[r].left /\ q \in Serving
    BY <1>1, <1>2, <1>5, <1>6, <2>3 DEF Joins
  <2>4. CASE b = NoFiles /\ Serving \subseteq joiner[r].left /\ q \notin Serving
    BY <1>1, <1>2, <1>3, <1>5, <1>6, <2>4 DEF Joins
  <2>5. QED  BY <2>1, <2>2, <2>3, <2>4
<1>8. \A s \in Replica : Joins(s)'
  BY <1>1, <1>2, <1>3, <1>7 DEF SurviveInv, Joins
<1>9. \A s \in Serving : Fresh(s) <=> Fresh(s)'
  BY <1>1 DEF Fresh
<1>10. \A o \in Op, f \in Offer : Progress(o, f)'
  <2>1. \A o \in Op : client'[o].offer = None
    BY <1>1, NobodyBusy
  <2>2. QED  BY <2>1, OfferFields DEF Progress
<1>11. QED
  BY <1>1, <1>3, <1>4, <1>8, <1>9, <1>10 DEF SurviveInv

LEMMA SurviveJoin ==
  ASSUME TypeInv, TypeInv', SurviveInv, latest # None, UNCHANGED world,
         NEW r \in world.replicas, Join(r)
  PROVE  SurviveInv'
<1>1. /\ phase[r] = "starting" /\ joiner[r].left = {} /\ r \in Replica
      /\ phase' = [phase EXCEPT ![r] = "serving"]
      /\ disk' = [disk EXCEPT ![r] = joiner[r].best]
      /\ loaded' = [loaded EXCEPT ![r] = IF Valid(joiner[r].best, Files(joiner[r].best))
                                         THEN joiner[r].best ELSE loaded[r]]
      /\ UNCHANGED <<client, handler, latest>>
  BY WorldFields DEF Join, Listen, TypeInv
<1>2. Calm
  BY DEF SurviveInv, CalmInv
<1>3. joiner[r].best = latest
  BY <1>1, <1>2 DEF SurviveInv, Joins, Calm
<1>4. Valid(latest, Files(latest))
  BY DEF SurviveInv, Valid, Files
<1>5. /\ phase'[r] = "serving" /\ disk'[r] = latest /\ loaded'[r] = latest
      /\ \A q \in Replica \ {r} : /\ phase'[q] = phase[q]
                                  /\ disk'[q] = disk[q] /\ loaded'[q] = loaded[q]
  BY <1>1, <1>3, <1>4 DEF TypeInv, TypeOK
<1>6. Serving' = Serving \cup {r}
  BY <1>1, <1>5 DEF Serving
<1>7. \A o \in Op : ~Busy(o) /\ ~Busy(o)' /\ client'[o].offer = None
  BY <1>1, NobodyBusy DEF Busy
<1>8. CalmInv'
  <2>1. Cardinality(world.replicas \ Serving') <= 1
    <3>1. IsFiniteSet(world.replicas \ Serving)
      <4>1. world.replicas \ Serving \in SUBSET Replica
        BY WorldFields DEF TypeInv
      <4>2. QED  BY <4>1, FS_Subset, CertAssumption
    <3>2. world.replicas \ Serving' \in SUBSET (world.replicas \ Serving)
      BY <1>6
    <3>3. /\ Cardinality(world.replicas \ Serving') <= Cardinality(world.replicas \ Serving)
          /\ Cardinality(world.replicas \ Serving') \in Nat
          /\ Cardinality(world.replicas \ Serving) \in Nat
      BY <3>1, <3>2, FS_Subset, FS_CardinalityType
    <3>4. QED  BY <1>2, <3>3 DEF Calm
  <2>2. Calm'
    BY <1>6, <1>7, <2>1 DEF Calm
  <2>3. \A q \in Replica : phase'[q] # "down" => q \in world.replicas
    BY <1>5 DEF SurviveInv, CalmInv
  <2>4. QED  BY <1>7, <2>2, <2>3 DEF CalmInv
<1>9. \A q \in Serving' : Fresh(q)'
  BY <1>1, <1>5, <1>6, <1>7 DEF SurviveInv, Fresh, Serving
<1>10. ASSUME NEW q \in Replica
       PROVE  Joins(q)'
  <2>1. SUFFICES ASSUME phase'[q] = "starting"  PROVE FALSE
    BY DEF Joins
  <2>2. q # r /\ q \in world.replicas /\ q \notin Serving /\ r \notin Serving
    BY <1>1, <1>5, <2>1 DEF SurviveInv, CalmInv, Serving
  <2>3. world.replicas \subseteq Replica /\ Cardinality(world.replicas \ Serving) <= 1
    BY <1>2, WorldFields DEF Calm, TypeInv
  <2>4. QED  BY <2>2, <2>3, OneAway
<1>11. \A o \in Op, f \in Offer : Progress(o, f)'
  BY <1>7, OfferFields DEF Progress
<1>12. QED
  BY <1>1, <1>8, <1>9, <1>10, <1>11 DEF SurviveInv

\* Once things overlapped, nothing is said any more.
LEMMA LatestStays ==
  ASSUME Step, latest' # None
  PROVE  latest # None
<1>1. ASSUME NEW o, NEW f, NEW r, NEW to, Request(o, f, r, to) \/ Start(r, to) \/ Crash(r)
      PROVE  latest # None
  BY <1>1 DEF Request, Start, Crash
<1>2. ASSUME NEW o, Reply(o)
      PROVE  latest # None
  BY <1>2 DEF Reply
<1>3. ASSUME NEW o, NEW r, NEW q, Send(o, r) \/ Join(r) \/ JoinPartly(r) \/ Ask(r, q)
      PROVE  latest # None
  BY <1>3 DEF Send, Join, JoinPartly, Ask, ghostVars
<1>4. ASSUME NEW o, NEW r, Handler(o, r)
      PROVE  latest # None
  <2>1. CASE Open(o, r) \/ Fill(o, r) \/ Register(o, r) \/ Unregister(o, r)
    BY <2>1 DEF Open, Fill, Register, Unregister, ghostVars
  <2>3. CASE OpenFails(o, r) \/ FillFails(o, r)
    BY <2>3 DEF OpenFails, FillFails
  <2>2. CASE List(o, r) \/ WriteList(o, r) \/ Load(o, r) \/ GiveUp(o, r)
    BY <2>2 DEF List, WriteList, Load, GiveUp, ghostVars
  <2>4. QED  BY <1>4, <2>1, <2>2, <2>3 DEF Handler
<1>5. QED  BY <1>1, <1>2, <1>3, <1>4 DEF Step

LEMMA SurviveStep == TypeInv /\ SurviveInv /\ [Next]_vars => SurviveInv'
<1> SUFFICES ASSUME TypeInv, SurviveInv, [Next]_vars, latest' # None  PROVE SurviveInv'
  BY DEF SurviveInv
<1>1. TypeInv'
  BY CertTypeStep
<1>2. CASE UNCHANGED vars
  <2>1. UNCHANGED <<world, phase, disk, crtList, loaded, joiner, client, handler, latest>>
    BY <1>2 DEF vars, replicaVars, ghostVars
  <2>2. Serving' = Serving /\ \A o \in Op : Busy(o)' <=> Busy(o)
    BY <2>1 DEF Serving, Busy
  <2>3. CalmInv' <=> CalmInv
    <3>1. Calm' <=> Calm
      BY <2>1, <2>2 DEF Calm
    <3>2. QED  BY <2>1, <2>2, <3>1 DEF CalmInv
  <2>4. \A r \in Replica : (Fresh(r)' <=> Fresh(r)) /\ (Joins(r)' <=> Joins(r))
    BY <2>1, <2>2 DEF Fresh, Joins
  <2>5. \A o \in Op, f \in Offer : Progress(o, f)' <=> Progress(o, f)
    BY <2>1 DEF Progress, Fresh, Done, After, Underway, Files
  <2>6. Serving \subseteq Replica
    BY DEF Serving
  <2>7. QED  BY <2>1, <2>2, <2>3, <2>4, <2>5, <2>6 DEF SurviveInv
<1>3. CASE Next
  <2>1. /\ UNCHANGED world /\ Step /\ latest # None
        /\ world.replicas \subseteq Replica /\ world.offers \subseteq Offer
    BY <1>3, WorldFields, LatestStays DEF Next, TypeInv
  <2>2. ASSUME NEW o \in Op, NEW f \in world.offers, NEW r \in world.replicas,
               NEW to \in SUBSET world.replicas, Request(o, f, r, to)
        PROVE  SurviveInv'
    <3>1. f \in Offer /\ r \in Replica /\ to \in SUBSET Replica
      BY <2>1
    <3>2. QED  BY <1>1, <2>1, <2>2, <3>1, SurviveRequest
  <2>3. ASSUME NEW o \in Op, NEW r \in world.replicas, Send(o, r) \/ Handler(o, r)
        PROVE  SurviveInv'
    BY <1>1, <2>1, <2>3, SurviveSend, SurviveHandler
  <2>4. ASSUME NEW o \in Op, Reply(o)
        PROVE  SurviveInv'
    BY <1>1, <2>1, <2>4, SurviveReply
  <2>5. ASSUME NEW r \in world.replicas, Crash(r) \/ Join(r) \/ JoinPartly(r)
        PROVE  SurviveInv'
    BY <1>1, <2>1, <2>5, SurviveCrash, SurviveJoin DEF JoinPartly
  <2>6. ASSUME NEW r \in world.replicas, NEW to \in SUBSET (world.replicas \ {r}), Start(r, to)
        PROVE  SurviveInv'
    <3>1. to \in SUBSET Replica
      BY <2>1
    <3>2. QED  BY <1>1, <2>1, <2>6, <3>1, SurviveStart
  <2>7. ASSUME NEW r \in world.replicas, NEW q \in world.replicas, Ask(r, q)
        PROVE  SurviveInv'
    BY <1>1, <2>1, <2>7, SurviveAsk
  <2>8. QED  BY <2>1, <2>2, <2>3, <2>4, <2>5, <2>6, <2>7 DEF Step
<1>4. QED  BY <1>2, <1>3

--------------------------------------------------------------------------------
\* "When a new replica is deployed, it will synchronize with other replicas and
\* recuperate their certificates": while requests and restarts come one at a time,
\* every request that puts a certificate reaches all replicas, and a replica that
\* starts asks all that serve, every replica that is up has and serves exactly the
\* certificates that were put, however long that goes on.
THEOREM CertificatesSurvive == Spec => []CertsSurvive
<1>1. SurviveInv => CertsSurvive
  BY DEF SurviveInv, CertsSurvive, Fresh
<1>2. QED
  BY CertTypeInit, CertTypeStep, SurviveInit, SurviveStep, <1>1, PTL DEF Spec

================================================================================
