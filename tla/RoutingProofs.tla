----------------------------- MODULE RoutingProofs -----------------------------
(***************************************************************************)
(* Theorems about Routing for every deployment: type correctness, the      *)
(* users of a service, the order of the rules, and what the frontends name *)
(* and the backend files define.                                           *)
(***************************************************************************)
EXTENDS Routing, SequenceTheorems, FiniteSetTheorems, WellFoundedInduction, TLAPS

--------------------------------------------------------------------------------
(* Least elements and first gaps *)

LEMMA LeastNat ==
  ASSUME NEW T \in SUBSET Nat, T # {}
  PROVE  \E m \in T : \A k \in T : m <= k
<1> DEFINE R == {ss \in Nat \X Nat : ss[1] < ss[2]}
<1>1. R = OpToRel(<, Nat)
  BY Zenon DEF OpToRel
<1>2. PICK m \in T : \A k \in T : <<k, m>> \notin R
  BY <1>1, NatLessThanWellFounded, WFMin, Zenon
<1>3. ASSUME NEW k \in T  PROVE m <= k
  <2>1. <<k, m>> \in Nat \X Nat
    OBVIOUS
  <2>2. ~ (k < m)
    BY <1>2, <2>1
  <2>3. QED  BY <2>2
<1>4. QED  BY <1>3

LEMMA IndexBound == MaxIndex \in Nat /\ MaxIndex > 0
  BY RoutingAssumption

LEMMA FirstGap ==
  ASSUME NEW given \in SUBSET (1..MaxIndex)
  PROVE  /\ BeforeGap(given) \in 0..MaxIndex
         /\ 1..BeforeGap(given) \subseteq given
         /\ BeforeGap(given) + 1 \notin given
<1> DEFINE missing == (1..(MaxIndex + 1)) \ given
<1>1. MaxIndex + 1 \in missing /\ missing \in SUBSET Nat
  BY RoutingAssumption
<1>2. PICK m \in missing : \A k \in missing : m <= k
  BY <1>1, LeastNat
<1>3. m - 1 \in 0..MaxIndex /\ (m - 1) + 1 \notin given
  BY <1>1, <1>2, RoutingAssumption
<1>4. 1..(m - 1) \subseteq given
  BY <1>1, <1>2, RoutingAssumption
<1>5. QED  BY <1>3, <1>4 DEF BeforeGap

--------------------------------------------------------------------------------
(* Type correctness *)

LEMMA SiteFields ==
  ASSUME NEW x \in Site
  PROVE  /\ Deployment[x].requests \in SUBSET Request
         /\ Deployment[x].environment \in Seq(Request)
         /\ \A i \in DOMAIN Deployment[x].environment : Deployment[x].environment[i].creds = NoCreds
         /\ Deployment[x].users \in Credentials /\ Deployment[x].encrypted \in BOOLEAN
         /\ Deployment[x].protocol \in ModeText
<1>1. Deployment[x] \in SiteRecord
  BY RoutingAssumption
<1> DEFINE e == Deployment[x].environment
<1>2. e \in Seq({q \in RequestRecord : q.creds = NoCreds})
  BY <1>1 DEF SiteRecord
<1>3. e \in [1..Len(e) -> {q \in RequestRecord : q.creds = NoCreds}] /\ Len(e) \in Nat
  BY <1>2, LenProperties
<1>4. \A i \in 1..Len(e) : e[i] \in Request
  BY <1>3 DEF Request
<1>5. e \in Seq(Request)
  BY <1>3, <1>4, SeqDef
<1>6. QED  BY <1>1, <1>3, <1>5 DEF SiteRecord, Request

LEMMA RequestFields ==
  ASSUME NEW q \in Request
  PROVE  /\ q \in RequestRecord /\ q.svc \in Service
         /\ q.acl # None => q.acl \in Acl
         /\ q.svc \in Acl
<1>1. PICK x \in Site : \/ q \in Deployment[x].requests
                        \/ \E i \in DOMAIN Deployment[x].environment : q = Deployment[x].environment[i]
  BY DEF Request
<1>2. Deployment[x] \in SiteRecord
  BY RoutingAssumption
<1>3. q \in RequestRecord
  <2>1. CASE q \in Deployment[x].requests
    BY <1>2, <2>1 DEF SiteRecord
  <2>2. CASE \E i \in DOMAIN Deployment[x].environment : q = Deployment[x].environment[i]
    <3> DEFINE e == Deployment[x].environment
    <3>1. e \in Seq({r \in RequestRecord : r.creds = NoCreds})
      BY <1>2 DEF SiteRecord
    <3>2. e \in [1..Len(e) -> {r \in RequestRecord : r.creds = NoCreds}]
      BY <3>1, LenProperties
    <3>3. QED  BY <2>2, <3>2
  <2>3. QED  BY <1>1, <2>1, <2>2
<1>4. QED  BY <1>3 DEF Service, Acl

LEMMA DestType ==
  ASSUME NEW params \in [0..MaxIndex -> DestParams], NEW i \in 0..MaxIndex, NEW protocol \in ModeText
  PROVE  WithPath(Dest(params, i)) \in DestRecord /\ EnvDest(params, i, protocol) \in DestRecord
<1>1. params[i] \in DestParams /\ params[0] \in DestParams
  BY RoutingAssumption
<1>2. Dest(params, i) \in DestRecord
  BY <1>1 DEF Dest, Stated, DestRecord, DestParams, Nothing, ModeText
<1>3. EnvDest(params, i, protocol) \in DestRecord
  <2> DEFINE mode == CASE params[i].mode # None           -> params[i].mode
                       [] params[i].mode = None /\ i = 0 -> protocol
                       [] OTHER                           -> "http"
  <2>1. mode \in ModeText
    BY <1>1 DEF DestParams, ModeText
  <2>2. EnvDest(params, i, protocol) =
           [index |-> 0, path |-> params[i].path, domain |-> params[i].domain,
            port |-> params[i].port, https |-> IF i = 0 THEN params[i].https ELSE 0,
            src |-> params[i].src, group |-> None, mode |-> mode]
    BY DEF EnvDest
  <2> HIDE DEF mode
  <2>3. QED  BY <1>1, <2>1, <2>2, RoutingAssumption DEF DestRecord, DestParams
<1>4. QED  BY <1>2, <1>3 DEF WithPath, DestRecord, PathKind

LEMMA DestListType ==
  ASSUME NEW params \in [0..MaxIndex -> DestParams]
  PROVE  /\ DestList(params) \in Seq(DestRecord)
         /\ DestList(params) # <<>>
<1> DEFINE given == {i \in 1..MaxIndex : Given(params, i)}
           n  == LastIndex(params)
<1>1. n \in 0..MaxIndex
  <2>1. given \in SUBSET (1..MaxIndex)
    OBVIOUS
  <2>2. QED  BY <2>1, FirstGap DEF LastIndex
<1>2. \A i \in 0..MaxIndex : WithPath(Dest(params, i)) \in DestRecord
  BY DestType DEF ModeText
<1> HIDE DEF n
<1>3. CASE n > 0
  <2>1. DestList(params) = [i \in 1..n |-> WithPath(Dest(params, i))]
    BY <1>3 DEF DestList, n
  <2>2. DestList(params) \in [1..n -> DestRecord] /\ n \in Nat
    BY <1>1, <1>2, <2>1, IndexBound
  <2>3. DestList(params) \in Seq(DestRecord)
    BY <2>2, SeqDef
  <2>4. Len(DestList(params)) = n
    BY <2>2, <2>3, LenProperties
  <2>5. QED  BY <1>3, <2>3, <2>4, EmptySeq
<1>4. CASE ~(n > 0)
  <2>1. DestList(params) = <<WithPath(Dest(params, 0))>>
    BY <1>4 DEF DestList, n
  <2>2. WithPath(Dest(params, 0)) \in DestRecord
    BY <1>2, RoutingAssumption
  <2>3. QED  BY <2>1, <2>2
<1>5. QED  BY <1>3, <1>4

LEMMA EnvDestListType ==
  ASSUME NEW params \in [0..MaxIndex -> DestParams], NEW protocol \in ModeText
  PROVE  EnvDestList(params, protocol) \in Seq(DestRecord)
<1> DEFINE both  == {i \in 1..MaxIndex : params[i].path # {} /\ params[i].port # 0}
           n  == BeforeGap(both)
           first == IF params[0].path # {} \/ params[0].port # 0
                    THEN <<EnvDest(params, 0, protocol)>> ELSE <<>>
           rest  == [i \in 1..n |-> EnvDest(params, i, protocol)]
<1>1. n \in 0..MaxIndex
  <2>1. both \in SUBSET (1..MaxIndex)
    OBVIOUS
  <2>2. QED  BY <2>1, FirstGap
<1>2. \A i \in 0..MaxIndex : EnvDest(params, i, protocol) \in DestRecord
  BY DestType
<1> HIDE DEF n
<1>3. first \in Seq(DestRecord)
  <2>1. EnvDest(params, 0, protocol) \in DestRecord
    BY <1>2, RoutingAssumption
  <2>2. QED  BY <2>1
<1>4. rest \in Seq(DestRecord)
  <2>1. rest \in [1..n -> DestRecord] /\ n \in Nat
    BY <1>1, <1>2, IndexBound
  <2>2. QED  BY <2>1, SeqDef
<1>5. EnvDestList(params, protocol) = first \o rest
  BY DEF EnvDestList, n
<1>6. QED  BY <1>3, <1>4, <1>5, ConcatProperties

Taken == [name: UserName, pass: STRING \cup {None}, encrypted: BOOLEAN]

\* What Extract keeps, it keeps where it was.
IsExcerpt(users, entries, encrypted, skipped) ==
    /\ DOMAIN users \in SUBSET Nat
    /\ \A i \in DOMAIN entries :
          ~Nameless(entries[i].name) /\ entries[i].pass \notin skipped => i \in DOMAIN users
    /\ \A i \in DOMAIN users :
          /\ i \in DOMAIN entries
          /\ [name |-> users[i].name, pass |-> users[i].pass] = entries[i]
          /\ users[i] \in Taken
          /\ users[i].pass \notin skipped /\ ~Nameless(users[i].name)
          /\ users[i].pass # None => users[i].encrypted = encrypted

LEMMA Extracted ==
  ASSUME NEW entries \in Credentials, NEW encrypted \in BOOLEAN, NEW skipped, Blank \in skipped
  PROVE  IsExcerpt(Extract(entries, encrypted, skipped), entries, encrypted, skipped)
<1> DEFINE users == Extract(entries, encrypted, skipped)
           Entry == [name: UserName, pass: STRING \cup {None, Blank}]
<1>1. /\ DOMAIN entries = 1..Len(entries) /\ Len(entries) \in Nat
      /\ \A i \in DOMAIN entries : entries[i] \in Entry
  <2> HIDE DEF Entry
  <2>1. entries \in Seq(Entry)
    BY DEF Credentials, Entry
  <2>2. Len(entries) \in Nat /\ entries \in [1..Len(entries) -> Entry]
    BY <2>1, LenProperties
  <2>3. QED  BY <2>2
<1>2. DOMAIN users = {i \in DOMAIN entries :
                         ~Nameless(entries[i].name) /\ entries[i].pass \notin skipped}
  BY DEF Extract
<1>3. ASSUME NEW i \in DOMAIN users
      PROVE  /\ [name |-> users[i].name, pass |-> users[i].pass] = entries[i]
             /\ users[i] \in Taken
             /\ users[i].pass \notin skipped /\ ~Nameless(users[i].name)
             /\ users[i].pass # None => users[i].encrypted = encrypted
  <2>1. users[i] = [name |-> entries[i].name, pass |-> entries[i].pass,
                    encrypted |-> IF entries[i].pass = None THEN FALSE ELSE encrypted]
    BY <1>2 DEF Extract, User
  <2>2. entries[i] \in Entry /\ entries[i].pass \notin skipped /\ ~Nameless(entries[i].name)
    BY <1>1, <1>2
  <2>3. users[i].name = entries[i].name /\ users[i].pass = entries[i].pass
        /\ users[i].encrypted = IF entries[i].pass = None THEN FALSE ELSE encrypted
    BY <2>1
  <2>4. entries[i] = [name |-> entries[i].name, pass |-> entries[i].pass]
        /\ entries[i].name \in UserName /\ entries[i].pass \in STRING \cup {None}
    BY <2>2
  <2>5. users[i] \in Taken
    <3> DEFINE e == IF entries[i].pass = None THEN FALSE ELSE encrypted
    <3>1. e \in BOOLEAN
      OBVIOUS
    <3>2. users[i] = [name |-> entries[i].name, pass |-> entries[i].pass, encrypted |-> e]
      BY <2>1
    <3> HIDE DEF e, users
    <3>3. QED  BY <2>4, <3>1, <3>2 DEF Taken
  <2>6. QED  BY <2>2, <2>3, <2>4, <2>5
<1>4. DOMAIN users \in SUBSET Nat
  <2> HIDE DEF users
  <2>1. QED  BY <1>1, <1>2
<1> HIDE DEF users
<1>5. QED  BY <1>2, <1>3, <1>4 DEF IsExcerpt, users

\* The source of a missing password is the first namesake, whose name may be
\* typed otherwise.
LEMMA PasswordFrom ==
  ASSUME NEW u, NEW source, DOMAIN source \in SUBSET Nat, ~HasPassword(u),
         \E i \in DOMAIN source : EqualFold(u.name, source[i].name)
  PROVE  \E i \in DOMAIN source :
            /\ EqualFold(u.name, source[i].name)
            /\ WithPassword(u, source) =
                  [u EXCEPT !.pass = source[i].pass, !.encrypted = source[i].encrypted]
<1> DEFINE same == {i \in DOMAIN source : EqualFold(u.name, source[i].name)}
           k == CHOOSE i \in same : \A j \in same : i <= j
<1>1. \E i \in same : \A j \in same : i <= j
  <2>1. same \in SUBSET Nat /\ same # {}
    OBVIOUS
  <2>2. QED  BY <2>1, LeastNat
<1>2. k \in same
  BY <1>1
<1>3. same # {}
  OBVIOUS
<1>4. WithPassword(u, source) = [u EXCEPT !.pass = source[k].pass, !.encrypted = source[k].encrypted]
  BY <1>3 DEF WithPassword
<1>5. QED  BY <1>2, <1>4

--------------------------------------------------------------------------------
(* Users *)

LEMMA MergedAsAsked ==
  ASSUME NEW asked \in Asked, NEW global \in Credentials, NEW globalEncrypted \in BOOLEAN
  PROVE  LET got == mergeUsers(asked.users, asked.secret, asked.encrypted, global, globalEncrypted)
         IN  got \in SUBSET UserRecord /\ AsAsked(asked, got, global, globalEncrypted)
<1> DEFINE paramUsers == IF asked.users = None THEN Nobody ELSE Extract(asked.users, asked.encrypted, {Blank})
           fileUsers  == FromFile(asked.secret, asked.encrypted)
           source     == IF asked.secret = None THEN Extract(global, globalEncrypted, {Blank, None}) ELSE fileUsers
           collected  == IF DOMAIN paramUsers = {} THEN fileUsers
                         ELSE [i \in DOMAIN paramUsers |-> WithPassword(paramUsers[i], source)]
           ret == {collected[i] : i \in {j \in DOMAIN collected : HasPassword(collected[j])}}
           got == mergeUsers(asked.users, asked.secret, asked.encrypted, global, globalEncrypted)
           Entries(list) == {list[i] : i \in DOMAIN list}
           own    == IF asked.users = None THEN {} ELSE Entries(asked.users)
           secret == IF asked.secret \in {None, Unreadable} THEN {} ELSE Entries(asked.secret)
           other  == IF asked.secret = None THEN Entries(global) ELSE secret
           trust  == IF asked.secret = None THEN globalEncrypted ELSE asked.encrypted
           Pair(u) == [name |-> u.name, pass |-> u.pass]
           Paired(set) == {e \in set : ~Nameless(e.name) /\ e.pass \notin {None, Blank}}
           Void(e) == e.pass = Blank \/ Nameless(e.name)
           Typed(u) == u \in UserRecord /\ u.pass # None
           Own(u)   == Pair(u) \in Paired(own) /\ u.encrypted = asked.encrypted
           Vouched(u) == Pair(u) \in Paired(other) /\ u.encrypted = trust
           Lent(u)  == /\ \E v \in Paired(other) : EqualFold(u.name, v.name) /\ v.pass = u.pass
                       /\ u.encrypted = trust
           Secret(u) == Pair(u) \in Paired(secret) /\ u.encrypted = asked.encrypted
<1>1. /\ asked.users # None => asked.users \in Credentials
      /\ asked.secret \notin {None, Unreadable} => asked.secret \in Credentials
      /\ asked.encrypted \in BOOLEAN
  BY DEF Asked
<1>2. got = IF ret = {} /\ ~(asked.users = None /\ asked.secret = None) THEN {dummyUser} ELSE ret
  BY DEF mergeUsers
<1>3. /\ DOMAIN fileUsers \in SUBSET Nat
      /\ \A i \in DOMAIN fileUsers : Typed(fileUsers[i]) /\ Secret(fileUsers[i])
  <2>1. CASE asked.secret \in {None, Unreadable}
    BY <2>1 DEF FromFile, Nobody
  <2>2. CASE asked.secret \notin {None, Unreadable}
    <3>1. fileUsers = Extract(asked.secret, asked.encrypted, {Blank, None})
      BY <2>2 DEF FromFile
    <3>2. asked.secret \in Credentials
      BY <1>1, <2>2
    <3>3. DOMAIN fileUsers \in SUBSET Nat
      BY <1>1, <3>1, <3>2, Extracted DEF IsExcerpt
    <3>4. ASSUME NEW i \in DOMAIN fileUsers
          PROVE  Typed(fileUsers[i]) /\ Secret(fileUsers[i])
      <4> DEFINE u == fileUsers[i]
      <4>1. /\ i \in DOMAIN asked.secret /\ Pair(u) = asked.secret[i]
            /\ u \in Taken
            /\ u.pass \notin {Blank, None} /\ ~Nameless(u.name) /\ (u.pass # None => u.encrypted = asked.encrypted)
        BY <1>1, <3>1, <3>2, Extracted DEF IsExcerpt
      <4> HIDE DEF fileUsers, u
      <4>2. Pair(u) \in Paired(secret)
        BY <2>2, <4>1
      <4>3. QED  BY <4>1, <4>2 DEF UserRecord, Taken, u
    <3>5. QED  BY <3>3, <3>4
  <2>3. QED  BY <2>1, <2>2
<1>4. /\ DOMAIN source \in SUBSET Nat
      /\ \A i \in DOMAIN source : Typed(source[i]) /\ Vouched(source[i])
  <2>1. CASE asked.secret = None
    <3>1. source = Extract(global, globalEncrypted, {Blank, None})
      BY <2>1
    <3>2. DOMAIN source \in SUBSET Nat
      BY <3>1, Extracted DEF IsExcerpt
    <3>3. ASSUME NEW i \in DOMAIN source
          PROVE  Typed(source[i]) /\ Vouched(source[i])
      <4> DEFINE u == source[i]
      <4>1. /\ i \in DOMAIN global /\ Pair(u) = global[i]
            /\ u \in Taken
            /\ u.pass \notin {Blank, None} /\ ~Nameless(u.name) /\ (u.pass # None => u.encrypted = globalEncrypted)
        <5> HIDE DEF source
        <5>1. i \in DOMAIN Extract(global, globalEncrypted, {Blank, None})
          BY <3>1
        <5>2. QED  BY <3>1, <5>1, Extracted DEF IsExcerpt
      <4> HIDE DEF source, u
      <4>2. Pair(u) \in Paired(other)
        BY <2>1, <4>1
      <4>3. QED  BY <2>1, <4>1, <4>2 DEF UserRecord, Taken, u
    <3>4. QED  BY <3>2, <3>3
  <2>2. CASE asked.secret # None
    BY <1>3, <2>2
  <2>3. QED  BY <2>1, <2>2
<1>5. /\ \A i \in DOMAIN paramUsers :
            /\ paramUsers[i] \in Taken
            /\ Pair(paramUsers[i]) \in own /\ ~Void(paramUsers[i])
            /\ paramUsers[i].pass # None => paramUsers[i].encrypted = asked.encrypted
      /\ \A e \in own : ~Void(e) => \E i \in DOMAIN paramUsers : Pair(paramUsers[i]) = e
  <2>1. CASE asked.users = None
    BY <2>1 DEF Nobody
  <2>2. CASE asked.users # None
    <3>1. paramUsers = Extract(asked.users, asked.encrypted, {Blank}) /\ asked.users \in Credentials
          /\ own = Entries(asked.users)
      BY <1>1, <2>2
    <3>2. ASSUME NEW i \in DOMAIN paramUsers
          PROVE  /\ paramUsers[i] \in Taken
                 /\ Pair(paramUsers[i]) \in own /\ ~Void(paramUsers[i])
                 /\ paramUsers[i].pass # None => paramUsers[i].encrypted = asked.encrypted
      <4>1. /\ i \in DOMAIN asked.users /\ Pair(paramUsers[i]) = asked.users[i]
            /\ paramUsers[i] \in Taken
            /\ ~Void(paramUsers[i])
            /\ paramUsers[i].pass # None => paramUsers[i].encrypted = asked.encrypted
        <5> HIDE DEF paramUsers
        <5>1. i \in DOMAIN Extract(asked.users, asked.encrypted, {Blank})
          BY <3>1
        <5>2. QED  BY <1>1, <3>1, <5>1, Extracted DEF IsExcerpt
      <4>2. QED  BY <3>1, <4>1
    <3>3. ASSUME NEW i \in DOMAIN asked.users, ~Void(asked.users[i])
          PROVE  i \in DOMAIN paramUsers /\ Pair(paramUsers[i]) = asked.users[i]
      BY <1>1, <3>1, <3>3, Extracted DEF IsExcerpt
    <3>4. \A e \in own : ~Void(e) => \E i \in DOMAIN paramUsers : Pair(paramUsers[i]) = e
      BY <3>1, <3>3
    <3>5. QED  BY <3>2, <3>4
  <2>3. QED  BY <2>1, <2>2
<1> HIDE DEF paramUsers, fileUsers, source
<1>6. ASSUME NEW i \in DOMAIN paramUsers
      PROVE  LET u == WithPassword(paramUsers[i], source)
             IN  /\ HasPassword(paramUsers[i]) => u = paramUsers[i]
                 /\ HasPassword(u) => /\ Typed(u)
                                      /\ \/ Own(u)
                                         \/ [name |-> u.name, pass |-> None] \in own /\ Lent(u)
  <2> DEFINE p == paramUsers[i]
  <2>1. CASE HasPassword(p)
    <3>1. WithPassword(p, source) = p
      BY <2>1 DEF WithPassword
    <3>2. Typed(p) /\ Own(p)
      BY <1>5, <2>1 DEF HasPassword, UserRecord, Taken
    <3>3. QED  BY <3>1, <3>2
  <2>2. CASE ~HasPassword(p) /\ \E k \in DOMAIN source : EqualFold(p.name, source[k].name)
    <3> DEFINE u == WithPassword(p, source)
    <3>1. PICK k \in DOMAIN source :
             /\ EqualFold(p.name, source[k].name)
             /\ u = [p EXCEPT !.pass = source[k].pass, !.encrypted = source[k].encrypted]
      BY <1>4, <2>2, PasswordFrom
    <3>2. p \in Taken
          /\ [name |-> p.name, pass |-> None] \in own
      BY <1>5, <2>2 DEF HasPassword
    <3>3. Typed(source[k]) /\ Vouched(source[k])
      BY <1>4
    <3> HIDE DEF u
    <3>4. /\ u.name = p.name /\ u.pass = source[k].pass /\ u.encrypted = source[k].encrypted
          /\ u = [name |-> p.name, pass |-> source[k].pass, encrypted |-> source[k].encrypted]
      <4> DEFINE pass == source[k].pass
                 encrypted == source[k].encrypted
      <4> HIDE DEF pass, encrypted, p
      <4>1. u = [p EXCEPT !.pass = pass, !.encrypted = encrypted]
        BY <3>1 DEF pass, encrypted
      <4>2. QED  BY <3>2, <4>1 DEF Taken, pass, encrypted
    <3>5. Typed(u)
      <4>1. p.name \in UserName
        BY <3>2 DEF Taken
      <4>2. QED  BY <3>3, <3>4, <4>1 DEF UserRecord
    <3>6. Lent(u)
      BY <3>1, <3>3, <3>4 DEF EqualFold
    <3>7. QED  BY <2>2, <3>2, <3>4, <3>5, <3>6 DEF u
  <2>3. CASE ~HasPassword(p) /\ ~(\E k \in DOMAIN source : EqualFold(p.name, source[k].name))
    <3>1. WithPassword(p, source) = p
      BY <2>3 DEF WithPassword
    <3>2. QED  BY <2>3, <3>1
  <2>4. QED  BY <2>1, <2>2, <2>3
<1>7. \A u \in ret : Typed(u)
  BY <1>3, <1>6
<1>8. \A u \in ret : \/ Own(u)
                     \/ [name |-> u.name, pass |-> None] \in own /\ Lent(u)
                     \/ (\A e \in own : Void(e)) /\ Secret(u)
  <2>1. CASE DOMAIN paramUsers = {}
    <3>1. \A e \in own : Void(e)
      BY <1>5, <2>1
    <3>2. QED  BY <1>3, <2>1, <3>1
  <2>2. CASE DOMAIN paramUsers # {}
    <3> SUFFICES ASSUME NEW u \in ret
                 PROVE  Own(u) \/ ([name |-> u.name, pass |-> None] \in own /\ Lent(u))
      OBVIOUS
    <3>1. PICK i \in DOMAIN paramUsers : u = WithPassword(paramUsers[i], source) /\ HasPassword(u)
      BY <2>2
    <3> HIDE DEF Own, Lent, own, ret
    <3>2. QED  BY <1>6, <3>1
  <2>3. QED  BY <2>1, <2>2
<1>9. Paired(own) \subseteq {Pair(u) : u \in ret}
  <2> SUFFICES ASSUME NEW e \in Paired(own)  PROVE \E u \in ret : Pair(u) = e
    OBVIOUS
  <2>1. PICK i \in DOMAIN paramUsers : Pair(paramUsers[i]) = e
    BY <1>5
  <2>2. HasPassword(paramUsers[i])
    BY <2>1 DEF HasPassword
  <2>3. collected[i] = paramUsers[i] /\ i \in DOMAIN collected
    BY <1>6, <2>2
  <2>4. QED  BY <2>1, <2>2, <2>3
<1>10. asked.users = None /\ asked.secret = None => ret = {}
  BY DEF paramUsers, fileUsers, FromFile, Nobody
<1>11. got \in SUBSET UserRecord
  <2>1. dummyUser \in UserRecord
    <3>1. dummyUser = [name |-> dummyUser.name, pass |-> Dummy, encrypted |-> TRUE]
      BY DEF dummyUser, User
    <3> DEFINE name == dummyUser.name
    <3> HIDE DEF name
    <3>2. [name |-> name, pass |-> Dummy, encrypted |-> TRUE] \in
             [name: UserName \cup {name}, pass: STRING \cup {Dummy}, encrypted: BOOLEAN]
      OBVIOUS
    <3>3. QED  BY <3>1, <3>2, Zenon DEF UserRecord, name
  <2>2. QED  BY <1>2, <1>7, <2>1
<1> HIDE DEF ret, got
<1>12. \A u \in got \ {dummyUser} : u \in ret
  BY <1>2
<1>13. asked.users # None \/ asked.secret # None <=> got # {}
  BY <1>2, <1>10
<1>14. Paired(own) \subseteq {Pair(u) : u \in got}
  BY <1>2, <1>9
<1>15. AsAsked(asked, got, global, globalEncrypted)
  BY <1>8, <1>12, <1>13, <1>14 DEF AsAsked
<1>16. QED  BY <1>11, <1>15 DEF got

--------------------------------------------------------------------------------
(* Services *)

\* A service as putDomainAlgo leaves it differs in nothing but its domains.
LEMMA TrimmedFields ==
  ASSUME NEW s \in ServiceRecord
  PROVE  LET t == Trimmed(s)
         IN  /\ t \in ServiceRecord
             /\ t.svc = s.svc /\ t.acl = s.acl /\ t.creds = s.creds /\ t.users = s.users
             /\ DOMAIN t.dests = DOMAIN s.dests
             /\ \A i \in DOMAIN s.dests :
                   LET d == s.dests[i]
                       e == t.dests[i]
                   IN  /\ d \in DestRecord /\ e \in DestRecord
                       /\ e.index = d.index /\ e.path = d.path /\ e.port = d.port
                       /\ e.https = d.https /\ e.src = d.src /\ e.mode = d.mode
                       /\ e.group = d.group
                       /\ e.domain = <<>> <=> d.domain = <<>>
<1> DEFINE t == Trimmed(s)
           Domain(i) == [k \in DOMAIN s.dests[i].domain |->
                            IF <<i, k>> \in FirstWild(s) THEN "tail" ELSE s.dests[i].domain[k]]
           Dest1(i) == [s.dests[i] EXCEPT !.domain = Domain(i)]
           dests == [i \in DOMAIN s.dests |-> Dest1(i)]
<1>1. t = [s EXCEPT !.dests = dests]
  BY DEF Trimmed
<1>2. /\ Len(s.dests) \in Nat /\ DOMAIN s.dests = 1..Len(s.dests)
      /\ \A i \in DOMAIN s.dests : s.dests[i] \in DestRecord
  <2>1. s.dests \in Seq(DestRecord)
    BY DEF ServiceRecord
  <2>2. QED  BY <2>1, LenProperties
<1>3. ASSUME NEW i \in DOMAIN s.dests
      PROVE  /\ Domain(i) \in Seq(DomainKind)
             /\ Domain(i) = <<>> <=> s.dests[i].domain = <<>>
  <2> DEFINE d == s.dests[i].domain
  <2>1. d \in Seq(DomainKind)
    BY <1>2 DEF DestRecord
  <2>2. Len(d) \in Nat /\ DOMAIN d = 1..Len(d) /\ \A k \in DOMAIN d : d[k] \in DomainKind
    BY <2>1, LenProperties
  <2>3. Domain(i) \in [1..Len(d) -> DomainKind]
    BY <2>2 DEF DomainKind
  <2>4. Domain(i) \in Seq(DomainKind)
    BY <2>2, <2>3, SeqDef
  <2>5. Len(Domain(i)) = Len(d)
    <3>1. DOMAIN Domain(i) = 1..Len(d) /\ DOMAIN Domain(i) = 1..Len(Domain(i)) /\ Len(Domain(i)) \in Nat
      BY <2>2, <2>3, <2>4, LenProperties
    <3> HIDE DEF Domain, d
    <3>2. QED  BY <2>2, <3>1
  <2> HIDE DEF Domain
  <2>6. \A x \in Seq(DomainKind) : x = <<>> <=> Len(x) = 0
    BY EmptySeq
  <2>7. QED  BY <2>1, <2>4, <2>5, <2>6
<1> HIDE DEF Domain
<1>4. ASSUME NEW i \in DOMAIN s.dests
      PROVE  LET d == s.dests[i]
                 e == Dest1(i)
             IN  /\ d \in DestRecord /\ e \in DestRecord
                 /\ e.index = d.index /\ e.path = d.path /\ e.port = d.port
                 /\ e.https = d.https /\ e.src = d.src /\ e.mode = d.mode
                 /\ e.group = d.group
                 /\ e.domain = <<>> <=> d.domain = <<>>
  BY <1>2, <1>3 DEF DestRecord
<1> HIDE DEF Dest1
<1>5. dests \in Seq(DestRecord)
  <2>1. dests \in [1..Len(s.dests) -> DestRecord]
    BY <1>2, <1>4
  <2>2. QED  BY <1>2, <2>1, SeqDef
<1>6. DOMAIN dests = DOMAIN s.dests /\ \A i \in DOMAIN s.dests : dests[i] = Dest1(i)
  OBVIOUS
<1> HIDE DEF dests, t
<1>7. /\ t \in ServiceRecord /\ t.dests = dests
      /\ t.svc = s.svc /\ t.acl = s.acl /\ t.creds = s.creds /\ t.users = s.users
  BY <1>1, <1>5 DEF ServiceRecord
<1>8. QED  BY <1>4, <1>6, <1>7 DEF t

LEMMA FormattedFields ==
  ASSUME NEW q \in Request, NEW list \in Seq(DestRecord), NEW users \in SUBSET UserRecord
  PROVE  LET s == Formatted(q, list, users)
         IN  /\ s \in ServiceRecord
             /\ s.svc = q.svc /\ s.acl = AclName(q)
             /\ s.creds = q.creds /\ s.users = users
             /\ DOMAIN s.dests = DOMAIN list
             /\ \A i \in DOMAIN list : s.dests[i] = Sourced(list[i]) /\ list[i] \in DestRecord
<1> DEFINE s == Formatted(q, list, users)
           dests == [i \in DOMAIN list |-> Sourced(list[i])]
<1>1. Len(list) \in Nat /\ DOMAIN list = 1..Len(list) /\ \A i \in DOMAIN list : list[i] \in DestRecord
  BY LenProperties
<1>2. \A d \in DestRecord : Sourced(d) \in DestRecord
  BY DEF Sourced, DestRecord
<1>3. dests \in Seq(DestRecord)
  <2>1. dests \in [1..Len(list) -> DestRecord]
    BY <1>1, <1>2
  <2>2. QED  BY <1>1, <2>1, SeqDef
<1>4. q \in RequestRecord /\ q.svc \in Service /\ q.svc \in Acl /\ (q.acl # None => q.acl \in Acl)
  BY RequestFields
<1>5. s = [svc |-> q.svc, acl |-> AclName(q), algo |-> q.algo,
           creds |-> q.creds, users |-> users, dests |-> dests]
  BY DEF Formatted
<1>6. DOMAIN dests = DOMAIN list /\ \A i \in DOMAIN list : dests[i] = Sourced(list[i])
  OBVIOUS
<1> HIDE DEF dests, s
<1>7. s \in ServiceRecord
  BY <1>3, <1>4, <1>5 DEF ServiceRecord, RequestRecord, AclName
<1>8. QED  BY <1>1, <1>5, <1>6, <1>7 DEF s

--------------------------------------------------------------------------------
(* The registry *)

\* What deployment x may register: the services of its requests and of its
\* environment.
Entries(x) == {Deployment[x].environment[i] : i \in DOMAIN Deployment[x].environment}
Asks(x) == {FromQuery(q, Deployment[x].users, Deployment[x].encrypted) :
                q \in Deployment[x].requests}
           \cup {FromEnvironment(q, Deployment[x].protocol) : q \in Entries(x)}

\* The same service but for its domains.
SameButDomain(d, e) ==
    /\ e.index = d.index /\ e.path = d.path /\ e.port = d.port /\ e.https = d.https
    /\ e.src = d.src /\ e.mode = d.mode /\ e.group = d.group
    /\ e.domain = <<>> <=> d.domain = <<>>
Alike(s, t) ==
    /\ t.svc = s.svc /\ t.acl = s.acl /\ t.creds = s.creds /\ t.users = s.users
    /\ DOMAIN t.dests = DOMAIN s.dests
    /\ \A i \in DOMAIN s.dests : SameButDomain(s.dests[i], t.dests[i])

Kin(x) == {t \in ServiceRecord : \E s \in Asks(x) : Alike(s, t)}

\* Every registered service is one that was asked for, under its own name.
Keeps(reg, x) ==
    /\ reg \in [Service -> Kin(x) \cup {None}]
    /\ \A s \in Service : reg[s] # None => reg[s].svc = s

Sheet == [at: Nat, section: SectionRecord]
Answers == [answer: {"ok", "conflict", "badRequest", "refused", None},
            complete: BOOLEAN, kept: BOOLEAN]

BaseInv ==
    /\ site \in Site
    /\ pending \in Seq(Entries(site))
    /\ Keeps(registry, site)
    /\ files \in [Acl -> SUBSET Sheet]
    /\ last \in Answers

LEMMA QueryService ==
  ASSUME NEW x \in Site, NEW q \in Deployment[x].requests
  PROVE  LET s == FromQuery(q, Deployment[x].users, Deployment[x].encrypted)
         IN  /\ s \in ServiceRecord /\ s.svc = q.svc /\ s.acl = AclName(q)
             /\ AsAsked(s.creds, s.users, Deployment[x].users, Deployment[x].encrypted)
             /\ DOMAIN s.dests = DOMAIN DestList(q.params)
             /\ \A i \in DOMAIN s.dests : s.dests[i] = Sourced(DestList(q.params)[i])
<1> DEFINE got == mergeUsers(q.creds.users, q.creds.secret, q.creds.encrypted,
                             Deployment[x].users, Deployment[x].encrypted)
           list == DestList(q.params)
           s == FromQuery(q, Deployment[x].users, Deployment[x].encrypted)
<1>1. q \in Request /\ q \in RequestRecord
  BY SiteFields, RequestFields
<1>2. q.creds \in Asked /\ q.params \in [0..MaxIndex -> DestParams]
  BY <1>1 DEF RequestRecord
<1>3. list \in Seq(DestRecord)
  BY <1>2, DestListType
<1>4. got \in SUBSET UserRecord
      /\ AsAsked(q.creds, got, Deployment[x].users, Deployment[x].encrypted)
  BY <1>2, SiteFields, MergedAsAsked
<1>5. s = Formatted(q, list, got)
  BY DEF FromQuery
<1> HIDE DEF got, list, s
<1>6. /\ s \in ServiceRecord /\ s.svc = q.svc /\ s.acl = AclName(q)
      /\ s.creds = q.creds /\ s.users = got
      /\ DOMAIN s.dests = DOMAIN list
      /\ \A i \in DOMAIN list : s.dests[i] = Sourced(list[i])
  BY <1>1, <1>3, <1>4, <1>5, FormattedFields
<1>7. QED  BY <1>4, <1>6 DEF s, list

LEMMA EnvironmentService ==
  ASSUME NEW x \in Site, NEW q \in Entries(x)
  PROVE  LET s == FromEnvironment(q, Deployment[x].protocol)
         IN  /\ s \in ServiceRecord /\ s.svc = q.svc /\ s.acl = AclName(q)
             /\ AsAsked(s.creds, s.users, Deployment[x].users, Deployment[x].encrypted)
             /\ q \in Request
<1> DEFINE list == EnvDestList(q.params, Deployment[x].protocol)
           s == FromEnvironment(q, Deployment[x].protocol)
<1>1. q \in Request /\ q.creds = NoCreds
  <2>1. PICK i \in DOMAIN Deployment[x].environment : q = Deployment[x].environment[i]
    BY DEF Entries
  <2>2. q \in Request
    BY <2>1 DEF Request
  <2>3. QED  BY <2>1, <2>2, SiteFields
<1>2. q.params \in [0..MaxIndex -> DestParams]
  BY <1>1, RequestFields DEF RequestRecord
<1>3. list \in Seq(DestRecord)
  BY <1>2, SiteFields, EnvDestListType
<1>4. AsAsked(NoCreds, {}, Deployment[x].users, Deployment[x].encrypted)
  BY DEF AsAsked, NoCreds
<1>5. s = Formatted(q, list, {})
  BY DEF FromEnvironment
<1> HIDE DEF list, s
<1>6. /\ s \in ServiceRecord /\ s.svc = q.svc /\ s.acl = AclName(q)
      /\ s.creds = q.creds /\ s.users = {}
  BY <1>1, <1>3, <1>5, FormattedFields
<1>7. QED  BY <1>1, <1>4, <1>6 DEF s

LEMMA AsksAreKin ==
  ASSUME NEW x \in Site, NEW s \in Asks(x)
  PROVE  s \in Kin(x) /\ AsAsked(s.creds, s.users, Deployment[x].users, Deployment[x].encrypted)
<1>1. s \in ServiceRecord
      /\ AsAsked(s.creds, s.users, Deployment[x].users, Deployment[x].encrypted)
  BY QueryService, EnvironmentService DEF Asks
<1>2. Alike(s, s)
  BY DEF Alike, SameButDomain
<1>3. QED  BY <1>1, <1>2 DEF Kin

LEMMA TrimmedIsKin ==
  ASSUME NEW x \in Site, NEW s \in Kin(x)
  PROVE  Trimmed(s) \in Kin(x) /\ Alike(s, Trimmed(s)) /\ Trimmed(s).svc = s.svc
<1>1. PICK a \in Asks(x) : Alike(a, s)
  BY DEF Kin
<1>2. s \in ServiceRecord
  BY DEF Kin
<1> DEFINE t == Trimmed(s)
<1>3. /\ t \in ServiceRecord
      /\ t.svc = s.svc /\ t.acl = s.acl /\ t.creds = s.creds /\ t.users = s.users
      /\ DOMAIN t.dests = DOMAIN s.dests
      /\ \A i \in DOMAIN s.dests : SameButDomain(s.dests[i], t.dests[i])
  <2>1. ASSUME NEW i \in DOMAIN s.dests  PROVE SameButDomain(s.dests[i], t.dests[i])
    BY <1>2, TrimmedFields DEF SameButDomain
  <2>2. QED  BY <1>2, <2>1, TrimmedFields
<1> HIDE DEF t
<1>4. Alike(s, t)
  BY <1>3 DEF Alike
<1>5. Alike(a, t)
  <2>1. \A i \in DOMAIN a.dests : SameButDomain(a.dests[i], t.dests[i])
    BY <1>1, <1>3 DEF Alike, SameButDomain
  <2>2. QED  BY <1>1, <1>3, <2>1 DEF Alike
<1>6. QED  BY <1>3, <1>4, <1>5 DEF Kin, t

LEMMA RenderKeeps ==
  ASSUME NEW x \in Site, NEW reg, Keeps(reg, x)
  PROVE  /\ Keeps(AfterRender(reg), x)
         /\ \A s \in Service : AfterRender(reg)[s] = IF reg[s] = None THEN None ELSE Trimmed(reg[s])
         /\ \A s \in Service : AfterRender(reg)[s] = None <=> reg[s] = None
<1>1. \A s \in Service : reg[s] # None => Trimmed(reg[s]) \in Kin(x) /\ Trimmed(reg[s]).svc = s
  BY TrimmedIsKin DEF Keeps
<1>2. None \notin Kin(x)
  BY RoutingAssumption DEF Kin
<1>3. DOMAIN reg = Service
  BY DEF Keeps
<1>4. AfterRender(reg) = [s \in Service |-> IF reg[s] = None THEN None ELSE Trimmed(reg[s])]
  BY <1>3 DEF AfterRender
<1>5. QED  BY <1>1, <1>2, <1>4 DEF Keeps

LEMMA PutKeeps ==
  ASSUME NEW x \in Site, NEW reg, Keeps(reg, x), NEW t \in Kin(x)
  PROVE  /\ Keeps([reg EXCEPT ![t.svc] = t], x)
         /\ Keeps([reg EXCEPT ![t.svc] = None], x)
         /\ t \in ServiceRecord /\ t.svc \in Service /\ t.acl \in Acl /\ t # None
<1>1. t \in ServiceRecord /\ t.svc \in Service /\ t.acl \in Acl /\ t # None
  BY RoutingAssumption DEF Kin, ServiceRecord
<1>2. QED  BY <1>1 DEF Keeps

LEMMA BackendsType ==
  ASSUME NEW s \in ServiceRecord
  PROVE  Backends(s) \in SUBSET Sheet
<1>1. s.dests \in Seq(DestRecord) /\ s.acl \in Acl
  BY DEF ServiceRecord
<1>2. DOMAIN s.dests \in SUBSET Nat /\ \A i \in DOMAIN s.dests : s.dests[i] \in DestRecord
  BY <1>1, LenProperties
<1>3. ASSUME NEW i \in DOMAIN s.dests
      PROVE  /\ PlainSection(s, s.dests[i]) \in SectionRecord
             /\ HttpsSection(s, s.dests[i]) \in SectionRecord
  BY <1>1, <1>2 DEF PlainSection, HttpsSection, Section, SectionRecord, DestRecord
<1>4. \A b \in Backends(s) : \E i \in DOMAIN s.dests : b = Written(i, PlainSection(s, s.dests[i]))
                                                     \/ b = Written(i, HttpsSection(s, s.dests[i]))
  BY DEF Backends
<1>5. \A i \in DOMAIN s.dests, c \in SectionRecord : Written(i, c) \in Sheet
  BY <1>2 DEF Written, Sheet
<1>6. QED  BY <1>3, <1>4, <1>5

\* Whatever becomes of it, a service that was asked for leaves the registry and
\* the files as they may be.
LEMMA ExecuteKeeps ==
  ASSUME BaseInv, NEW s \in Kin(site), NEW q, Execute(s, q)
  PROVE  Keeps(registry', site) /\ files' \in [Acl -> SUBSET Sheet] /\ last' \in Answers
<1> DEFINE reg1 == [registry EXCEPT ![s.svc] = s]
           fl1  == [files EXCEPT ![s.acl] = Backends(s)]
           reg2 == [AfterRender(reg1) EXCEPT ![s.svc] = None]
           fl2  == [fl1 EXCEPT ![s.acl] = {}]
<1>1. Keeps(reg1, site) /\ s.acl \in Acl /\ s \in ServiceRecord
  BY PutKeeps DEF BaseInv
<1>2. fl1 \in [Acl -> SUBSET Sheet]
  BY <1>1, BackendsType DEF BaseInv
<1>3. Keeps(AfterRender(reg1), site)
  BY <1>1, RenderKeeps DEF BaseInv
<1>4. Keeps(reg2, site)
  BY <1>3, PutKeeps DEF BaseInv
<1>5. Keeps(AfterRender(reg2), site) /\ fl2 \in [Acl -> SUBSET Sheet]
  BY <1>2, <1>4, RenderKeeps DEF BaseInv
<1>6. \/ registry' = AfterRender(reg1) /\ files' = fl1
      \/ registry' = AfterRender(reg2) /\ files' = fl2
  BY DEF Execute, Withdraw
<1>7. last' \in Answers
  <2> DEFINE kept == Len(s.dests) >= Len(DestList(q.params))
  <2>1. PICK answer \in {"ok", "refused"} :
           last' = [answer |-> answer, complete |-> Complete(q), kept |-> kept]
    BY DEF Execute
  <2>2. Complete(q) \in BOOLEAN /\ kept \in BOOLEAN
    BY DEF Complete
  <2> HIDE DEF kept
  <2>3. QED  BY <2>1, <2>2 DEF Answers
<1>8. QED  BY <1>2, <1>3, <1>5, <1>6, <1>7

LEMMA InitBase == Init => BaseInv
<1> SUFFICES ASSUME Init  PROVE BaseInv
  OBVIOUS
<1>1. site \in Site /\ Deployment[site].environment \in Seq(Request)
  BY SiteFields DEF Init
<1> DEFINE e == Deployment[site].environment
<1>2. e \in [1..Len(e) -> Entries(site)] /\ Len(e) \in Nat
  BY <1>1, LenProperties DEF Entries
<1>3. pending \in Seq(Entries(site))
  BY <1>2, SeqDef DEF Init
<1>4. QED  BY <1>1, <1>3 DEF Init, BaseInv, Keeps, Answers, Unasked

LEMMA NextBase == BaseInv /\ [Next]_vars => BaseInv'
<1> SUFFICES ASSUME BaseInv, [Next]_vars  PROVE BaseInv'
  OBVIOUS
<1>1. CASE Startup
  <2> DEFINE q == Head(pending)
  <2>1. q \in Entries(site) /\ Tail(pending) \in Seq(Entries(site))
    BY <1>1, HeadTailProperties DEF Startup, BaseInv
  <2>2. FromEnvironment(q, Deployment[site].protocol) \in Kin(site)
    BY <2>1, AsksAreKin DEF Asks, BaseInv
  <2>3. Execute(FromEnvironment(q, Deployment[site].protocol), q)
    BY <1>1 DEF Startup
  <2>4. Keeps(registry', site) /\ files' \in [Acl -> SUBSET Sheet] /\ last' \in Answers
    BY <2>2, <2>3, ExecuteKeeps
  <2>5. site' = site /\ pending' = Tail(pending)
    BY <1>1 DEF Startup
  <2>6. QED  BY <2>1, <2>4, <2>5 DEF BaseInv
<1>2. ASSUME NEW q \in Deployment[site].requests, Reconfigure(q)
      PROVE  BaseInv'
  <2>1. Complete(q) \in BOOLEAN
    BY DEF Complete
  <2>2. CASE Verdict(q) # "ok"
    <3>1. last' \in Answers
      <4>1. last' = [answer |-> Verdict(q), complete |-> Complete(q), kept |-> TRUE]
        BY <1>2, <2>2 DEF Reconfigure
      <4>2. Verdict(q) \in {"ok", "conflict", "badRequest"}
        BY DEF Verdict
      <4>3. QED  BY <2>1, <4>1, <4>2 DEF Answers
    <3>2. UNCHANGED <<site, pending, registry, files>>
      BY <1>2, <2>2 DEF Reconfigure
    <3>3. QED  BY <3>1, <3>2 DEF BaseInv
  <2>3. CASE Verdict(q) = "ok"
    <3>1. FromQuery(q, Deployment[site].users, Deployment[site].encrypted) \in Kin(site)
      BY AsksAreKin DEF Asks, BaseInv
    <3>2. Execute(FromQuery(q, Deployment[site].users, Deployment[site].encrypted), q)
      BY <1>2, <2>3 DEF Reconfigure
    <3>3. Keeps(registry', site) /\ files' \in [Acl -> SUBSET Sheet] /\ last' \in Answers
      BY <3>1, <3>2, ExecuteKeeps
    <3>4. site' = site /\ pending' = pending
      BY <1>2 DEF Reconfigure
    <3>5. QED  BY <3>3, <3>4 DEF BaseInv
  <2>4. QED  BY <2>2, <2>3
<1>3. ASSUME NEW s \in Service, Remove(s)
      PROVE  BaseInv'
  <2> DEFINE t == registry[s]
             reg2 == [registry EXCEPT ![t.svc] = None]
  <2>1. t \in Kin(site)
    BY <1>3 DEF Remove, BaseInv, Keeps
  <2>2. Keeps(reg2, site) /\ t.acl \in Acl
    BY <2>1, PutKeeps DEF BaseInv
  <2>3. Keeps(AfterRender(reg2), site)
    BY <2>2, RenderKeeps DEF BaseInv
  <2>4. registry' = AfterRender(reg2) /\ files' = [files EXCEPT ![t.acl] = {}]
    BY <1>3 DEF Remove, Withdraw
  <2>5. last' \in Answers /\ site' = site /\ pending' = pending
    BY <1>3 DEF Remove, Answers, Unasked
  <2>6. QED  BY <2>2, <2>3, <2>4, <2>5 DEF BaseInv
<1>4. CASE Recreate
  <2>1. Keeps(AfterRender(registry), site)
    BY RenderKeeps DEF BaseInv
  <2>2. QED  BY <1>4, <2>1 DEF Recreate, BaseInv, Answers, Unasked
<1>5. CASE UNCHANGED vars
  BY <1>5 DEF vars, BaseInv
<1>6. QED  BY <1>1, <1>2, <1>3, <1>4, <1>5 DEF Next

LEMMA BaseInvariant == Spec => []BaseInv
  BY InitBase, NextBase, PTL DEF Spec

\* Type correctness, for every deployment: in particular the numbers of the
\* destinations and of the sections stay within what the code counts.
THEOREM RoutingTypeCorrect == Spec => []TypeOK
<1>1. BaseInv => TypeOK
  <2> SUFFICES ASSUME BaseInv  PROVE TypeOK
    OBVIOUS
  <2>1. Entries(site) \in SUBSET Request
    BY SiteFields DEF Entries, BaseInv, Request
  <2>2. pending \in Seq(Request)
    BY <2>1 DEF BaseInv
  <2>3. registry \in [Service -> ServiceRecord \cup {None}]
    BY DEF BaseInv, Keeps, Kin
  <2>4. QED  BY <2>2, <2>3 DEF BaseInv, TypeOK, Sheet, Answers
<1>2. QED  BY <1>1, BaseInvariant, PTL

\* The users of a registered service are those it asked for, each from the one
\* source that applies, for every deployment: mergeUsers for a request, nobody
\* for a service of the environment, and rendering changes none of them.
THEOREM CredentialsAreAsAsked == Spec => []CredentialsAsAsked
<1>1. BaseInv => CredentialsAsAsked
  <2> SUFFICES ASSUME BaseInv, NEW s \in Service, registry[s] # None
               PROVE  AsAsked(registry[s].creds, registry[s].users,
                              Deployment[site].users, Deployment[site].encrypted)
    BY DEF CredentialsAsAsked
  <2>1. PICK a \in Asks(site) : Alike(a, registry[s])
    BY DEF BaseInv, Keeps, Kin
  <2>2. AsAsked(a.creds, a.users, Deployment[site].users, Deployment[site].encrypted)
    BY AsksAreKin DEF BaseInv
  <2>3. QED  BY <2>1, <2>2 DEF Alike
<1>2. QED  BY <1>1, BaseInvariant, PTL

--------------------------------------------------------------------------------
(* What the deployments of the next theorems have in common *)

\* Services of different names share neither name nor aclName: each has a file
\* of its own.
OwnNames ==
    \A x \in Site : \A s, t \in Asks(x) :
        s.svc # t.svc => {s.svc, s.acl} \cap {t.svc, t.acl} = {}

\* The modes http and tcp are typed in lower case: getFrontTemplate and
\* GetBackTemplate do not know them otherwise.
PlainModes ==
    \A x \in Site : \A s \in Asks(x) : \A i \in DOMAIN s.dests :
        s.dests[i].mode \notin {"HTTP", "TCP"}

\* A service with an sni destination has no other aclName than its name:
\* getFrontTemplateSNI names the backend by the service.
SniByName ==
    \A x \in Site : \A s \in Asks(x) : \A i \in DOMAIN s.dests :
        Fold(s.dests[i].mode) = "sni" => s.acl = s.svc

\* A tcp destination has a source port and, outside a group, a backend section: one
\* that lacks them does no harm as long as another default_backend hides it or
\* another destination of its group is met first, and would when that one is gone.
WholeStreams ==
    \A x \in Site : \A s \in Asks(x) : \A i \in DOMAIN s.dests :
        LET d == s.dests[i]
        IN  Fold(d.mode) = "tcp" => /\ d.src # 0
                                    /\ d.group = None => d.mode = "tcp" /\ d.port # 0

\* No two tcp destinations without a domain share a source port, of which they
\* would both be the default, and the destinations of a group share theirs,
\* because only one port is bound.
OwnSrcPorts ==
    \A x \in Site : \A s, t \in Asks(x) : s.svc # t.svc \/ s = t =>
        \A i \in DOMAIN s.dests, j \in DOMAIN t.dests :
            LET d == s.dests[i]
                e == t.dests[j]
            IN  Fold(d.mode) = "tcp" /\ Fold(e.mode) = "tcp" =>
                   /\ /\ d.group = None /\ d.domain = <<>>
                      /\ e.group = None /\ e.domain = <<>> /\ d.src = e.src
                      => s = t /\ i = j
                   /\ d.group # None /\ d.group = e.group => d.src = e.src

\* No service has the root path and one of the well-known ones.
RootApart ==
    \A x \in Site : \A s \in Asks(x) : ~(HasPath(s, "root") /\ HasPath(s, "wellKnown"))

\* The parameters of which the parser of the environment makes the same as that of
\* the requests: nothing relies on inheritance, a domain comes with a path, what
\* has an index has a path and a port of its own, and no port comes twice.
PlainParams(params, protocol) ==
    IF LastIndex(params) = 0
    THEN /\ params[0].domain # <<>> => params[0].path # {}
         /\ params[0].mode = None => protocol = "http"
    ELSE /\ params[0] = Nothing
         /\ \A i \in 1..MaxIndex : Given(params, i) =>
               /\ params[i].path # {} /\ params[i].port # 0
               /\ \A j \in 1..MaxIndex : params[i].port = params[j].port => i = j

\* What is complete in the environment is said in parameters of that kind.
PlainEnvironment ==
    \A x \in Site : \A q \in Entries(x) :
        Complete(q) => PlainParams(q.params, Deployment[x].protocol)

--------------------------------------------------------------------------------
(* The files and what the frontends name *)

Sections(fl) == UNION {{b.section : b \in fl[a]} : a \in Acl}

\* A file defines sections of its owner, and none twice.
Tidy(fl) ==
    \A a \in Acl : \A b \in fl[a] :
        b.section.owner = a /\ \A c \in fl[a] : b.section = c.section => b = c

\* What HAProxy sees of s whatever else is registered: the sections its http and
\* sni rules name are among those given, the acls have a path, and sni has a port.
Sound(s, sections) ==
    \A i \in DOMAIN s.dests :
        LET d == s.dests[i]
        IN  /\ d.mode = "http" /\ d.port # 0 => PlainSection(s, d) \in sections /\ d.path # {}
            /\ d.mode = "http" /\ d.https # 0 => HttpsSection(s, d) \in sections /\ d.path # {}
            /\ Fold(d.mode) = "sni" =>
                  Section(s.svc, d.port, d.index, FALSE) \in sections /\ d.path # {} /\ d.src # 0

\* What it may see of the tcp destinations of s.
Streamable(s, sections) ==
    \A i \in DOMAIN s.dests :
        LET d == s.dests[i]
        IN  Fold(d.mode) = "tcp" =>
               d.src # 0 /\ (d.group = None => PlainSection(s, d) \in sections)

Supported(s, sections) == Sound(s, sections) /\ Streamable(s, sections)

AllSupported(reg, fl) ==
    \A s \in Service : reg[s] # None => Supported(reg[s], Sections(fl))

\* HAProxy runs what was generated of the registry as it is now.
Current ==
    \E reg, fl : Keeps(reg, site) /\ registry = AfterRender(reg) /\ running \in Renders(reg, fl)

LayoutInv == Tidy(files) /\ AllSupported(registry, files) /\ Current

LEMMA NamesOfKin ==
  ASSUME OwnNames, NEW x \in Site, NEW s \in Kin(x), NEW t \in Kin(x), s.svc # t.svc
  PROVE  s.acl # t.acl /\ s.acl # t.svc
<1>1. PICK a \in Asks(x) : a.svc = s.svc /\ a.acl = s.acl
  BY DEF Kin, Alike
<1>2. PICK b \in Asks(x) : b.svc = t.svc /\ b.acl = t.acl
  BY DEF Kin, Alike
<1>3. {a.svc, a.acl} \cap {b.svc, b.acl} = {}
  BY <1>1, <1>2 DEF OwnNames
<1>4. QED  BY <1>1, <1>2, <1>3

LEMMA FoldedMode ==
  /\ Fold("http") = "http" /\ Fold("HTTP") = "http" /\ Fold("tcp") = "tcp"
  /\ Fold("TCP") = "tcp" /\ Fold("sni") = "sni" /\ Fold("SNI") = "sni"
  BY DEF Fold

LEMMA DestFields ==
  ASSUME NEW s \in ServiceRecord, NEW i \in DOMAIN s.dests
  PROVE  /\ s.dests[i] \in DestRecord /\ i \in Nat
         /\ \A port \in Nat, https \in BOOLEAN :
               /\ Section(s.acl, port, s.dests[i].index, https) \in SectionRecord
               /\ Section(s.svc, port, s.dests[i].index, https) \in SectionRecord
               /\ Section(s.acl, port, s.dests[i].index, https) # None
               /\ Section(s.svc, port, s.dests[i].index, https) # None
<1>1. s.dests \in Seq(DestRecord) /\ s.acl \in Acl /\ s.svc \in Acl
  BY DEF ServiceRecord, Acl
<1>2. s.dests[i] \in DestRecord /\ i \in Nat
  BY <1>1, LenProperties
<1>3. ASSUME NEW port \in Nat, NEW https \in BOOLEAN, NEW a \in Acl
      PROVE  Section(a, port, s.dests[i].index, https) \in SectionRecord
  BY <1>2 DEF Section, SectionRecord, DestRecord
<1>4. QED  BY <1>1, <1>2, <1>3, RoutingAssumption

LEMMA SupportedAlike ==
  ASSUME NEW s, NEW t, Alike(s, t), NEW sections
  PROVE  /\ Sound(s, sections) <=> Sound(t, sections)
         /\ Supported(s, sections) <=> Supported(t, sections)
<1>1. DOMAIN s.dests = DOMAIN t.dests
  BY DEF Alike
<1>2. ASSUME NEW i \in DOMAIN s.dests
      PROVE  LET d == s.dests[i]
                 e == t.dests[i]
             IN  /\ e.mode = d.mode /\ e.port = d.port /\ e.https = d.https /\ e.path = d.path
                 /\ e.group = d.group /\ e.src = d.src /\ PlainSection(t, e) = PlainSection(s, d)
                 /\ HttpsSection(t, e) = HttpsSection(s, d)
                 /\ Section(t.svc, e.port, e.index, FALSE) = Section(s.svc, d.port, d.index, FALSE)
  BY DEF Alike, SameButDomain, PlainSection, HttpsSection
<1>3. Sound(s, sections) <=> Sound(t, sections)
  BY <1>1, <1>2 DEF Sound
<1>4. Streamable(s, sections) <=> Streamable(t, sections)
  BY <1>1, <1>2 DEF Streamable
<1>5. QED  BY <1>3, <1>4 DEF Supported

\* Sorting loses no service and makes none up.
LEMMA OrderIsComplete ==
  ASSUME NEW x \in Site, NEW reg, Keeps(reg, x), NEW o \in Orders(Registered(reg))
  PROVE  /\ \A i \in DOMAIN o : \E s \in Service : reg[s] # None /\ o[i] = reg[s]
         /\ \A s \in Service : reg[s] # None => \E i \in DOMAIN o : o[i] = reg[s]
<1> DEFINE set == Registered(reg)
           n   == Cardinality(set)
           image == {reg[s] : s \in Service}
<1>1. DOMAIN reg = Service
  BY DEF Keeps
<1>2. \A i \in DOMAIN o : \E s \in Service : reg[s] # None /\ o[i] = reg[s]
  BY <1>1 DEF Orders, Registered
<1>3. IsFiniteSet(set)
  <2>1. reg \in Surjection(Service, image)
    BY <1>1 DEF Surjection, Keeps
  <2>2. IsFiniteSet(image)
    BY <2>1, FS_Surjection, RoutingAssumption
  <2>3. set \in SUBSET image
    BY <1>1 DEF Registered
  <2>4. QED  BY <2>2, <2>3, FS_Subset
<1>4. n \in Nat /\ IsFiniteSet(1..n) /\ Cardinality(1..n) = n
  <2>1. n \in Nat
    BY <1>3, FS_CardinalityType
  <2>2. IsFiniteSet(1..n) /\ Cardinality(1..n) = IF 1 > n THEN 0 ELSE n - 1 + 1
    BY <2>1, FS_Interval
  <2>3. QED  BY <2>1, <2>2
<1>5. o \in [1..n -> set] /\ \A i, j \in 1..n : i < j => o[i] # o[j]
  BY DEF Orders
<1> HIDE DEF set, n
<1>6. o \in Injection(1..n, set)
  <2>1. \A i, j \in 1..n : o[i] = o[j] => i = j
    BY <1>4, <1>5
  <2>2. QED  BY <1>5, <2>1 DEF Injection, IsInjective
<1>7. o \in Surjection(1..n, set)
  BY <1>3, <1>4, <1>6, FS_Injection DEF n
<1>8. ASSUME NEW s \in Service, reg[s] # None
      PROVE  \E i \in DOMAIN o : o[i] = reg[s]
  <2>1. reg[s] \in set
    BY <1>1, <1>8 DEF Registered, set
  <2>2. QED  BY <1>5, <1>7, <2>1 DEF Surjection
<1>9. QED  BY <1>2, <1>8

\* A destination of a registered service.
Placed(reg, s, i) == s \in Service /\ reg[s] # None /\ i \in DOMAIN reg[s].dests

\* The places of an order are the destinations of the registered services.
LEMMA PlaceOf ==
  ASSUME NEW x \in Site, NEW reg, Keeps(reg, x), NEW o \in Orders(Registered(reg)),
         NEW mode, NEW y \in Places(o, mode)
  PROVE  \E s, i :
            /\ Placed(reg, s, i) /\ o[y[1]] = reg[s] /\ y[2] = i
            /\ At(o, y) = reg[s].dests[i] /\ Fold(reg[s].dests[i].mode) = mode
<1>1. PICK k \in DOMAIN o : y \in {k} \X DOMAIN o[k].dests
  BY DEF Places
<1>2. y[1] = k /\ y[2] \in DOMAIN o[k].dests /\ Fold(At(o, y).mode) = mode
  BY <1>1 DEF Places
<1>3. PICK s \in Service : reg[s] # None /\ o[k] = reg[s]
  BY OrderIsComplete
<1>4. QED  BY <1>2, <1>3 DEF At, Placed

LEMMA PlaceFor ==
  ASSUME NEW x \in Site, NEW reg, Keeps(reg, x), NEW o \in Orders(Registered(reg)),
         NEW s \in Service, reg[s] # None, NEW i \in DOMAIN reg[s].dests
  PROVE  \E k \in DOMAIN o : /\ o[k] = reg[s] /\ At(o, <<k, i>>) = reg[s].dests[i]
                             /\ <<k, i>> \in Places(o, Fold(reg[s].dests[i].mode))
<1>1. PICK k \in DOMAIN o : o[k] = reg[s]
  BY OrderIsComplete
<1>2. At(o, <<k, i>>) = reg[s].dests[i]
  BY <1>1 DEF At
<1>3. <<k, i>> \in {k} \X DOMAIN o[k].dests
  BY <1>1
<1>4. <<k, i>> \in Places(o, Fold(reg[s].dests[i].mode))
  BY <1>2, <1>3 DEF Places
<1>5. QED  BY <1>1, <1>2, <1>4

\* The rules that the service t may have because of its destination d; a listen
\* section is bound to the source port of a tcp destination of some service.
HttpRule(t, d, algo, r) ==
    /\ d.mode = "http"
    /\ \/ d.port # 0 /\ r = Rule(t, d, "http", None, PlainSection(t, d), algo)
       \/ d.https # 0 /\ r = Rule(t, d, "http", None, HttpsSection(t, d), algo)
SniRule(t, d, algo) == Rule(t, d, "sni", d.src, Section(t.svc, d.port, d.index, FALSE), algo)
TcpRule(t, d, algo) == Rule(t, d, "tcp", d.src, PlainSection(t, d), algo)
ListenRule(t, d, algo, reg, r) ==
    \E v, j :
        /\ Placed(reg, v, j) /\ Fold(reg[v].dests[j].mode) = "tcp"
        /\ r = Rule(t, d, "listen", reg[v].dests[j].src, None, algo)
StreamRule(t, d, algo, reg, r) ==
    \/ Fold(d.mode) = "sni" /\ r = SniRule(t, d, algo)
    \/ Fold(d.mode) = "tcp" /\ d.group = None /\ r = TcpRule(t, d, algo)
    \/ Fold(d.mode) = "tcp" /\ ListenRule(t, d, algo, reg, r)

\* What stands at a place when it is rendered.
ServiceAt(o, y) == Trimmed(o[y[1]])
DestAt(o, y) == ServiceAt(o, y).dests[y[2]]
AlgoAt(o, y) == AlgoOf(o[y[1]])

LEMMA StreamRulesAre ==
  ASSUME NEW o, NEW defaults, NEW r
  PROVE  r \in StreamRules(o, defaults) <=>
            \/ \E y \in Places(o, "sni") : r = SniRule(ServiceAt(o, y), DestAt(o, y), AlgoAt(o, y))
            \/ \E z \in Openers(o) : \E y \in Grouped(o) :
                  /\ At(o, y).group = At(o, z).group
                  /\ r = Rule(ServiceAt(o, y), DestAt(o, y), "listen", DestAt(o, z).src, None,
                              AlgoAt(o, y))
            \/ \E y \in (Places(o, "tcp") \ (Grouped(o) \cup Open(o))) \cup defaults :
                  r = TcpRule(ServiceAt(o, y), DestAt(o, y), AlgoAt(o, y))
<1> DEFINE Sni    == {SniRule(ServiceAt(o, y), DestAt(o, y), AlgoAt(o, y)) : y \in Places(o, "sni")}
           Listen == UNION {{Rule(ServiceAt(o, x), DestAt(o, x), "listen", DestAt(o, y).src, None,
                                  AlgoAt(o, x)) :
                                x \in {x \in Grouped(o) : At(o, x).group = At(o, y).group}} :
                            y \in Openers(o)}
           Tcp    == {TcpRule(ServiceAt(o, y), DestAt(o, y), AlgoAt(o, y)) :
                         y \in (Places(o, "tcp") \ (Grouped(o) \cup Open(o))) \cup defaults}
<1>1. StreamRules(o, defaults) = (Sni \cup Listen) \cup Tcp
  BY Zenon DEF StreamRules, SniRule, TcpRule, ServiceAt, DestAt, AlgoAt
<1>2. r \in Sni <=>
         \E y \in Places(o, "sni") : r = SniRule(ServiceAt(o, y), DestAt(o, y), AlgoAt(o, y))
  OBVIOUS
<1>3. r \in Tcp <=> \E y \in (Places(o, "tcp") \ (Grouped(o) \cup Open(o))) \cup defaults :
                        r = TcpRule(ServiceAt(o, y), DestAt(o, y), AlgoAt(o, y))
  OBVIOUS
<1>4. r \in Listen <=> \E z \in Openers(o) : \E y \in Grouped(o) :
         /\ At(o, y).group = At(o, z).group
         /\ r = Rule(ServiceAt(o, y), DestAt(o, y), "listen", DestAt(o, z).src, None, AlgoAt(o, y))
  OBVIOUS
<1>5. QED  BY <1>1, <1>2, <1>3, <1>4

LEMMA StreamRuleOf ==
  ASSUME NEW x \in Site, NEW reg, Keeps(reg, x), NEW o \in Orders(Registered(reg)),
         NEW defaults \in Defaults(o), NEW r \in StreamRules(o, defaults)
  PROVE  \E s, i :
            /\ Placed(reg, s, i)
            /\ StreamRule(Trimmed(reg[s]), Trimmed(reg[s]).dests[i], AlgoOf(reg[s]), reg, r)
<1> DEFINE S(z) == ServiceAt(o, z)
           D(z) == DestAt(o, z)
           algo(z) == AlgoAt(o, z)
<1>1. ASSUME NEW mode, NEW y \in Places(o, mode)
      PROVE  \E s, i :
                /\ Placed(reg, s, i) /\ o[y[1]] = reg[s] /\ y[2] = i
                /\ D(y) = Trimmed(reg[s]).dests[i] /\ D(y).src = reg[s].dests[i].src
                /\ Fold(D(y).mode) = mode /\ Fold(reg[s].dests[i].mode) = mode
                /\ D(y).group = At(o, y).group
  <2>1. PICK s, i :
           /\ Placed(reg, s, i) /\ o[y[1]] = reg[s] /\ y[2] = i
           /\ At(o, y) = reg[s].dests[i] /\ Fold(reg[s].dests[i].mode) = mode
    BY PlaceOf
  <2>2. reg[s] \in Kin(x)
    BY <2>1 DEF Keeps, Placed
  <2>3. SameButDomain(reg[s].dests[i], Trimmed(reg[s]).dests[i])
    BY <2>1, <2>2, TrimmedIsKin DEF Alike, Placed
  <2>4. QED  BY <2>1, <2>3 DEF SameButDomain, ServiceAt, DestAt
<1> DEFINE R(z, front, bind, to) == Rule(S(z), D(z), front, bind, to, algo(z))
<1>2. \/ \E y \in Places(o, "sni") : r = SniRule(S(y), D(y), algo(y))
      \/ \E z \in Openers(o) : \E y \in Grouped(o) : r = R(y, "listen", D(z).src, None)
      \/ \E y \in (Places(o, "tcp") \ (Grouped(o) \cup Open(o))) \cup defaults :
            r = TcpRule(S(y), D(y), algo(y))
  BY StreamRulesAre
<1> HIDE DEF D, S, algo
<1>3. CASE \E y \in Places(o, "sni") : r = SniRule(S(y), D(y), algo(y))
  <2>1. PICK y \in Places(o, "sni") : r = SniRule(S(y), D(y), algo(y))
    BY <1>3
  <2>2. PICK s, i :
           /\ Placed(reg, s, i) /\ o[y[1]] = reg[s] /\ D(y) = Trimmed(reg[s]).dests[i]
           /\ Fold(D(y).mode) = "sni"
    BY <1>1
  <2>3. StreamRule(S(y), D(y), algo(y), reg, r)
    BY <2>1, <2>2 DEF StreamRule
  <2>4. QED  BY <2>2, <2>3 DEF S, algo, ServiceAt, AlgoAt
<1>4. CASE \E z \in Openers(o) : \E y \in Grouped(o) : r = R(y, "listen", D(z).src, None)
  <2>1. PICK z \in Openers(o), y \in Grouped(o) : r = R(y, "listen", D(z).src, None)
    BY <1>4
  <2>2. z \in Places(o, "tcp") /\ y \in Places(o, "tcp")
    BY DEF Openers, Grouped
  <2>3. PICK s, i :
           /\ Placed(reg, s, i) /\ o[y[1]] = reg[s] /\ D(y) = Trimmed(reg[s]).dests[i]
           /\ Fold(D(y).mode) = "tcp"
    BY <1>1, <2>2
  <2>4. PICK v, j :
           /\ Placed(reg, v, j) /\ D(z).src = reg[v].dests[j].src
           /\ Fold(reg[v].dests[j].mode) = "tcp"
    BY <1>1, <2>2
  <2>5. ListenRule(S(y), D(y), algo(y), reg, r)
    BY <2>1, <2>4 DEF ListenRule
  <2>6. StreamRule(S(y), D(y), algo(y), reg, r)
    BY <2>3, <2>5 DEF StreamRule
  <2>7. QED  BY <2>3, <2>6 DEF S, algo, ServiceAt, AlgoAt
<1>5. CASE \E y \in (Places(o, "tcp") \ (Grouped(o) \cup Open(o))) \cup defaults :
              r = TcpRule(S(y), D(y), algo(y))
  <2>1. PICK y \in (Places(o, "tcp") \ (Grouped(o) \cup Open(o))) \cup defaults :
           r = TcpRule(S(y), D(y), algo(y))
    BY <1>5
  <2>2. y \in Places(o, "tcp") /\ At(o, y).group = None
    BY DEF Defaults, Open, Grouped
  <2>3. PICK s, i :
           /\ Placed(reg, s, i) /\ o[y[1]] = reg[s] /\ D(y) = Trimmed(reg[s]).dests[i]
           /\ Fold(D(y).mode) = "tcp" /\ D(y).group = At(o, y).group
    BY <1>1, <2>2
  <2>4. StreamRule(S(y), D(y), algo(y), reg, r)
    BY <2>1, <2>2, <2>3 DEF StreamRule
  <2>5. QED  BY <2>3, <2>4 DEF S, algo, ServiceAt, AlgoAt
<1>6. QED  BY <1>2, <1>3, <1>4, <1>5

\* Where the rules of a configuration come from.
LEMMA RuleOf ==
  ASSUME NEW x \in Site, NEW reg, Keeps(reg, x), NEW fl, NEW c \in Renders(reg, fl),
         NEW r \in Rules(c)
  PROVE  \E s, i :
            LET t == Trimmed(reg[s])
                d == t.dests[i]
            IN  /\ Placed(reg, s, i)
                /\ \/ HttpRule(t, d, AlgoOf(reg[s]), r)
                   \/ StreamRule(t, d, AlgoOf(reg[s]), reg, r)
<1>1. PICK o, defaults :
         /\ o \in Orders(Registered(reg)) /\ defaults \in Defaults(o)
         /\ c.http = [i \in DOMAIN o |-> HttpRules(Trimmed(o[i]), AlgoOf(o[i]))]
         /\ c.streams = StreamRules(o, defaults)
  BY DEF Renders
<1>2. CASE r \in c.streams
  BY <1>1, <1>2, StreamRuleOf
<1>3. CASE \E k \in DOMAIN c.http : r \in c.http[k]
  <2>1. PICK k \in DOMAIN o : r \in HttpRules(Trimmed(o[k]), AlgoOf(o[k]))
    BY <1>1, <1>3
  <2>2. PICK s \in Service : reg[s] # None /\ o[k] = reg[s]
    BY <1>1, OrderIsComplete
  <2> DEFINE t == Trimmed(reg[s])
             algo == AlgoOf(reg[s])
  <2>3. r \in HttpRules(t, algo)
    BY <2>1, <2>2
  <2>4. reg[s] \in Kin(x)
    BY <2>2 DEF Keeps
  <2>5. DOMAIN t.dests = DOMAIN reg[s].dests
    BY <2>4, TrimmedIsKin DEF Alike
  <2> HIDE DEF t, algo
  <2>6. \E i \in DOMAIN t.dests : HttpRule(t, t.dests[i], algo, r)
    BY <2>3 DEF HttpRules, HttpRule, Dests
  <2>7. QED  BY <2>2, <2>5, <2>6 DEF t, algo, Placed
<1>4. QED  BY <1>2, <1>3 DEF Rules

\* The rules that are there whatever else is registered.
LEMMA RulesThere ==
  ASSUME NEW x \in Site, NEW reg, Keeps(reg, x), NEW fl, NEW c \in Renders(reg, fl),
         NEW s \in Service, reg[s] # None, NEW i \in DOMAIN reg[s].dests
  PROVE  LET t == Trimmed(reg[s])
             d == t.dests[i]
         IN  /\ \A r : HttpRule(t, d, AlgoOf(reg[s]), r) => r \in Rules(c)
             /\ Fold(d.mode) = "sni" => SniRule(t, d, AlgoOf(reg[s])) \in Rules(c)
             /\ Fold(d.mode) = "tcp" /\ d.group = None /\ d.domain # <<>> =>
                   TcpRule(t, d, AlgoOf(reg[s])) \in Rules(c)
<1> DEFINE t == Trimmed(reg[s])
           d == t.dests[i]
           algo == AlgoOf(reg[s])
<1>1. PICK o, defaults :
         /\ o \in Orders(Registered(reg)) /\ defaults \in Defaults(o)
         /\ c.http = [k \in DOMAIN o |-> HttpRules(Trimmed(o[k]), AlgoOf(o[k]))]
         /\ c.streams = StreamRules(o, defaults)
  BY DEF Renders
<1>2. reg[s] \in Kin(x)
  BY DEF Keeps
<1>3. DOMAIN t.dests = DOMAIN reg[s].dests /\ SameButDomain(reg[s].dests[i], d)
  BY <1>2, TrimmedIsKin DEF Alike
<1>4. PICK k \in DOMAIN o : /\ o[k] = reg[s] /\ At(o, <<k, i>>) = reg[s].dests[i]
                            /\ <<k, i>> \in Places(o, Fold(reg[s].dests[i].mode))
  BY <1>1, PlaceFor
<1>5. \A r : HttpRule(t, d, algo, r) => r \in HttpRules(t, algo)
  <2>1. d \in Dests(t)
    BY <1>3 DEF Dests
  <2> HIDE DEF t, d, algo
  <2>2. QED  BY <2>1 DEF HttpRules, HttpRule
<1>6. HttpRules(t, algo) \subseteq Rules(c)
  <2>1. c.http[k] = HttpRules(t, algo) /\ k \in DOMAIN c.http
    BY <1>1, <1>4
  <2>2. QED  BY <2>1 DEF Rules
<1> DEFINE y == <<k, i>>
<1>y. /\ y \in Places(o, Fold(d.mode)) /\ At(o, y).group = d.group
      /\ At(o, y).domain = <<>> <=> d.domain = <<>>
      /\ ServiceAt(o, y) = t /\ DestAt(o, y) = d /\ AlgoAt(o, y) = algo
  BY <1>3, <1>4 DEF SameButDomain, ServiceAt, DestAt, AlgoAt
<1> HIDE DEF y, t, d, algo
<1>7. Fold(d.mode) = "sni" => SniRule(t, d, algo) \in StreamRules(o, defaults)
  BY <1>y, StreamRulesAre
<1>8. Fold(d.mode) = "tcp" /\ d.group = None /\ d.domain # <<>> =>
         TcpRule(t, d, algo) \in StreamRules(o, defaults)
  <2> SUFFICES ASSUME Fold(d.mode) = "tcp", d.group = None, d.domain # <<>>
               PROVE  TcpRule(t, d, algo) \in StreamRules(o, defaults)
    OBVIOUS
  <2>1. y \in (Places(o, "tcp") \ (Grouped(o) \cup Open(o))) \cup defaults
    BY <1>y DEF Grouped, Open
  <2>2. QED  BY <1>y, <2>1, StreamRulesAre
<1>9. StreamRules(o, defaults) \subseteq Rules(c)
  BY <1>1 DEF Rules
<1>10. QED  BY <1>5, <1>6, <1>7, <1>8, <1>9 DEF t, d, algo

FineRule(r, sections) == /\ r.to # None => r.to \in sections
                         /\ r.front \in {"http", "sni"} => r.dest.path # {}
                         /\ r.bind # 0

\* What HAProxy accepts, in terms of the services and the files.
LEMMA AcceptedFine ==
  ASSUME NEW reg, NEW fl, NEW c \in Renders(reg, fl)
  PROVE  Accepts(c) <=>
            /\ \A a \in Acl : \A b, d \in fl[a] : b.section = d.section => b = d
            /\ \A r \in Rules(c) : FineRule(r, Sections(fl))
<1>1. /\ c.backs = Sections(fl)
      /\ c.clash <=> \E a \in Acl : \E b, d \in fl[a] : b # d /\ b.section = d.section
  BY DEF Renders, Sections
<1>2. QED  BY <1>1 DEF Accepts, FineRule

LEMMA AcceptedIf ==
  ASSUME NEW x \in Site, NEW reg, Keeps(reg, x), NEW fl, NEW c \in Renders(reg, fl),
         \A a \in Acl : \A b, d \in fl[a] : b.section = d.section => b = d,
         AllSupported(reg, fl)
  PROVE  Accepts(c)
<1> SUFFICES ASSUME NEW r \in Rules(c)  PROVE FineRule(r, Sections(fl))
  BY AcceptedFine
<1>1. PICK s, i :
         /\ Placed(reg, s, i)
         /\ \/ HttpRule(Trimmed(reg[s]), Trimmed(reg[s]).dests[i], AlgoOf(reg[s]), r)
            \/ StreamRule(Trimmed(reg[s]), Trimmed(reg[s]).dests[i], AlgoOf(reg[s]), reg, r)
  BY RuleOf
<1> DEFINE t == Trimmed(reg[s])
           d == t.dests[i]
           algo == AlgoOf(reg[s])
<1>2. Alike(reg[s], t) /\ Supported(t, Sections(fl))
  <2>1. reg[s] \in Kin(x)
    BY <1>1 DEF Keeps, Placed
  <2>2. Alike(reg[s], t)
    BY <2>1, TrimmedIsKin
  <2>3. Supported(reg[s], Sections(fl))
    BY <1>1 DEF AllSupported, Placed
  <2>4. QED  BY <2>2, <2>3, SupportedAlike
<1>3. i \in DOMAIN t.dests
  BY <1>1, <1>2 DEF Alike, Placed
<1>4. /\ d.mode = "http" /\ d.port # 0 => PlainSection(t, d) \in Sections(fl) /\ d.path # {}
      /\ d.mode = "http" /\ d.https # 0 => HttpsSection(t, d) \in Sections(fl) /\ d.path # {}
      /\ Fold(d.mode) = "sni" =>
            /\ Section(t.svc, d.port, d.index, FALSE) \in Sections(fl)
            /\ d.path # {} /\ d.src # 0
      /\ Fold(d.mode) = "tcp" =>
            d.src # 0 /\ (d.group = None => PlainSection(t, d) \in Sections(fl))
  BY <1>2, <1>3 DEF Supported, Sound, Streamable
<1>5. HttpRule(t, d, algo, r) \/ StreamRule(t, d, algo, reg, r)
  BY <1>1
<1>6. \A front, bind, to : LET u == Rule(t, d, front, bind, to, algo)
                           IN  u.front = front /\ u.bind = bind /\ u.to = to /\ u.dest = d
  BY DEF Rule
<1>7. None # 0
  BY RoutingAssumption
<1> HIDE DEF t, d, algo
<1>8. CASE HttpRule(t, d, algo, r)
  BY <1>4, <1>6, <1>7, <1>8 DEF HttpRule, FineRule
<1>9. CASE Fold(d.mode) = "sni" /\ r = SniRule(t, d, algo)
  <2>1. /\ r.to = Section(t.svc, d.port, d.index, FALSE) /\ r.dest = d /\ r.bind = d.src
    BY <1>9 DEF SniRule, Rule
  <2>2. QED  BY <1>4, <1>9, <2>1 DEF FineRule
<1>10. CASE Fold(d.mode) = "tcp" /\ d.group = None /\ r = TcpRule(t, d, algo)
  <2>1. r.to = PlainSection(t, d) /\ r.front = "tcp" /\ r.bind = d.src
    BY <1>6, <1>10 DEF TcpRule
  <2>2. QED  BY <1>4, <1>10, <2>1 DEF FineRule
<1>11. CASE ListenRule(t, d, algo, reg, r)
  <2>1. PICK v, j :
           /\ Placed(reg, v, j) /\ Fold(reg[v].dests[j].mode) = "tcp"
           /\ r = Rule(t, d, "listen", reg[v].dests[j].src, None, algo)
    BY <1>11 DEF ListenRule
  <2>2. reg[v].dests[j].src # 0
    BY <2>1 DEF AllSupported, Supported, Streamable, Placed
  <2>3. r.to = None /\ r.front = "listen" /\ r.bind # 0
    BY <1>6, <2>1, <2>2
  <2>4. QED  BY <2>3 DEF FineRule
<1>12. QED  BY <1>5, <1>8, <1>9, <1>10, <1>11 DEF StreamRule

LEMMA AcceptedOnlyIf ==
  ASSUME NEW x \in Site, NEW reg, Keeps(reg, x), NEW fl, NEW c \in Renders(reg, fl), Accepts(c),
         NEW s \in Service, reg[s] # None
  PROVE  Sound(reg[s], Sections(fl))
<1> DEFINE t == Trimmed(reg[s])
           algo == AlgoOf(reg[s])
<1>1. reg[s] \in Kin(x)
  BY DEF Keeps
<1>2. Alike(reg[s], t) /\ t \in ServiceRecord
  BY <1>1, TrimmedIsKin DEF Kin
<1>3. ASSUME NEW i \in DOMAIN t.dests
      PROVE  LET d == t.dests[i]
             IN  /\ d.mode = "http" /\ d.port # 0 => PlainSection(t, d) \in Sections(fl) /\ d.path # {}
                 /\ d.mode = "http" /\ d.https # 0 =>
                       HttpsSection(t, d) \in Sections(fl) /\ d.path # {}
                 /\ Fold(d.mode) = "sni" =>
                       /\ Section(t.svc, d.port, d.index, FALSE) \in Sections(fl)
                       /\ d.path # {} /\ d.src # 0
  <2> DEFINE d == t.dests[i]
             target == Section(t.svc, d.port, d.index, FALSE)
  <2>1. i \in DOMAIN reg[s].dests
    BY <1>2 DEF Alike
  <2>2. /\ \A r : HttpRule(t, d, algo, r) => r \in Rules(c)
        /\ Fold(d.mode) = "sni" => SniRule(t, d, algo) \in Rules(c)
    BY <2>1, RulesThere
  <2>3. PlainSection(t, d) # None /\ HttpsSection(t, d) # None /\ target # None
    BY <1>2, DestFields DEF PlainSection, HttpsSection, DestRecord
  <2>4. \A r \in Rules(c) : FineRule(r, Sections(fl))
    BY AcceptedFine
  <2>5. \A front, bind, to : LET u == Rule(t, d, front, bind, to, algo)
                             IN  u.front = front /\ u.bind = bind /\ u.to = to /\ u.dest = d
    BY DEF Rule
  <2> HIDE DEF t, d, algo, target
  <2>6. d.mode = "http" /\ d.port # 0 => PlainSection(t, d) \in Sections(fl) /\ d.path # {}
    <3> SUFFICES ASSUME d.mode = "http" /\ d.port # 0
                 PROVE  PlainSection(t, d) \in Sections(fl) /\ d.path # {}
      OBVIOUS
    <3> DEFINE r == Rule(t, d, "http", None, PlainSection(t, d), algo)
    <3>1. r \in Rules(c)
      BY <2>2 DEF HttpRule
    <3>2. QED  BY <2>3, <2>4, <2>5, <3>1 DEF FineRule
  <2>7. d.mode = "http" /\ d.https # 0 => HttpsSection(t, d) \in Sections(fl) /\ d.path # {}
    <3> SUFFICES ASSUME d.mode = "http" /\ d.https # 0
                 PROVE  HttpsSection(t, d) \in Sections(fl) /\ d.path # {}
      OBVIOUS
    <3> DEFINE r == Rule(t, d, "http", None, HttpsSection(t, d), algo)
    <3>1. r \in Rules(c)
      BY <2>2 DEF HttpRule
    <3>2. QED  BY <2>3, <2>4, <2>5, <3>1 DEF FineRule
  <2>8. Fold(d.mode) = "sni" => target \in Sections(fl) /\ d.path # {} /\ d.src # 0
    <3> SUFFICES ASSUME Fold(d.mode) = "sni"
                 PROVE  target \in Sections(fl) /\ d.path # {} /\ d.src # 0
      OBVIOUS
    <3>1. FineRule(SniRule(t, d, algo), Sections(fl))
      BY <2>2, <2>4
    <3>2. SniRule(t, d, algo) = Rule(t, d, "sni", d.src, target, algo)
      BY DEF SniRule, target
    <3>3. QED  BY <2>3, <2>5, <3>1, <3>2 DEF FineRule
  <2>9. QED  BY <2>6, <2>7, <2>8 DEF d, target
<1>4. Sound(t, Sections(fl))
  BY <1>3 DEF Sound
<1>5. QED  BY <1>2, <1>4, SupportedAlike

LEMMA RenderSupported ==
  ASSUME NEW x \in Site, NEW reg, Keeps(reg, x), NEW fl, AllSupported(reg, fl)
  PROVE  AllSupported(AfterRender(reg), fl)
<1> SUFFICES ASSUME NEW s \in Service, AfterRender(reg)[s] # None
             PROVE  Supported(AfterRender(reg)[s], Sections(fl))
  BY DEF AllSupported
<1>1. reg[s] # None /\ AfterRender(reg)[s] = Trimmed(reg[s])
  BY RenderKeeps
<1>2. Alike(reg[s], Trimmed(reg[s]))
  BY <1>1, TrimmedIsKin DEF Keeps
<1>3. QED  BY <1>1, <1>2, SupportedAlike DEF AllSupported

\* The file of one service matters to no other.
LEMMA OthersSupported ==
  ASSUME OwnNames, NEW x \in Site, NEW s \in Kin(x), NEW t \in Kin(x), s.svc # t.svc,
         NEW fl \in [Acl -> SUBSET Sheet], Tidy(fl), Supported(t, Sections(fl)), NEW sheets
  PROVE  Supported(t, Sections([fl EXCEPT ![s.acl] = sheets]))
<1> DEFINE fl1 == [fl EXCEPT ![s.acl] = sheets]
<1>1. ASSUME NEW c \in Sections(fl), c.owner # s.acl
      PROVE  c \in Sections(fl1)
  <2>1. PICK a \in Acl : \E b \in fl[a] : c = b.section
    BY DEF Sections
  <2>2. a # s.acl
    BY <1>1, <2>1 DEF Tidy
  <2>3. fl1[a] = fl[a]
    BY <2>2
  <2>4. QED  BY <2>1, <2>3 DEF Sections
<1>2. t.acl # s.acl /\ t.svc # s.acl
  BY NamesOfKin
<1>3. \A d : /\ PlainSection(t, d).owner = t.acl /\ HttpsSection(t, d).owner = t.acl
             /\ Section(t.svc, d.port, d.index, FALSE).owner = t.svc
  BY DEF PlainSection, HttpsSection, Section
<1> HIDE DEF fl1
<1>4. Supported(t, Sections(fl1))
  BY <1>1, <1>2, <1>3 DEF Supported, Sound, Streamable
<1>5. QED  BY <1>4 DEF fl1

\* The backend file of s has a section for each of its tcp destinations that needs one.
LEMMA OwnStreams ==
  ASSUME WholeStreams, NEW x \in Site, NEW s \in Asks(x)
  PROVE  Streamable(s, {b.section : b \in Backends(s)})
<1> SUFFICES ASSUME NEW i \in DOMAIN s.dests, Fold(s.dests[i].mode) = "tcp"
             PROVE  /\ s.dests[i].src # 0
                    /\ s.dests[i].group = None =>
                          PlainSection(s, s.dests[i]) \in {b.section : b \in Backends(s)}
  BY DEF Streamable
<1>1. /\ s.dests[i].src # 0
      /\ s.dests[i].group = None => s.dests[i].mode = "tcp" /\ s.dests[i].port # 0
  BY DEF WholeStreams
<1>2. ASSUME s.dests[i].group = None
      PROVE  Written(i, PlainSection(s, s.dests[i])) \in Backends(s)
  BY <1>1, <1>2, FoldedMode DEF Backends
<1>3. QED  BY <1>1, <1>2 DEF Written

LEMMA SupportedIn ==
  ASSUME NEW s, NEW small, NEW large, small \subseteq large
  PROVE  /\ Supported(s, small) => Supported(s, large)
         /\ Streamable(s, small) => Streamable(s, large)
<1>1. Sound(s, small) => Sound(s, large)
  BY DEF Sound
<1>2. Streamable(s, small) => Streamable(s, large)
  BY DEF Streamable
<1>3. QED  BY <1>1, <1>2 DEF Supported

\* A service that takes the place of another of its name, with the others as they are.
LEMMA PutSupported ==
  ASSUME OwnNames, BaseInv, LayoutInv, NEW s \in Kin(site),
         Supported(s, Sections([files EXCEPT ![s.acl] = Backends(s)]))
  PROVE  AllSupported([registry EXCEPT ![s.svc] = s], [files EXCEPT ![s.acl] = Backends(s)])
<1> DEFINE reg1 == [registry EXCEPT ![s.svc] = s]
           fl1  == [files EXCEPT ![s.acl] = Backends(s)]
<1> SUFFICES ASSUME NEW u \in Service, reg1[u] # None
             PROVE  Supported(reg1[u], Sections(fl1))
  BY DEF AllSupported
<1>1. CASE u = s.svc
  <2>1. reg1[u] = s
    BY <1>1 DEF BaseInv, Keeps
  <2>2. QED  BY <2>1
<1>2. CASE u # s.svc
  <2>1. reg1[u] = registry[u] /\ registry[u] # None
    BY <1>2 DEF BaseInv, Keeps
  <2>2. registry[u] \in Kin(site) /\ registry[u].svc = u /\ Supported(registry[u], Sections(files))
    BY <2>1 DEF BaseInv, Keeps, LayoutInv, AllSupported
  <2>3. Supported(registry[u], Sections(fl1))
    BY <1>2, <2>2, OthersSupported DEF BaseInv, LayoutInv
  <2>4. QED  BY <2>1, <2>3
<1>3. QED  BY <1>1, <1>2

LEMMA WithdrawLayout ==
  ASSUME OwnNames, BaseInv, Tidy(files), NEW s \in Kin(site),
         NEW reg, Keeps(reg, site), NEW fl,
         [fl EXCEPT ![s.acl] = {}] = [files EXCEPT ![s.acl] = {}],
         \A u \in Service : u # s.svc /\ reg[u] # None => Supported(reg[u], Sections(files)),
         Withdraw(s, reg, fl), site' = site
  PROVE  LayoutInv'
<1> DEFINE reg2 == [reg EXCEPT ![s.svc] = None]
           fl2  == [files EXCEPT ![s.acl] = {}]
<1>1. Keeps(reg2, site) /\ s.acl \in Acl /\ s.svc \in Service
  BY PutKeeps DEF BaseInv
<1>2. Tidy(fl2)
  BY <1>1 DEF Tidy, BaseInv
<1>3. AllSupported(reg2, fl2)
  <2> SUFFICES ASSUME NEW u \in Service, reg2[u] # None
               PROVE  Supported(reg2[u], Sections(fl2))
    BY DEF AllSupported
  <2>1. u # s.svc /\ reg2[u] = reg[u] /\ reg[u] # None
    BY <1>1 DEF Keeps
  <2>2. reg[u] \in Kin(site) /\ reg[u].svc = u
    BY <2>1 DEF Keeps
  <2>3. Supported(reg[u], Sections(files))
    BY <2>1
  <2>4. Supported(reg[u], Sections(fl2))
    BY <2>1, <2>2, <2>3, OthersSupported DEF BaseInv
  <2>5. QED  BY <2>1, <2>4
<1>4. PICK c \in Renders(reg2, fl2) : running' = IF Accepts(c) THEN c ELSE running
  BY DEF Withdraw
<1>5. registry' = AfterRender(reg2) /\ files' = fl2
  BY DEF Withdraw
<1> HIDE DEF reg2, fl2
<1>6. Accepts(c)
  BY <1>1, <1>2, <1>3, <1>4, AcceptedIf DEF Tidy, BaseInv
<1>7. AllSupported(AfterRender(reg2), fl2)
  BY <1>1, <1>3, RenderSupported DEF BaseInv
<1>8. Current'
  BY <1>1, <1>4, <1>5, <1>6 DEF Current
<1>9. QED  BY <1>2, <1>5, <1>7, <1>8 DEF LayoutInv

LEMMA ExecuteLayout ==
  ASSUME OwnNames, WholeStreams, BaseInv, LayoutInv, NEW s \in Asks(site), NEW q,
         Execute(s, q), site' = site
  PROVE  LayoutInv'
<1> DEFINE reg1 == [registry EXCEPT ![s.svc] = s]
           fl1  == [files EXCEPT ![s.acl] = Backends(s)]
<1>0. s \in Kin(site)
  BY AsksAreKin DEF BaseInv
<1>1. Keeps(reg1, site) /\ s.acl \in Acl /\ s.svc \in Service /\ s \in ServiceRecord
  BY <1>0, PutKeeps DEF BaseInv
<1>2. Keeps(AfterRender(reg1), site)
  BY <1>1, RenderKeeps DEF BaseInv
<1>3. PICK c \in Renders(reg1, fl1) :
         \/ Accepts(c) /\ registry' = AfterRender(reg1) /\ files' = fl1 /\ running' = c
         \/ ~Accepts(c) /\ Withdraw(s, AfterRender(reg1), fl1)
  BY DEF Execute
<1>4. CASE Accepts(c) /\ registry' = AfterRender(reg1) /\ files' = fl1 /\ running' = c
  <2>1. /\ \A a \in Acl : \A b, d \in fl1[a] : b.section = d.section => b = d
        /\ AllSupported(reg1, fl1)
    <3>1. reg1[s.svc] = s /\ fl1[s.acl] = Backends(s)
      BY <1>1 DEF BaseInv, Keeps
    <3>2. s # None
      BY <1>0, PutKeeps DEF BaseInv
    <3> HIDE DEF reg1, fl1
    <3>3. /\ \A a \in Acl : \A b, d \in fl1[a] : b.section = d.section => b = d
          /\ Sound(s, Sections(fl1))
      <4>1. \A a \in Acl : \A b, d \in fl1[a] : b.section = d.section => b = d
        BY <1>3, <1>4, AcceptedFine
      <4>2. reg1[s.svc] # None
        BY <3>1, <3>2
      <4>3. Sound(reg1[s.svc], Sections(fl1))
        BY <1>1, <1>3, <1>4, <4>2, AcceptedOnlyIf DEF BaseInv
      <4>4. QED  BY <3>1, <4>1, <4>3
    <3>4. {b.section : b \in Backends(s)} \subseteq Sections(fl1)
      BY <1>1, <3>1 DEF Sections
    <3>5. Streamable(s, Sections(fl1))
      BY <3>4, OwnStreams, SupportedIn DEF BaseInv
    <3>6. Supported(s, Sections(fl1))
      BY <3>3, <3>5 DEF Supported
    <3>7. AllSupported(reg1, fl1)
      BY <1>0, <3>6, PutSupported DEF reg1, fl1
    <3>8. QED  BY <3>3, <3>7
  <2>2. \A b \in Backends(s) : b.section.owner = s.acl
    BY DEF Backends, Written, PlainSection, HttpsSection, Section
  <2>3. Tidy(fl1)
    <3>1. \A a \in Acl : fl1[a] = IF a = s.acl THEN Backends(s) ELSE files[a]
      BY <1>1 DEF BaseInv
    <3> HIDE DEF fl1
    <3>2. QED  BY <2>1, <2>2, <3>1 DEF Tidy, LayoutInv
  <2>4. AllSupported(AfterRender(reg1), fl1)
    BY <1>1, <2>1, RenderSupported DEF BaseInv
  <2>5. Current'
    BY <1>1, <1>3, <1>4 DEF Current
  <2>6. QED  BY <1>4, <2>3, <2>4, <2>5 DEF LayoutInv
<1>5. CASE ~Accepts(c) /\ Withdraw(s, AfterRender(reg1), fl1)
  <2>1. [fl1 EXCEPT ![s.acl] = {}] = [files EXCEPT ![s.acl] = {}]
    BY DEF BaseInv
  <2>2. ASSUME NEW u \in Service, u # s.svc, AfterRender(reg1)[u] # None
        PROVE  Supported(AfterRender(reg1)[u], Sections(files))
    <3>1. reg1[u] # None /\ AfterRender(reg1)[u] = Trimmed(reg1[u])
      BY <1>1, <2>2, RenderKeeps DEF BaseInv
    <3>2. reg1[u] = registry[u]
      BY <2>2 DEF BaseInv, Keeps
    <3>3. Alike(registry[u], Trimmed(registry[u]))
      BY <3>1, <3>2, TrimmedIsKin DEF BaseInv, Keeps
    <3>4. Supported(registry[u], Sections(files))
      BY <3>1, <3>2 DEF LayoutInv, AllSupported
    <3>5. QED  BY <3>1, <3>2, <3>3, <3>4, SupportedAlike
  <2> HIDE DEF reg1, fl1
  <2>3. QED  BY <1>0, <1>2, <1>5, <2>1, <2>2, WithdrawLayout DEF LayoutInv
<1>6. QED  BY <1>3, <1>4, <1>5

LEMMA RenderedFrom ==
  ASSUME NEW reg, NEW fl, NEW o \in Orders(Registered(reg)), NEW defaults \in Defaults(o)
  PROVE  [http    |-> [i \in DOMAIN o |-> HttpRules(Trimmed(o[i]), AlgoOf(o[i]))],
          streams |-> StreamRules(o, defaults),
          backs   |-> UNION {{b.section : b \in fl[a]} : a \in Acl},
          clash   |-> \E a \in Acl : \E b, c \in fl[a] : b # c /\ b.section = c.section]
            \in Renders(reg, fl)
<1> DEFINE Render(p, set) ==
              [http    |-> [i \in DOMAIN p |-> HttpRules(Trimmed(p[i]), AlgoOf(p[i]))],
               streams |-> StreamRules(p, set),
               backs   |-> UNION {{b.section : b \in fl[a]} : a \in Acl},
               clash   |-> \E a \in Acl : \E b, c \in fl[a] : b # c /\ b.section = c.section]
           Of(p) == {Render(p, set) : set \in Defaults(p)}
<1>1. Renders(reg, fl) = UNION {Of(p) : p \in Orders(Registered(reg))}
  BY Zenon DEF Renders
<1> HIDE DEF Render
<1>2. Render(o, defaults) \in UNION {Of(p) : p \in Orders(Registered(reg))}
  OBVIOUS
<1>3. QED  BY <1>1, <1>2, Zenon DEF Render

LEMMA InitLayout == Init => LayoutInv
<1> SUFFICES ASSUME Init  PROVE LayoutInv
  OBVIOUS
<1>1. BaseInv
  BY InitBase
<1>2. Tidy(files) /\ AllSupported(registry, files)
  BY DEF Init, Tidy, AllSupported
<1>3. registry = AfterRender(registry)
  BY DEF Init, AfterRender
<1>4. Registered(registry) = {}
  BY DEF Init, Registered
<1>5. <<>> \in Orders({})
  <2>1. Cardinality({}) = 0
    BY FS_EmptySet
  <2>2. <<>> \in [1..0 -> {}] /\ DOMAIN <<>> = {}
    OBVIOUS
  <2>3. QED  BY <2>1, <2>2 DEF Orders
<1>6. running \in Renders(registry, files)
  <2> DEFINE o == <<>>
             c == [http    |-> [i \in DOMAIN o |-> HttpRules(Trimmed(o[i]), AlgoOf(o[i]))],
                   streams |-> StreamRules(o, {}),
                   backs   |-> UNION {{b.section : b \in files[a]} : a \in Acl},
                   clash   |-> \E a \in Acl : \E b, d \in files[a] : b # d /\ b.section = d.section]
  <2>p. \A mode : Places(o, mode) = {}
    BY DEF Places
  <2>d. {} \in Defaults(o)
    BY <2>p DEF Defaults, Open
  <2>1. c \in Renders(registry, files)
    BY <1>4, <1>5, <2>d, RenderedFrom
  <2>2. c.http = <<>>
    OBVIOUS
  <2>3. c.streams = {}
    <3>1. Grouped(o) = {} /\ Openers(o) = {} /\ Places(o, "sni") = {} /\ Places(o, "tcp") = {}
      BY <2>p DEF Grouped, Openers
    <3>2. \A r : r \notin StreamRules(o, {})
      BY <3>1, StreamRulesAre
    <3>3. QED  BY <3>2
  <2>4. c.backs = {} /\ c.clash = FALSE
    BY DEF Init
  <2>5. c = [http |-> c.http, streams |-> c.streams, backs |-> c.backs, clash |-> c.clash]
    OBVIOUS
  <2> HIDE DEF c
  <2>6. c = running
    BY <2>2, <2>3, <2>4, <2>5 DEF Init
  <2>7. QED  BY <2>1, <2>6
<1>7. Current
  BY <1>1, <1>3, <1>6 DEF Current, BaseInv
<1>8. QED  BY <1>2, <1>7 DEF LayoutInv

LEMMA NextLayout == OwnNames /\ WholeStreams /\ BaseInv /\ LayoutInv /\ [Next]_vars => LayoutInv'
<1> SUFFICES ASSUME OwnNames, WholeStreams, BaseInv, LayoutInv, [Next]_vars  PROVE LayoutInv'
  OBVIOUS
<1>1. CASE Startup
  <2>1. Head(pending) \in Entries(site)
    BY <1>1, HeadTailProperties DEF Startup, BaseInv
  <2>2. FromEnvironment(Head(pending), Deployment[site].protocol) \in Asks(site)
    BY <2>1 DEF Asks
  <2>3. QED  BY <1>1, <2>2, ExecuteLayout DEF Startup
<1>2. ASSUME NEW q \in Deployment[site].requests, Reconfigure(q)
      PROVE  LayoutInv'
  <2>1. CASE UNCHANGED <<registry, files, running>>
    BY <1>2, <2>1 DEF Reconfigure, LayoutInv, Current
  <2>2. CASE Execute(FromQuery(q, Deployment[site].users, Deployment[site].encrypted), q)
    <3>1. FromQuery(q, Deployment[site].users, Deployment[site].encrypted) \in Asks(site)
      BY DEF Asks
    <3>2. QED  BY <1>2, <2>2, <3>1, ExecuteLayout DEF Reconfigure
  <2>3. QED  BY <1>2, <2>1, <2>2 DEF Reconfigure
<1>3. ASSUME NEW s \in Service, Remove(s)
      PROVE  LayoutInv'
  <2>1. registry[s] \in Kin(site) /\ registry[s].svc = s
    BY <1>3 DEF Remove, BaseInv, Keeps
  <2>2. Withdraw(registry[s], registry, files) /\ site' = site
    BY <1>3 DEF Remove
  <2>3. QED  BY <2>1, <2>2, WithdrawLayout DEF BaseInv, LayoutInv, AllSupported
<1>4. CASE Recreate
  <2>1. PICK c \in Renders(registry, files) : running' = IF Accepts(c) THEN c ELSE running
    BY <1>4 DEF Recreate
  <2>2. Accepts(c)
    BY <2>1, AcceptedIf DEF Tidy, BaseInv, LayoutInv
  <2>3. registry' = AfterRender(registry) /\ files' = files /\ site' = site
    BY <1>4 DEF Recreate
  <2>4. Current'
    BY <2>1, <2>2, <2>3 DEF Current, BaseInv
  <2>5. AllSupported(AfterRender(registry), files)
    BY RenderSupported DEF BaseInv, LayoutInv
  <2>6. QED  BY <2>3, <2>4, <2>5 DEF LayoutInv
<1>5. CASE UNCHANGED vars
  BY <1>5 DEF vars, LayoutInv, Current
<1>6. QED  BY <1>1, <1>2, <1>3, <1>4, <1>5 DEF Next

LEMMA LayoutInvariant == ASSUME OwnNames, WholeStreams  PROVE Spec => [](BaseInv /\ LayoutInv)
<1>1. Init => BaseInv /\ LayoutInv
  BY InitBase, InitLayout
<1>2. BaseInv /\ LayoutInv /\ [Next]_vars => (BaseInv /\ LayoutInv)'
  BY NextBase, NextLayout
<1>3. QED  BY <1>1, <1>2, PTL DEF Spec

--------------------------------------------------------------------------------
(* The order of the rules, and where they lead *)

\* The services whose rules HAProxy runs are the registered ones, and its rules
\* come in the order of the services as they are now.
LEMMA RunningOrder ==
  ASSUME BaseInv, LayoutInv,
         NEW i \in DOMAIN running.http, NEW j \in DOMAIN running.http, i < j,
         NEW r \in running.http[i], NEW t \in running.http[j]
  PROVE  \E s, u \in Service :
            /\ registry[s] # None /\ registry[u] # None
            /\ r.svc = s /\ t.svc = u
            /\ r.dest \in Dests(registry[s])
            /\ \E p, q : /\ Alike(p, registry[s]) /\ Alike(q, registry[u]) /\ ~Less(q, p)
<1>1. PICK reg, fl : /\ Keeps(reg, site) /\ registry = AfterRender(reg)
                     /\ running \in Renders(reg, fl)
  BY DEF LayoutInv, Current
<1>2. PICK o \in Orders(Registered(reg)) :
         running.http = [k \in DOMAIN o |-> HttpRules(Trimmed(o[k]), AlgoOf(o[k]))]
  BY <1>1 DEF Renders
<1>3. i \in DOMAIN o /\ j \in DOMAIN o /\ ~Less(o[j], o[i])
  BY <1>2 DEF Orders
<1>4. PICK s \in Service : reg[s] # None /\ o[i] = reg[s]
  BY <1>1, <1>3, OrderIsComplete DEF BaseInv
<1>5. PICK u \in Service : reg[u] # None /\ o[j] = reg[u]
  BY <1>1, <1>3, OrderIsComplete DEF BaseInv
<1>6. /\ registry[s] = Trimmed(reg[s]) /\ registry[s] # None
      /\ registry[u] = Trimmed(reg[u]) /\ registry[u] # None
  BY <1>1, <1>4, <1>5, RenderKeeps DEF BaseInv
<1>7. /\ Alike(reg[s], registry[s]) /\ Alike(reg[u], registry[u])
      /\ registry[s].svc = s /\ registry[u].svc = u
  BY <1>1, <1>4, <1>5, <1>6, TrimmedIsKin DEF BaseInv, Keeps
<1>8. r \in HttpRules(registry[s], AlgoOf(reg[s])) /\ t \in HttpRules(registry[u], AlgoOf(reg[u]))
  BY <1>2, <1>3, <1>4, <1>5, <1>6
<1>9. \A z, algo : \A rule \in HttpRules(z, algo) : rule.svc = z.svc /\ rule.dest \in Dests(z)
  BY DEF HttpRules, Rule
<1>10. /\ r.svc = s /\ t.svc = u
       /\ r.dest \in Dests(registry[s])
  BY <1>7, <1>8, <1>9
<1>11. Alike(reg[s], registry[s]) /\ Alike(reg[u], registry[u]) /\ ~Less(reg[u], reg[s])
  BY <1>3, <1>4, <1>5, <1>7
<1>12. QED  BY <1>6, <1>10, <1>11

LEMMA PathsAlike ==
  ASSUME NEW p, NEW s, Alike(p, s), NEW kind
  PROVE  HasPath(p, kind) <=> HasPath(s, kind)
  BY DEF HasPath, Alike, SameButDomain

\* The rules of a service that answers certificate challenges precede all
\* others, for every set of deployments with names of their own and tcp
\* destinations that HAProxy never refuses.
THEOREM WellKnownComesFirst == ASSUME OwnNames, WholeStreams  PROVE Spec => []WellKnownFirst
<1>1. BaseInv /\ LayoutInv => WellKnownFirst
  <2> SUFFICES ASSUME BaseInv, LayoutInv,
                      NEW i \in DOMAIN running.http, NEW j \in DOMAIN running.http, i < j,
                      NEW r \in running.http[i], NEW t \in running.http[j],
                      HasPath(registry[t.svc], "wellKnown")
               PROVE  HasPath(registry[r.svc], "wellKnown")
    BY DEF WellKnownFirst
  <2>1. PICK s, u \in Service :
           /\ r.svc = s /\ t.svc = u
           /\ \E p, q : /\ Alike(p, registry[s]) /\ Alike(q, registry[u]) /\ ~Less(q, p)
    BY RunningOrder
  <2>2. PICK p, q : Alike(p, registry[s]) /\ Alike(q, registry[u]) /\ ~Less(q, p)
    BY <2>1
  <2>3. HasPath(q, "wellKnown")
    BY <2>1, <2>2, PathsAlike
  <2>4. HasPath(p, "wellKnown")
    BY <2>2, <2>3 DEF Less
  <2>5. QED  BY <2>1, <2>2, <2>4, PathsAlike
<1>2. QED  BY <1>1, LayoutInvariant, PTL

\* A rule that takes every request comes after the rules of all services without
\* the root path, unless its service has a well-known path too (RootApart): that
\* moves all the rules of the service to the front.
THEOREM CatchAllComesLast ==
  ASSUME OwnNames, WholeStreams, RootApart  PROVE Spec => []CatchAllLast
<1>1. BaseInv /\ LayoutInv => CatchAllLast
  <2> SUFFICES ASSUME BaseInv, LayoutInv,
                      NEW i \in DOMAIN running.http, NEW j \in DOMAIN running.http, i < j,
                      NEW r \in running.http[i], NEW t \in running.http[j],
                      "root" \in r.dest.path
               PROVE  HasPath(registry[t.svc], "root")
    BY DEF CatchAllLast
  <2>1. PICK s, u \in Service :
           /\ registry[s] # None
           /\ r.svc = s /\ t.svc = u
           /\ r.dest \in Dests(registry[s])
           /\ \E p, q : /\ Alike(p, registry[s]) /\ Alike(q, registry[u]) /\ ~Less(q, p)
    BY RunningOrder
  <2>2. PICK p, q : Alike(p, registry[s]) /\ Alike(q, registry[u]) /\ ~Less(q, p)
    BY <2>1
  <2>3. HasPath(registry[s], "root")
    BY <2>1 DEF HasPath, Dests
  <2>4. PICK a \in Asks(site) : Alike(a, registry[s])
    BY <2>1 DEF BaseInv, Keeps, Kin
  <2>5. ~HasPath(a, "wellKnown")
    BY <2>3, <2>4, PathsAlike DEF RootApart, BaseInv
  <2>6. HasPath(p, "root") /\ ~HasPath(p, "wellKnown")
    BY <2>2, <2>3, <2>4, <2>5, PathsAlike
  <2>7. HasPath(q, "root")
    <3>1. \A z, kind : HasPath(z, kind) \in BOOLEAN
      BY DEF HasPath
    <3>2. CASE HasPath(q, "wellKnown")
      BY <2>2, <2>6, <3>1, <3>2 DEF Less
    <3>3. CASE ~HasPath(q, "wellKnown") /\ ~HasPath(q, "root")
      BY <2>2, <2>6, <3>1, <3>3 DEF Less
    <3>4. QED  BY <3>2, <3>3
  <2>8. QED  BY <2>1, <2>2, <2>7, PathsAlike
<1>2. QED  BY <1>1, LayoutInvariant, PTL

--------------------------------------------------------------------------------
(* Where the rules lead *)

\* In a group there is a place that is met first.
LEMMA OpenerExists ==
  ASSUME NEW o, \A z \in Grouped(o) : z[1] \in Nat /\ z[2] \in Nat, NEW y \in Grouped(o)
  PROVE  \E z \in Openers(o) : At(o, z).group = At(o, y).group
<1> DEFINE Group  == {z \in Grouped(o) : At(o, z).group = At(o, y).group}
           firsts == {z[1] : z \in Group}
<1>1. PICK m \in firsts : \A k \in firsts : m <= k
  <2>1. firsts \in SUBSET Nat /\ firsts # {}
    OBVIOUS
  <2>2. QED  BY <2>1, LeastNat
<1> DEFINE seconds == {z[2] : z \in {x \in Group : x[1] = m}}
<1>2. PICK n \in seconds : \A k \in seconds : n <= k
  <2>1. seconds \in SUBSET Nat /\ seconds # {}
    BY <1>1
  <2>2. QED  BY <2>1, LeastNat
<1>3. PICK z \in Group : z[1] = m /\ z[2] = n
  BY <1>2
<1>4. ASSUME NEW x \in Group, Before(x, z)
      PROVE  FALSE
  <2>1. x[1] \in firsts /\ m <= x[1] /\ x[1] \in Nat /\ x[2] \in Nat /\ m \in Nat /\ n \in Nat
    BY <1>1, <1>3
  <2>2. x[1] = m /\ x[2] < n
    BY <1>3, <1>4, <2>1 DEF Before
  <2>3. x[2] \in seconds
    BY <2>2
  <2>4. n <= x[2]
    BY <1>2, <2>3
  <2>5. QED  BY <2>1, <2>2, <2>4
<1>5. z \in Openers(o)
  BY <1>3, <1>4 DEF Openers
<1>6. QED  BY <1>3, <1>5

\* What OwnSrcPorts says of the registered services.
LEMMA SharedPorts ==
  ASSUME OwnSrcPorts, NEW x \in Site, NEW reg, Keeps(reg, x),
         NEW s, NEW i, Placed(reg, s, i), NEW v, NEW j, Placed(reg, v, j),
         Fold(reg[s].dests[i].mode) = "tcp", Fold(reg[v].dests[j].mode) = "tcp"
  PROVE  LET d == reg[s].dests[i]
             e == reg[v].dests[j]
         IN  /\ /\ d.group = None /\ d.domain = <<>>
                /\ e.group = None /\ e.domain = <<>> /\ d.src = e.src
                => s = v /\ i = j
             /\ d.group # None /\ d.group = e.group => d.src = e.src
<1>1. PICK a \in Asks(x) : Alike(a, reg[s])
  BY DEF Keeps, Kin, Placed
<1>2. PICK b \in Asks(x) : Alike(b, reg[v]) /\ (s = v => b = a)
  BY <1>1 DEF Keeps, Kin, Placed
<1>3. a.svc = s /\ b.svc = v
  BY <1>1, <1>2 DEF Alike, Keeps, Placed
<1>4. i \in DOMAIN a.dests /\ SameButDomain(a.dests[i], reg[s].dests[i])
  BY <1>1 DEF Alike, Placed
<1>5. j \in DOMAIN b.dests /\ SameButDomain(b.dests[j], reg[v].dests[j])
  BY <1>2 DEF Alike, Placed
<1>6. LET d == a.dests[i]
          e == b.dests[j]
      IN  Fold(d.mode) = "tcp" /\ Fold(e.mode) = "tcp" =>
             /\ /\ d.group = None /\ d.domain = <<>>
                /\ e.group = None /\ e.domain = <<>> /\ d.src = e.src
                => a = b /\ i = j
             /\ d.group # None /\ d.group = e.group => d.src = e.src
  BY <1>2, <1>3, <1>4, <1>5 DEF OwnSrcPorts
<1>7. QED  BY <1>3, <1>4, <1>5, <1>6 DEF SameButDomain

\* A rule of its own for every tcp destination.
LEMMA TcpRouted ==
  ASSUME OwnSrcPorts, NEW x \in Site, NEW reg, Keeps(reg, x),
         NEW fl, NEW c \in Renders(reg, fl), NEW s, NEW i, Placed(reg, s, i),
         Fold(reg[s].dests[i].mode) = "tcp"
  PROVE  LET t == Trimmed(reg[s])
             d == t.dests[i]
         IN  \E r \in Rules(c) :
                /\ r.svc = t.svc /\ r.dest = d /\ r.bind = d.src
                /\ r.to = IF d.group # None THEN None ELSE PlainSection(t, d)
<1> DEFINE t == Trimmed(reg[s])
           d == t.dests[i]
           algo == AlgoOf(reg[s])
<1>1. PICK o, defaults :
         /\ o \in Orders(Registered(reg)) /\ defaults \in Defaults(o)
         /\ c.streams = StreamRules(o, defaults)
  BY DEF Renders
<1>2. reg[s] \in Kin(x) /\ s \in Service /\ reg[s] # None /\ i \in DOMAIN reg[s].dests
  BY DEF Keeps, Placed
<1>3. SameButDomain(reg[s].dests[i], d)
  BY <1>2, TrimmedIsKin DEF Alike
<1>4. PICK k \in DOMAIN o : /\ o[k] = reg[s] /\ At(o, <<k, i>>) = reg[s].dests[i]
                            /\ <<k, i>> \in Places(o, Fold(reg[s].dests[i].mode))
  BY <1>1, <1>2, PlaceFor
<1> DEFINE y == <<k, i>>
<1>5. y \in Places(o, "tcp")
  BY <1>4
<1>6. ServiceAt(o, y) = t /\ DestAt(o, y) = d /\ AlgoAt(o, y) = algo
  BY <1>4 DEF ServiceAt, DestAt, AlgoAt
<1>7. \A z \in Places(o, "tcp") : /\ z[1] \in DOMAIN o /\ z[1] \in Nat /\ z[2] \in Nat
                                  /\ z = <<z[1], z[2]>>
  <2> SUFFICES ASSUME NEW z \in Places(o, "tcp")
               PROVE  z[1] \in DOMAIN o /\ z[1] \in Nat /\ z[2] \in Nat /\ z = <<z[1], z[2]>>
    OBVIOUS
  <2>1. PICK m \in DOMAIN o : z \in {m} \X DOMAIN o[m].dests
    BY DEF Places
  <2>2. PICK v, j : Placed(reg, v, j) /\ z[2] = j
    BY <1>1, PlaceOf
  <2>3. reg[v] \in ServiceRecord /\ j \in DOMAIN reg[v].dests
    BY <2>2 DEF Placed, Keeps, Kin
  <2>4. j \in Nat
    BY <2>3, DestFields
  <2>5. DOMAIN o \in SUBSET Nat
    BY <1>1 DEF Orders
  <2>6. QED  BY <2>1, <2>2, <2>4, <2>5
<1>8. At(o, y).group = d.group /\ At(o, y).src = d.src /\ (At(o, y).domain = <<>> <=> d.domain = <<>>)
  BY <1>3, <1>4 DEF SameButDomain
<1> HIDE DEF y, t, d, algo
<1>9. CASE d.group # None
  <2>1. y \in Grouped(o)
    BY <1>5, <1>8, <1>9 DEF Grouped
  <2>2. PICK z \in Openers(o) : At(o, z).group = d.group
    BY <1>7, <1>8, <2>1, OpenerExists DEF Grouped
  <2>3. z \in Places(o, "tcp")
    BY DEF Openers, Grouped
  <2>4. PICK v, j : /\ Placed(reg, v, j) /\ o[z[1]] = reg[v] /\ z[2] = j
                    /\ At(o, z) = reg[v].dests[j] /\ Fold(reg[v].dests[j].mode) = "tcp"
    BY <1>1, <2>3, PlaceOf
  <2>5. reg[v].dests[j].src = reg[s].dests[i].src
    BY <1>3, <1>9, <2>2, <2>4, SharedPorts DEF SameButDomain
  <2>6. reg[v] \in Kin(x) /\ j \in DOMAIN reg[v].dests
    BY <2>4 DEF Keeps, Placed
  <2>7. DestAt(o, z).src = reg[v].dests[j].src
    <3>1. SameButDomain(reg[v].dests[j], Trimmed(reg[v]).dests[j])
      BY <2>6, TrimmedIsKin DEF Alike
    <3>2. QED  BY <2>4, <3>1 DEF SameButDomain, DestAt, ServiceAt
  <2> DEFINE r == Rule(t, d, "listen", DestAt(o, z).src, None, algo)
  <2>8. r \in StreamRules(o, defaults)
    BY <1>6, <1>8, <2>1, <2>2, StreamRulesAre
  <2>9. r.svc = t.svc /\ r.dest = d /\ r.to = None /\ r.bind = DestAt(o, z).src
    BY DEF Rule
  <2>10. DestAt(o, z).src = d.src
    BY <1>3, <2>5, <2>7 DEF SameButDomain
  <2>11. r \in Rules(c)
    BY <1>1, <2>8 DEF Rules
  <2> HIDE DEF r
  <2>12. QED  BY <1>9, <2>9, <2>10, <2>11 DEF t, d
<1>10. CASE d.group = None
  <2>1. y \in (Places(o, "tcp") \ (Grouped(o) \cup Open(o))) \cup defaults
    <3>1. CASE d.domain # <<>>
      BY <1>5, <1>8, <1>10, <3>1 DEF Grouped, Open
    <3>2. CASE d.domain = <<>>
      <4>1. y \in Open(o)
        BY <1>5, <1>8, <1>10, <3>2 DEF Open
      <4>2. PICK z \in defaults : z \in Open(o) /\ At(o, z).src = At(o, y).src
        BY <1>1, <4>1 DEF Defaults
      <4>3. z \in Places(o, "tcp") /\ At(o, z).group = None /\ At(o, z).domain = <<>>
        BY <4>2 DEF Open
      <4>4. PICK v, j : /\ Placed(reg, v, j) /\ o[z[1]] = reg[v] /\ z[2] = j
                        /\ At(o, z) = reg[v].dests[j] /\ Fold(reg[v].dests[j].mode) = "tcp"
        BY <1>1, <4>3, PlaceOf
      <4>5. reg[s].dests[i].group = None /\ reg[s].dests[i].domain = <<>>
            /\ reg[s].dests[i].src = reg[v].dests[j].src
        BY <1>3, <1>8, <1>10, <3>2, <4>2, <4>4 DEF SameButDomain
      <4>6. s = v /\ i = j
        BY <4>3, <4>4, <4>5, SharedPorts
      <4>7. z[1] = k
        <5>1. z[1] \in DOMAIN o /\ k \in DOMAIN o /\ o[z[1]] = o[k]
          BY <1>4, <1>7, <4>3, <4>4, <4>6
        <5>2. \A m, n \in DOMAIN o : m < n => o[m] # o[n]
          BY <1>1 DEF Orders
        <5>3. z[1] \in Nat /\ k \in Nat
          BY <1>1, <1>7, <4>3 DEF Orders
        <5>4. QED  BY <5>1, <5>2, <5>3
      <4>8. z = y
        BY <1>7, <4>3, <4>4, <4>6, <4>7 DEF y
      <4>9. QED  BY <4>2, <4>8
    <3>3. QED  BY <3>1, <3>2
  <2>2. TcpRule(t, d, algo) \in StreamRules(o, defaults)
    BY <1>6, <2>1, StreamRulesAre
  <2> DEFINE r == TcpRule(t, d, algo)
  <2>3. r.svc = t.svc /\ r.dest = d /\ r.to = PlainSection(t, d) /\ r.bind = d.src
    BY DEF TcpRule, Rule
  <2>4. r \in Rules(c)
    BY <1>1, <2>2 DEF Rules
  <2> HIDE DEF r
  <2>5. QED  BY <1>10, <2>3, <2>4 DEF t, d
<1>11. QED  BY <1>9, <1>10

\* Every port of a registered service is bound and leads to it, if the modes are
\* typed in lower case, sni is asked for without an aclName, and the tcp
\* destinations do not get into each other's way on a source port.
THEOREM EveryPortIsRouted ==
  ASSUME OwnNames, WholeStreams, PlainModes, SniByName, OwnSrcPorts
  PROVE  Spec => []EveryPortRouted
<1>1. BaseInv /\ LayoutInv => EveryPortRouted
  <2> SUFFICES ASSUME BaseInv, LayoutInv, NEW s \in Service, registry[s] # None,
                      NEW i \in DOMAIN registry[s].dests
               PROVE  LET d == registry[s].dests[i]
                          mode == Fold(d.mode)
                          Routed(section) ==
                              \E r \in Rules(running) :
                                  /\ r.svc = s /\ r.dest = d /\ r.to = section
                                  /\ r.bind = IF mode = "http" THEN None ELSE d.src
                      IN  /\ d.port # 0 =>
                                Routed(IF mode = "tcp" /\ d.group # None
                                       THEN None ELSE PlainSection(registry[s], d))
                          /\ d.https # 0 /\ mode = "http" => Routed(HttpsSection(registry[s], d))
    BY DEF EveryPortRouted
  <2> DEFINE t == registry[s]
             d == t.dests[i]
  <2>1. PICK reg, fl : /\ Keeps(reg, site) /\ registry = AfterRender(reg)
                       /\ running \in Renders(reg, fl)
    BY DEF LayoutInv, Current
  <2>2. reg[s] # None /\ t = Trimmed(reg[s]) /\ t.svc = s /\ t \in ServiceRecord
    BY <2>1, RenderKeeps DEF BaseInv, Keeps, Kin
  <2> DEFINE algo == AlgoOf(reg[s])
  <2>3. i \in DOMAIN reg[s].dests /\ SameButDomain(reg[s].dests[i], d)
    <3>1. reg[s] \in Kin(site)
      BY <2>1, <2>2 DEF Keeps
    <3>2. QED  BY <2>2, <3>1, TrimmedIsKin DEF Alike, BaseInv
  <2>4. PICK a \in Asks(site) : Alike(a, t)
    BY DEF BaseInv, Keeps, Kin
  <2>5. /\ d.mode \notin {"HTTP", "TCP"}
        /\ Fold(d.mode) = "sni" => t.acl = t.svc
    BY <2>4 DEF PlainModes, SniByName, Alike, SameButDomain, BaseInv
  <2>6. d \in DestRecord
    BY <2>2, DestFields
  <2>7. d.mode \in {"http", "tcp", "sni", "SNI"}
    BY <2>5, <2>6 DEF DestRecord, ModeText
  <2>8. /\ \A r : HttpRule(t, d, algo, r) => r \in Rules(running)
        /\ Fold(d.mode) = "sni" => SniRule(t, d, algo) \in Rules(running)
    BY <2>1, <2>2, <2>3, RulesThere DEF BaseInv
  <2>9. Fold(d.mode) = "tcp" =>
           \E r \in Rules(running) :
              /\ r.svc = t.svc /\ r.dest = d /\ r.bind = d.src
              /\ r.to = IF d.group # None THEN None ELSE PlainSection(t, d)
    BY <2>1, <2>2, <2>3, TcpRouted DEF BaseInv, SameButDomain, Placed
  <2> HIDE DEF t, d, algo
  <2>10. CASE d.mode = "http"
    <3>1. Fold(d.mode) = "http"
      BY <2>10, FoldedMode
    <3>2. /\ d.port # 0 => Rule(t, d, "http", None, PlainSection(t, d), algo) \in Rules(running)
          /\ d.https # 0 => Rule(t, d, "http", None, HttpsSection(t, d), algo) \in Rules(running)
      BY <2>8, <2>10 DEF HttpRule
    <3>3. \A to : LET r == Rule(t, d, "http", None, to, algo)
                  IN  r.svc = s /\ r.dest = d /\ r.to = to /\ r.bind = None
      BY <2>2 DEF Rule
    <3>4. QED  BY <3>1, <3>2, <3>3 DEF t, d
  <2>11. CASE d.mode = "tcp"
    <3>1. Fold(d.mode) = "tcp"
      BY <2>11, FoldedMode
    <3>2. QED  BY <2>2, <2>9, <3>1 DEF t, d
  <2>12. CASE d.mode \in {"sni", "SNI"}
    <3>1. Fold(d.mode) = "sni"
      BY <2>12, FoldedMode
    <3>2. SniRule(t, d, algo) \in Rules(running)
      BY <2>8, <3>1
    <3>3. LET r == SniRule(t, d, algo)
          IN  r.svc = s /\ r.dest = d /\ r.bind = d.src /\ r.to = PlainSection(t, d)
      BY <2>2, <2>5, <3>1 DEF SniRule, Rule, PlainSection
    <3>4. QED  BY <3>1, <3>2, <3>3 DEF t, d
  <2>13. QED  BY <2>7, <2>10, <2>11, <2>12 DEF t, d
<1>2. QED  BY <1>1, LayoutInvariant, PTL

--------------------------------------------------------------------------------
(* A complete request is never refused *)

\* A destination with all its mode asks for.
WholeDest(d) ==
    /\ Fold(d.mode) = "http" => d.path # {}
    /\ Fold(d.mode) # "http" => d.src # 0 /\ d.port # 0
    /\ Fold(d.mode) = "sni" => d.path # {} /\ d.group = None

\* The backend sections of a service with such destinations are all its rules need.
LEMMA WholeFits ==
  ASSUME NEW s \in ServiceRecord,
         \A i \in DOMAIN s.dests : /\ WholeDest(s.dests[i])
                                   /\ s.dests[i].mode \notin {"HTTP", "TCP"}
                                   /\ Fold(s.dests[i].mode) = "sni" => s.acl = s.svc
  PROVE  Supported(s, {b.section : b \in Backends(s)})
<1> DEFINE sections == {b.section : b \in Backends(s)}
<1> SUFFICES ASSUME NEW i \in DOMAIN s.dests
             PROVE  LET d == s.dests[i]
                    IN  /\ d.mode = "http" /\ d.port # 0 => PlainSection(s, d) \in sections /\ d.path # {}
                        /\ d.mode = "http" /\ d.https # 0 => HttpsSection(s, d) \in sections /\ d.path # {}
                        /\ Fold(d.mode) = "sni" =>
                              /\ Section(s.svc, d.port, d.index, FALSE) \in sections
                              /\ d.path # {} /\ d.src # 0
                        /\ Fold(d.mode) = "tcp" =>
                              d.src # 0 /\ (d.group = None => PlainSection(s, d) \in sections)
  BY DEF Supported, Sound, Streamable
<1> DEFINE d == s.dests[i]
           ReqModeFormatted(e) == IF Fold(e.mode) = "sni" THEN "tcp" ELSE e.mode
           Plain(e) == /\ e.port # 0
                       /\ \/ ReqModeFormatted(e) = "http"
                          \/ ReqModeFormatted(e) = "tcp" /\ e.group = None
<1>1. d \in DestRecord
  BY DestFields
<1>2. d.mode \in {"http", "tcp", "sni", "SNI"}
  BY <1>1 DEF DestRecord, ModeText
<1>3. /\ Fold(d.mode) = "http" <=> d.mode = "http"
      /\ Fold(d.mode) = "tcp" <=> d.mode = "tcp"
      /\ Fold(d.mode) = "sni" <=> d.mode \in {"sni", "SNI"}
  BY <1>2, FoldedMode
<1>4. Plain(d) => PlainSection(s, d) \in sections
  <2> SUFFICES ASSUME Plain(d)  PROVE PlainSection(s, d) \in sections
    OBVIOUS
  <2>1. Written(i, PlainSection(s, d)) \in Backends(s)
    BY DEF Backends
  <2>2. QED  BY <2>1 DEF Written
<1>5. d.https > 0 => HttpsSection(s, d) \in sections
  <2> SUFFICES ASSUME d.https > 0  PROVE HttpsSection(s, d) \in sections
    OBVIOUS
  <2>1. Written(i, HttpsSection(s, d)) \in Backends(s)
    BY DEF Backends
  <2>2. QED  BY <2>1 DEF Written
<1>6. WholeDest(d) /\ (Fold(d.mode) = "sni" => s.acl = s.svc)
  OBVIOUS
<1> HIDE DEF d, sections
<1>7. CASE Fold(d.mode) = "http"
  <2>1. d.path # {}
    BY <1>6, <1>7 DEF WholeDest
  <2>2. d.https # 0 => d.https > 0
    BY <1>1 DEF DestRecord
  <2>3. QED  BY <1>3, <1>4, <1>5, <1>7, <2>1, <2>2 DEF d, sections
<1>8. CASE Fold(d.mode) = "tcp"
  <2>1. d.port # 0 /\ d.src # 0
    BY <1>6, <1>8 DEF WholeDest
  <2>2. QED  BY <1>3, <1>4, <1>8, <2>1 DEF d, sections
<1>9. CASE Fold(d.mode) = "sni"
  <2>1. d.port # 0 /\ d.src # 0 /\ d.path # {} /\ d.group = None
    BY <1>6, <1>9 DEF WholeDest
  <2>2. PlainSection(s, d) \in sections
    BY <1>4, <1>9, <2>1
  <2>3. PlainSection(s, d) = Section(s.svc, d.port, d.index, FALSE)
    BY <1>6, <1>9 DEF PlainSection
  <2>4. QED  BY <1>3, <1>9, <2>1, <2>2, <2>3 DEF d, sections
<1>10. QED  BY <1>2, <1>3, <1>7, <1>8, <1>9

\* Its sections are told apart by the index, or by the port when there is no https.
LEMMA DistinctSections ==
  ASSUME NEW s \in ServiceRecord,
         \A i, j \in DOMAIN s.dests : i # j =>
            \/ s.dests[i].index # s.dests[j].index
            \/ /\ s.dests[i].port # s.dests[j].port
               /\ s.dests[i].https = 0 \/ s.dests[j].https = 0,
         NEW b \in Backends(s), NEW c \in Backends(s), b.section = c.section
  PROVE  b = c
<1>1. PICK i \in DOMAIN s.dests :
         \/ b = Written(i, PlainSection(s, s.dests[i]))
         \/ b = Written(i, HttpsSection(s, s.dests[i])) /\ s.dests[i].https > 0
  BY DEF Backends
<1>2. PICK j \in DOMAIN s.dests :
         \/ c = Written(j, PlainSection(s, s.dests[j]))
         \/ c = Written(j, HttpsSection(s, s.dests[j])) /\ s.dests[j].https > 0
  BY DEF Backends
<1> DEFINE d == s.dests[i]
           e == s.dests[j]
<1>3. /\ b.at = i /\ b.section.index = d.index
      /\ \/ b = Written(i, PlainSection(s, d)) /\ b.section.https = FALSE /\ b.section.port = d.port
         \/ b = Written(i, HttpsSection(s, d)) /\ b.section.https = TRUE /\ d.https > 0
  BY <1>1 DEF Written, PlainSection, HttpsSection, Section
<1>4. /\ c.at = j /\ c.section.index = e.index
      /\ \/ c = Written(j, PlainSection(s, e)) /\ c.section.https = FALSE /\ c.section.port = e.port
         \/ c = Written(j, HttpsSection(s, e)) /\ c.section.https = TRUE /\ e.https > 0
  BY <1>2 DEF Written, PlainSection, HttpsSection, Section
<1>5. d \in DestRecord /\ e \in DestRecord
  BY DestFields
<1>6. i = j
  <2> SUFFICES ASSUME i # j  PROVE FALSE
    OBVIOUS
  <2>1. d.index = e.index
    BY <1>3, <1>4
  <2>2. d.port # e.port /\ (d.https = 0 \/ e.https = 0)
    BY <2>1
  <2> HIDE DEF d, e
  <2>3. QED  BY <1>3, <1>4, <1>5, <2>2 DEF DestRecord
<1>7. QED  BY <1>3, <1>4, <1>6

LEMMA LastIndexType ==
  ASSUME NEW params
  PROVE  /\ LastIndex(params) \in 0..MaxIndex
         /\ \A i \in 1..LastIndex(params) : Given(params, i)
         /\ LastIndex(params) + 1 \notin {i \in 1..MaxIndex : Given(params, i)}
<1> DEFINE given == {i \in 1..MaxIndex : Given(params, i)}
<1>1. given \in SUBSET (1..MaxIndex)
  OBVIOUS
<1>2. QED  BY <1>1, FirstGap DEF LastIndex

\* The destinations of a request, and their number.
LEMMA DestListIs ==
  ASSUME NEW params \in [0..MaxIndex -> DestParams]
  PROVE  LET n == LastIndex(params)
             list == DestList(params)
         IN  /\ n > 0 => /\ DOMAIN list = 1..n /\ Len(list) = n
                         /\ \A i \in 1..n : list[i] = WithPath(Dest(params, i))
             /\ n = 0 => /\ DOMAIN list = {1} /\ Len(list) = 1
                         /\ list[1] = WithPath(Dest(params, 0))
<1> DEFINE n == LastIndex(params)
           list == DestList(params)
<1>1. list \in Seq(DestRecord) /\ n \in Nat
  BY DestListType, LastIndexType, IndexBound
<1> HIDE DEF n
<1>2. CASE n > 0
  <2>1. list = [i \in 1..n |-> WithPath(Dest(params, i))]
    BY <1>2 DEF DestList, n
  <2> HIDE DEF list
  <2>2. DOMAIN list = 1..n /\ \A i \in 1..n : list[i] = WithPath(Dest(params, i))
    BY <2>1
  <2>3. Len(list) = n
    BY <1>1, <2>2, LenProperties
  <2>4. QED  BY <1>2, <2>2, <2>3 DEF n, list
<1>3. CASE n = 0
  <2>1. list = <<WithPath(Dest(params, 0))>>
    BY <1>3 DEF DestList, n
  <2>2. QED  BY <1>3, <2>1 DEF n
<1>4. QED  BY <1>1, <1>2, <1>3 DEF n

LEMMA StatedMode ==
  ASSUME NEW params \in [0..MaxIndex -> DestParams], NEW i \in 0..MaxIndex
  PROVE  LET mode == Stated(params, i, "mode")
         IN  /\ mode \in ModeText \cup {None}
             /\ mode # None => Fold(mode) \in {"http", "tcp", "sni"}
<1>1. params[i] \in DestParams /\ params[0] \in DestParams
  BY RoutingAssumption
<1>2. Stated(params, i, "mode") \in ModeText \cup {None}
  BY <1>1 DEF Stated, DestParams, Nothing
<1>3. QED  BY <1>2, FoldedMode DEF ModeText

LEMMA QueryDestWhole ==
  ASSUME NEW params \in [0..MaxIndex -> DestParams], NEW i \in 0..MaxIndex, CompleteDest(params, i)
  PROVE  WholeDest(WithPath(Dest(params, i)))
<1> DEFINE Of(f) == Stated(params, i, f)
           d == Dest(params, i)
           e == WithPath(d)
<1>1. /\ d.path = Of("path") /\ d.domain = Of("domain") /\ d.port = Of("port")
      /\ d.https = Of("https") /\ d.src = Of("src") /\ d.group = Of("group")
      /\ d.mode = IF Of("mode") = None THEN "http" ELSE Of("mode")
      /\ d \in DestRecord
  <2>1. d \in DestRecord
    <3>1. params[i] \in DestParams /\ params[0] \in DestParams
      BY RoutingAssumption
    <3>2. QED  BY <3>1 DEF Dest, Stated, DestRecord, DestParams, Nothing, ModeText
  <2>2. QED  BY <2>1 DEF Dest
<1>2. /\ e.mode = d.mode /\ e.src = d.src /\ e.port = d.port /\ e.group = d.group
      /\ d.path # {} \/ d.domain # <<>> => e.path # {}
  BY <1>1 DEF WithPath, DestRecord
<1>3. LET mode == IF Of("mode") = None THEN "http" ELSE Fold(Of("mode"))
      IN  Fold(d.mode) = mode /\ mode \in {"http", "tcp", "sni"}
  BY <1>1, StatedMode, FoldedMode
<1> HIDE DEF d, e
<1>4. /\ Fold(d.mode) = "http" => d.path # {} \/ d.domain # <<>>
      /\ Fold(d.mode) # "http" => d.src # 0 /\ d.port # 0
      /\ Fold(d.mode) = "sni" => (d.path # {} \/ d.domain # <<>>) /\ d.group = None
  BY <1>1, <1>3 DEF CompleteDest
<1>5. QED  BY <1>2, <1>4 DEF WholeDest, e, d

\* The destinations that the parser of the environment makes of plain parameters.
LEMMA EnvDestListIs ==
  ASSUME NEW params \in [0..MaxIndex -> DestParams], NEW protocol \in ModeText,
         PlainParams(params, protocol)
  PROVE  LET n == LastIndex(params)
             list == EnvDestList(params, protocol)
         IN  /\ n > 0 => list = [i \in 1..n |-> EnvDest(params, i, protocol)]
             /\ n = 0 /\ (params[0].path # {} \/ params[0].port # 0) =>
                   list = <<EnvDest(params, 0, protocol)>>
<1> DEFINE n    == LastIndex(params)
           both == {i \in 1..MaxIndex : params[i].path # {} /\ params[i].port # 0}
           m    == BeforeGap(both)
           e    == EnvDest(params, 0, protocol)
           first == IF params[0].path # {} \/ params[0].port # 0 THEN <<e>> ELSE <<>>
           rest  == [i \in 1..m |-> EnvDest(params, i, protocol)]
<1>1. EnvDestList(params, protocol) = first \o rest
  BY DEF EnvDestList
<1>2. n \in Nat /\ (n = 0 => 1 \notin {i \in 1..MaxIndex : Given(params, i)})
  BY LastIndexType, IndexBound
<1>3. m \in 0..MaxIndex /\ 1..m \subseteq both
  <2>1. both \in SUBSET (1..MaxIndex)
    OBVIOUS
  <2>2. QED  BY <2>1, FirstGap
<1>4. both \subseteq {i \in 1..MaxIndex : Given(params, i)}
  BY DEF Given
<1>5. CASE n > 0
  <2>1. /\ params[0] = Nothing
        /\ \A i \in 1..MaxIndex : Given(params, i) => params[i].path # {} /\ params[i].port # 0
    BY <1>2, <1>5 DEF PlainParams
  <2>2. both = {i \in 1..MaxIndex : Given(params, i)}
    BY <1>4, <2>1
  <2>3. m = n
    BY <2>2 DEF LastIndex
  <2>4. first = <<>>
    BY <2>1 DEF Nothing
  <2>5. rest \in Seq({EnvDest(params, i, protocol) : i \in 1..m})
    <3>1. rest \in [1..m -> {EnvDest(params, i, protocol) : i \in 1..m}] /\ m \in Nat
      BY <1>3, IndexBound
    <3>2. QED  BY <3>1, SeqDef
  <2>6. first \o rest = rest
    <3> DEFINE T == {EnvDest(params, i, protocol) : i \in 1..m}
    <3> HIDE DEF T, rest, first
    <3>1. rest \in Seq(T)
      BY <2>5 DEF T
    <3>2. <<>> \o rest = rest
      BY <3>1, ConcatEmptySeq
    <3>3. QED  BY <2>4, <3>2
  <2>7. rest = [i \in 1..n |-> EnvDest(params, i, protocol)]
    BY <2>3
  <2> HIDE DEF rest, first
  <2>8. EnvDestList(params, protocol) = [i \in 1..n |-> EnvDest(params, i, protocol)]
    BY <1>1, <2>6, <2>7
  <2> HIDE DEF n
  <2>9. ~(n = 0)
    BY <1>2, <1>5
  <2>10. QED  BY <2>8, <2>9 DEF n
<1>6. CASE n = 0
  <2>1. m = 0
    <3>1. 1 \notin both
      BY <1>2, <1>4, <1>6
    <3>2. m > 0 => 1 \in 1..m
      BY <1>3, IndexBound
    <3>3. QED  BY <1>3, <3>1, <3>2, IndexBound
  <2>2. rest = <<>>
    <3>1. rest = [i \in 1..0 |-> EnvDest(params, i, protocol)]
      BY <2>1
    <3>2. 1..0 = {}
      OBVIOUS
    <3> HIDE DEF rest
    <3>3. rest \in [{} -> {e}]
      BY <3>1, <3>2
    <3>4. rest \in [1..0 -> {e}]
      BY <3>2, <3>3
    <3>5. rest \in Seq({e})
      BY <3>4, SeqDef
    <3>6. Len(rest) \in Nat /\ DOMAIN rest = 1..Len(rest)
      BY <3>5, LenProperties
    <3>7. ~(Len(rest) \in Nat \ {0})
      <4>1. DOMAIN rest = {}
        BY <3>3
      <4>2. \A k \in Nat \ {0} : 1 \in 1..k
        OBVIOUS
      <4>3. QED  BY <3>6, <4>1, <4>2
    <3>8. QED  BY <3>5, <3>7, EmptySeq
  <2> SUFFICES ASSUME params[0].path # {} \/ params[0].port # 0
               PROVE  EnvDestList(params, protocol) = <<e>>
    BY <1>6
  <2>3. first = <<e>>
    OBVIOUS
  <2> HIDE DEF e, first, rest
  <2>4. <<e>> \o <<>> = <<e>>
    <3>1. <<e>> \in Seq({e})
      OBVIOUS
    <3>2. QED  BY <3>1, ConcatEmptySeq
  <2>5. QED  BY <1>1, <2>2, <2>3, <2>4
<1>7. QED  BY <1>2, <1>5, <1>6

LEMMA EnvironmentDests ==
  ASSUME NEW q \in RequestRecord, NEW protocol \in ModeText, Complete(q),
         PlainParams(q.params, protocol)
  PROVE  LET list == EnvDestList(q.params, protocol)
         IN  /\ Len(list) = Len(DestList(q.params))
             /\ \A i \in DOMAIN list : WholeDest(list[i])
             /\ \A i, j \in DOMAIN list : i # j =>
                   list[i].port # list[j].port /\ list[i].https = 0
<1> DEFINE params == q.params
           n    == LastIndex(params)
           list == EnvDestList(params, protocol)
<1>1. params \in [0..MaxIndex -> DestParams]
  BY DEF RequestRecord
<1>2. n \in 0..MaxIndex /\ \A i \in 1..n : Given(params, i)
  BY LastIndexType
<1>3. list \in Seq(DestRecord)
  BY <1>1, EnvDestListType
<1>4. CASE n > 0
  <2>1. list = [i \in 1..n |-> EnvDest(params, i, protocol)]
    BY <1>1, <1>4, EnvDestListIs
  <2>2. DOMAIN list = 1..n /\ Len(list) = n
    <3> HIDE DEF list
    <3>1. DOMAIN list = 1..n
      BY <2>1
    <3>2. QED  BY <1>2, <1>3, <3>1, LenProperties, IndexBound
  <2>3. /\ params[0] = Nothing
        /\ \A i \in 1..MaxIndex : Given(params, i) =>
              /\ params[i].path # {} /\ params[i].port # 0
              /\ \A j \in 1..MaxIndex : params[i].port = params[j].port => i = j
    BY <1>2, <1>4, IndexBound DEF PlainParams
  <2>4. ASSUME NEW i \in 1..n
        PROVE  /\ WholeDest(list[i]) /\ list[i].https = 0
               /\ list[i].port = params[i].port
    <3> DEFINE d == EnvDest(params, i, protocol)
               mode == params[i].mode
    <3>1. i \in 1..MaxIndex /\ i # 0 /\ Given(params, i)
      BY <1>2, IndexBound
    <3>2. CompleteDest(params, i)
      BY <1>2, <1>4 DEF Complete
    <3>3. params[i] \in DestParams
      BY <1>1, <3>1, IndexBound
    <3>4. /\ d.https = 0 /\ d.port = params[i].port /\ d.src = params[i].src /\ d.group = None
          /\ d.path = params[i].path
          /\ d.mode = IF mode # None THEN mode ELSE "http"
      BY <3>1 DEF EnvDest
    <3>5. /\ Stated(params, i, "mode") = mode /\ Stated(params, i, "src") = params[i].src
      BY <2>3 DEF Stated
    <3>6. d.path # {} /\ d.port # 0
      BY <2>3, <3>1, <3>4
    <3>7. Fold(d.mode) = (IF mode = None THEN "http" ELSE Fold(mode))
          /\ Fold(d.mode) \in {"http", "tcp", "sni"}
      BY <3>3, <3>4, FoldedMode DEF DestParams, ModeText
    <3> HIDE DEF d, mode
    <3>8. Fold(d.mode) # "http" => params[i].src # 0
      BY <3>2, <3>5, <3>7 DEF CompleteDest
    <3>9. WholeDest(d)
      BY <3>4, <3>6, <3>8 DEF WholeDest
    <3>10. QED  BY <2>1, <3>4, <3>9 DEF d
  <2>5. \A i, j \in 1..n : i # j => params[i].port # params[j].port
    BY <1>2, <2>3, IndexBound
  <2>6. Len(DestList(params)) = n
    BY <1>1, <1>4, DestListIs
  <2> HIDE DEF list, n
  <2>7. QED  BY <2>2, <2>4, <2>5, <2>6 DEF list
<1>5. CASE n = 0
  <2>1. /\ params[0].domain # <<>> => params[0].path # {}
        /\ params[0].mode = None => protocol = "http"
    BY <1>5 DEF PlainParams
  <2>2. CompleteDest(params, 0)
    BY <1>5 DEF Complete
  <2>3. params[0] \in DestParams
    BY <1>1, IndexBound
  <2>4. \A f : Stated(params, 0, f) = params[0][f]
    BY DEF Stated
  <2> DEFINE d == EnvDest(params, 0, protocol)
             mode == params[0].mode
  <2>5. /\ d.https = params[0].https /\ d.port = params[0].port /\ d.src = params[0].src
        /\ d.group = None /\ d.path = params[0].path
        /\ d.mode = IF mode # None THEN mode ELSE "http"
    BY <2>1 DEF EnvDest
  <2>6. Fold(d.mode) = (IF mode = None THEN "http" ELSE Fold(mode))
        /\ Fold(d.mode) \in {"http", "tcp", "sni"}
    BY <2>3, <2>5, FoldedMode DEF DestParams, ModeText
  <2>7. Stated(params, 0, "mode") = mode
        /\ Stated(params, 0, "src") = params[0].src /\ Stated(params, 0, "port") = params[0].port
        /\ Stated(params, 0, "path") = params[0].path
        /\ Stated(params, 0, "domain") = params[0].domain
    BY <2>4
  <2> HIDE DEF d, mode
  <2>8. /\ Fold(d.mode) = "http" => params[0].path # {}
        /\ Fold(d.mode) # "http" => params[0].src # 0 /\ params[0].port # 0
        /\ Fold(d.mode) = "sni" => params[0].path # {}
    BY <2>1, <2>2, <2>6, <2>7 DEF CompleteDest
  <2>9. WholeDest(d)
    BY <2>5, <2>8 DEF WholeDest
  <2>10. params[0].path # {} \/ params[0].port # 0
    BY <2>8
  <2>11. list = <<d>>
    BY <1>1, <1>5, <2>10, EnvDestListIs DEF d
  <2>12. Len(DestList(params)) = 1
    BY <1>1, <1>5, DestListIs
  <2>13. DOMAIN list = {1} /\ Len(list) = 1 /\ list[1] = d
    BY <2>11
  <2> HIDE DEF list
  <2>14. QED  BY <2>9, <2>12, <2>13 DEF list
<1>6. QED  BY <1>2, <1>4, <1>5, IndexBound

LEMMA SourcedWhole ==
  ASSUME NEW d \in DestRecord
  PROVE  /\ WholeDest(d) => WholeDest(Sourced(d))
         /\ Sourced(d).port = d.port /\ Sourced(d).https = d.https /\ Sourced(d).index = d.index
  BY DEF Sourced, WholeDest, DestRecord

\* The backend file of s holds what its rules need, nothing twice.
Whole(s) ==
    /\ Supported(s, {b.section : b \in Backends(s)})
    /\ \A b, c \in Backends(s) : b.section = c.section => b = c

LEMMA QueryWhole ==
  ASSUME PlainModes, SniByName, NEW x \in Site, NEW q \in Deployment[x].requests
  PROVE  LET s == FromQuery(q, Deployment[x].users, Deployment[x].encrypted)
         IN  /\ Complete(q) => Whole(s)
             /\ Len(s.dests) = Len(DestList(q.params))
<1> DEFINE s == FromQuery(q, Deployment[x].users, Deployment[x].encrypted)
           params == q.params
           list == DestList(params)
           n == LastIndex(params)
<1>1. /\ s \in ServiceRecord /\ s \in Asks(x) /\ DOMAIN s.dests = DOMAIN list
      /\ \A i \in DOMAIN s.dests : s.dests[i] = Sourced(list[i])
  BY QueryService DEF Asks
<1>2. params \in [0..MaxIndex -> DestParams]
  BY SiteFields, RequestFields DEF RequestRecord
<1>3. n \in 0..MaxIndex
  BY LastIndexType
<1>4. /\ n > 0 => DOMAIN list = 1..n /\ \A i \in 1..n : list[i] = WithPath(Dest(params, i))
      /\ n = 0 => DOMAIN list = {1} /\ list[1] = WithPath(Dest(params, 0))
  BY <1>2, DestListIs
<1>5. list \in Seq(DestRecord)
  BY <1>2, DestListType
<1>6. \A i, j \in DOMAIN list : i # j => list[i].index # list[j].index
  <2>1. \A k : WithPath(Dest(params, k)).index = k
    BY DEF WithPath, Dest
  <2> HIDE DEF list, n
  <2>2. QED  BY <1>3, <1>4, <2>1, IndexBound
<1>7. \A i \in DOMAIN list : list[i] \in DestRecord
  BY <1>5, LenProperties
<1>8. Len(s.dests) = Len(list)
  <2>1. s.dests \in Seq(DestRecord)
    BY <1>1 DEF ServiceRecord
  <2> HIDE DEF s, list
  <2>2. QED  BY <1>1, <1>5, <2>1, LenProperties
<1> HIDE DEF s
<1>9. ASSUME Complete(q)  PROVE Whole(s)
  <2>1. ASSUME NEW i \in DOMAIN list
        PROVE  WholeDest(list[i])
    <3>1. CASE n > 0
      <4>1. i \in 1..n /\ list[i] = WithPath(Dest(params, i)) /\ i \in 0..MaxIndex
        BY <1>3, <1>4, <3>1, IndexBound
      <4>2. CompleteDest(params, i)
        BY <1>9, <3>1, <4>1 DEF Complete
      <4>3. QED  BY <1>2, <4>1, <4>2, QueryDestWhole
    <3>2. CASE n = 0
      <4>1. list[i] = WithPath(Dest(params, 0))
        BY <1>4, <3>2
      <4>2. CompleteDest(params, 0)
        BY <1>9, <3>2 DEF Complete
      <4>3. 0 \in 0..MaxIndex
        BY IndexBound
      <4>4. QED  BY <1>2, <4>1, <4>2, <4>3, QueryDestWhole
    <3>3. QED  BY <1>3, <3>1, <3>2, IndexBound
  <2> HIDE DEF list
  <2>2. \A i \in DOMAIN s.dests : WholeDest(s.dests[i]) /\ s.dests[i].index = list[i].index
    BY <1>1, <1>7, <2>1, SourcedWhole
  <2>3. \A i \in DOMAIN s.dests : /\ s.dests[i].mode \notin {"HTTP", "TCP"}
                                  /\ Fold(s.dests[i].mode) = "sni" => s.acl = s.svc
    BY <1>1 DEF PlainModes, SniByName
  <2>4. Supported(s, {b.section : b \in Backends(s)})
    BY <1>1, <2>2, <2>3, WholeFits
  <2>5. \A i, j \in DOMAIN s.dests : i # j => s.dests[i].index # s.dests[j].index
    BY <1>1, <1>6, <2>2
  <2>6. \A b, c \in Backends(s) : b.section = c.section => b = c
    BY <1>1, <2>5, DistinctSections
  <2>7. QED  BY <2>4, <2>6 DEF Whole
<1>10. QED  BY <1>8, <1>9 DEF s

LEMMA EnvironmentWhole ==
  ASSUME PlainModes, SniByName, PlainEnvironment, NEW x \in Site, NEW q \in Entries(x), Complete(q)
  PROVE  LET s == FromEnvironment(q, Deployment[x].protocol)
         IN  /\ Whole(s)
             /\ Len(s.dests) = Len(DestList(q.params))
<1> DEFINE protocol == Deployment[x].protocol
           s == FromEnvironment(q, protocol)
           list == EnvDestList(q.params, protocol)
<1>1. s \in ServiceRecord /\ s \in Asks(x) /\ q \in Request
  BY EnvironmentService DEF Asks
<1>2. q \in RequestRecord /\ q.params \in [0..MaxIndex -> DestParams] /\ protocol \in ModeText
  BY <1>1, RequestFields, SiteFields DEF RequestRecord
<1>3. list \in Seq(DestRecord)
  BY <1>2, EnvDestListType
<1>4. DOMAIN s.dests = DOMAIN list /\ \A i \in DOMAIN s.dests : s.dests[i] = Sourced(list[i])
  BY DEF FromEnvironment, Formatted
<1>5. PlainParams(q.params, protocol)
  BY DEF PlainEnvironment
<1>6. /\ Len(list) = Len(DestList(q.params))
      /\ \A i \in DOMAIN list : WholeDest(list[i])
      /\ \A i, j \in DOMAIN list : i # j => list[i].port # list[j].port /\ list[i].https = 0
  BY <1>2, <1>5, EnvironmentDests
<1>7. Len(s.dests) = Len(list)
  <2>1. s.dests \in Seq(DestRecord)
    BY <1>1 DEF ServiceRecord
  <2> HIDE DEF s, list
  <2>2. QED  BY <1>3, <1>4, <2>1, LenProperties
<1>8. \A i \in DOMAIN list : list[i] \in DestRecord
  BY <1>3, LenProperties
<1> HIDE DEF s, list
<1>9. \A i \in DOMAIN s.dests : /\ WholeDest(s.dests[i])
                                /\ s.dests[i].port = list[i].port /\ s.dests[i].https = list[i].https
  BY <1>4, <1>6, <1>8, SourcedWhole
<1>10. \A i \in DOMAIN s.dests : /\ s.dests[i].mode \notin {"HTTP", "TCP"}
                                 /\ Fold(s.dests[i].mode) = "sni" => s.acl = s.svc
  BY <1>1 DEF PlainModes, SniByName
<1>11. Supported(s, {b.section : b \in Backends(s)})
  BY <1>1, <1>9, <1>10, WholeFits
<1>12. \A i, j \in DOMAIN s.dests : i # j =>
          s.dests[i].port # s.dests[j].port /\ (s.dests[i].https = 0 \/ s.dests[j].https = 0)
  BY <1>4, <1>6, <1>9
<1>13. \A b, c \in Backends(s) : b.section = c.section => b = c
  BY <1>1, <1>12, DistinctSections
<1>14. QED  BY <1>6, <1>7, <1>11, <1>13 DEF Whole, s

LEMMA WholeIsAccepted ==
  ASSUME OwnNames, BaseInv, LayoutInv, NEW s \in Kin(site), Whole(s), NEW q,
         Execute(s, q)
  PROVE  last'.answer = "ok"
<1> DEFINE reg1 == [registry EXCEPT ![s.svc] = s]
           fl1  == [files EXCEPT ![s.acl] = Backends(s)]
<1>1. Keeps(reg1, site) /\ s.acl \in Acl /\ s.svc \in Service /\ s \in ServiceRecord
  BY PutKeeps DEF BaseInv
<1>2. \A a \in Acl : fl1[a] = IF a = s.acl THEN Backends(s) ELSE files[a]
  BY DEF BaseInv
<1> HIDE DEF fl1
<1>3. \A a \in Acl : \A b, d \in fl1[a] : b.section = d.section => b = d
  BY <1>2 DEF Whole, LayoutInv, Tidy
<1>4. {b.section : b \in Backends(s)} \subseteq Sections(fl1)
  <2>1. fl1[s.acl] = Backends(s)
    BY <1>1, <1>2
  <2>2. QED  BY <1>1, <2>1 DEF Sections
<1>5. Supported(s, Sections(fl1))
  BY <1>4, SupportedIn DEF Whole
<1>6. AllSupported(reg1, fl1)
  BY <1>5, PutSupported DEF fl1
<1> HIDE DEF reg1
<1>7. \A c \in Renders(reg1, fl1) : Accepts(c)
  BY <1>1, <1>3, <1>6, AcceptedIf DEF BaseInv
<1>8. PICK c \in Renders(reg1, fl1) : last'.answer = "ok" \/ ~Accepts(c)
  BY DEF Execute, reg1, fl1
<1>9. QED  BY <1>7, <1>8

\* A service with the parameters its modes ask for, of a request or of the
\* environment, is never refused by HAProxy, whatever was registered before it and
\* in whatever order, and none of its destinations is dropped.  Of the environment
\* that is true only of the parameters that its own parser understands as the
\* documentation describes them: a domain with a path, an index with path and
\* port, nothing inherited, and no port twice (PlainEnvironment).
THEOREM CompleteIsAlwaysServed ==
  ASSUME OwnNames, WholeStreams, PlainModes, SniByName, PlainEnvironment
  PROVE  Spec => []CompleteIsServed
<1>1. Init => CompleteIsServed
  BY DEF Init, CompleteIsServed, Unasked
<1>2. BaseInv /\ LayoutInv /\ CompleteIsServed /\ [Next]_vars => CompleteIsServed'
  <2> SUFFICES ASSUME BaseInv, LayoutInv, CompleteIsServed, [Next]_vars
               PROVE  CompleteIsServed'
    OBVIOUS
  <2>1. ASSUME NEW s, NEW q, Execute(s, q), s \in Kin(site),
               Complete(q) => Whole(s) /\ Len(s.dests) = Len(DestList(q.params)),
               DestList(q.params) \in Seq(DestRecord)
        PROVE  CompleteIsServed'
    <3>1. last'.complete = Complete(q) /\ last'.kept = (Len(s.dests) >= Len(DestList(q.params)))
      BY <2>1 DEF Execute
    <3>2. CASE Complete(q)
      <4>1. last'.answer = "ok"
        BY <2>1, <3>2, WholeIsAccepted
      <4>2. Len(DestList(q.params)) \in Nat
        BY <2>1, LenProperties
      <4>3. Len(s.dests) >= Len(DestList(q.params))
        BY <2>1, <3>2, <4>2
      <4>4. QED  BY <3>1, <4>1, <4>3 DEF CompleteIsServed
    <3>3. CASE ~Complete(q)
      BY <3>1, <3>3 DEF CompleteIsServed
    <3>4. QED  BY <3>2, <3>3
  <2>2. CASE Startup
    <3> DEFINE q == Head(pending)
               s == FromEnvironment(q, Deployment[site].protocol)
    <3>1. q \in Entries(site)
      BY <2>2, HeadTailProperties DEF Startup, BaseInv
    <3>2. s \in Kin(site)
      BY <3>1, AsksAreKin DEF Asks, BaseInv
    <3>3. Complete(q) => Whole(s) /\ Len(s.dests) = Len(DestList(q.params))
      BY <3>1, EnvironmentWhole DEF BaseInv
    <3>4. DestList(q.params) \in Seq(DestRecord)
      <4>1. q \in Request
        BY <3>1, EnvironmentService DEF BaseInv
      <4>2. q.params \in [0..MaxIndex -> DestParams]
        BY <4>1, RequestFields DEF RequestRecord
      <4>3. QED  BY <4>2, DestListType
    <3>5. Execute(s, q)
      BY <2>2 DEF Startup
    <3> HIDE DEF s, q
    <3>6. QED  BY <2>1, <3>2, <3>3, <3>4, <3>5
  <2>3. ASSUME NEW q \in Deployment[site].requests, Reconfigure(q)
        PROVE  CompleteIsServed'
    <3>1. CASE Verdict(q) # "ok"
      <4>1. last' = [answer |-> Verdict(q), complete |-> Complete(q), kept |-> TRUE]
        BY <2>3, <3>1 DEF Reconfigure
      <4>2. Verdict(q) \in {"ok", "conflict", "badRequest"}
        BY DEF Verdict
      <4>3. QED  BY <4>1, <4>2 DEF CompleteIsServed
    <3>2. CASE Verdict(q) = "ok"
      <4> DEFINE s == FromQuery(q, Deployment[site].users, Deployment[site].encrypted)
      <4>1. s \in Kin(site)
        BY AsksAreKin DEF Asks, BaseInv
      <4>2. Complete(q) => Whole(s) /\ Len(s.dests) = Len(DestList(q.params))
        BY QueryWhole DEF BaseInv
      <4>3. DestList(q.params) \in Seq(DestRecord)
        <5>1. q.params \in [0..MaxIndex -> DestParams]
          BY SiteFields, RequestFields DEF RequestRecord, BaseInv
        <5>2. QED  BY <5>1, DestListType
      <4>4. Execute(s, q)
        BY <2>3, <3>2 DEF Reconfigure
      <4> HIDE DEF s
      <4>5. QED  BY <2>1, <4>1, <4>2, <4>3, <4>4
    <3>3. QED  BY <3>1, <3>2
  <2>4. CASE Recreate \/ \E s \in Service : Remove(s)
    BY <2>4 DEF Recreate, Remove, CompleteIsServed, Unasked
  <2>5. CASE UNCHANGED vars
    BY <2>5 DEF vars, CompleteIsServed
  <2>6. QED  BY <2>2, <2>3, <2>4, <2>5 DEF Next
<1>3. QED  BY <1>1, <1>2, LayoutInvariant, PTL DEF Spec

================================================================================
