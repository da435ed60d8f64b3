--------------------------------- MODULE Users ---------------------------------
(***************************************************************************)
(* Who may use a service: the credentials of its request, of a secret and  *)
(* of the proxy itself, merged.  A list of users is a function of the       *)
(* positions its entries had in the text: what is skipped leaves a gap.    *)
(***************************************************************************)
EXTENDS Naturals, Sequences

CONSTANTS
    None,       \* nothing was given
    Blank,      \* a colon with nothing behind it
    Unreadable, \* the secret was named and cannot be read
    Dummy       \* the generated user nobody knows

\* A name is a word, which may be empty, and whether it is typed in capitals.
Named(word, upper) == [word |-> word, upper |-> upper]

\* What stands before the colon, or the whole entry, may be nothing.
Nameless(name) == name.word = ""

\* strings.EqualFold
EqualFold(n, m) == n.word = m.word

\* An entry of a list of credentials has a name, then a colon and a password, a
\* colon only (Blank), or neither (None).
User(name, pass, encrypted) == [name |-> name, pass |-> pass, encrypted |-> encrypted]

dummyUser == User(Named(Dummy, FALSE), Dummy, TRUE)

HasPassword(u) == u.pass # None

Nobody == <<>>

\* extractUsersFromString, where skipEmptyPassword adds None to what is skipped;
\* an entry without a name is skipped always.
Extract(entries, encrypted, skipped) ==
    [i \in {j \in DOMAIN entries : ~Nameless(entries[j].name) /\ entries[j].pass \notin skipped} |->
        User(entries[i].name, entries[i].pass,
             IF entries[i].pass = None THEN FALSE ELSE encrypted)]

\* getUsersFromFile, which reports no users when the file cannot be read.
FromFile(secret, encrypted) ==
    IF secret \in {None, Unreadable} THEN Nobody ELSE Extract(secret, encrypted, {Blank, None})

\* The password a user without one gets, under the name it has: that of the first
\* namesake in source, capitals or not (findUserByName).
WithPassword(u, source) ==
    LET same == {i \in DOMAIN source : EqualFold(u.name, source[i].name)}
        v    == source[CHOOSE i \in same : \A j \in same : i <= j]
    IN  IF HasPassword(u) \/ same = {} THEN u
        ELSE [u EXCEPT !.pass = v.pass, !.encrypted = v.encrypted]

\* Mutant: the passwords of the proxy stand in for a secret that cannot be read.
MergeUsersGlobalFirst(usersParam, usersSecret, encrypted, global, globalEncrypted) ==
    LET paramUsers == IF usersParam = None THEN Nobody ELSE Extract(usersParam, encrypted, {Blank})
        fileUsers  == FromFile(usersSecret, encrypted)
        source     == IF DOMAIN fileUsers = {} THEN Extract(global, globalEncrypted, {Blank, None})
                                          ELSE fileUsers
        collected  == IF DOMAIN paramUsers = {} THEN fileUsers
                      ELSE [i \in DOMAIN paramUsers |-> WithPassword(paramUsers[i], source)]
        ret        == {collected[i] : i \in {j \in DOMAIN collected : HasPassword(collected[j])}}
    IN  IF ret = {} /\ ~(usersParam = None /\ usersSecret = None) THEN {dummyUser} ELSE ret

\* mergeUsers: usersParam is None or a list, usersSecret None, Unreadable or a
\* list.  The users of the proxy are looked at only without a secret.  The result
\* is a set: HAProxy does not care for the order of a userlist.
mergeUsers(usersParam, usersSecret, encrypted, global, globalEncrypted) ==
    LET paramUsers == IF usersParam = None THEN Nobody ELSE Extract(usersParam, encrypted, {Blank})
        fileUsers  == FromFile(usersSecret, encrypted)
        source     == IF usersSecret = None THEN Extract(global, globalEncrypted, {Blank, None})
                                            ELSE fileUsers
        collected  == IF DOMAIN paramUsers = {} THEN fileUsers
                      ELSE [i \in DOMAIN paramUsers |-> WithPassword(paramUsers[i], source)]
        ret        == {collected[i] : i \in {j \in DOMAIN collected : HasPassword(collected[j])}}
    IN  IF ret = {} /\ ~(usersParam = None /\ usersSecret = None) THEN {dummyUser} ELSE ret

================================================================================
