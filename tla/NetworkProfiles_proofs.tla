----------------------- MODULE NetworkProfiles_proofs -----------------------
(***************************************************************************)
(* The invariant of the profile store, and that every operation and every  *)
(* failure of it keeps the invariant.                                      *)
(*                                                                         *)
(* MemoryBehindFile and DeletedStaysDeleted need to know what a running    *)
(* commit is writing, and that only the holder of the lock writes;         *)
(* PreparedBinds needs that revisions only grow, also in what a commit is  *)
(* about to install, and that no identifier is issued twice.               *)
(***************************************************************************)
EXTENDS NetworkProfiles, TLAPS

ProfileSets == UNION {[S -> Profiles] : S \in SUBSET Ids}

\* What a client is doing agrees with what it writes and has in memory.
CommitOK ==
  \A c \in Clients :
    /\ phase[c] \in {"writing", "renamed"} =>
         persistent[c] /\ proposed[c].generation = store[c].generation + 1
    /\ phase[c] = "renamed" => proposed[c] = file
    /\ phase[c] \notin {"writing", "renamed"} => proposed[c] = Empty
    /\ phase[c] \in {"new", "closed"} => store[c] = Empty

LockExclusive == \A c, d \in Clients : Holds(c) /\ Holds(d) => c = d

\* Every profile anywhere has an identifier that was issued.
Issued(s) == DOMAIN s.profiles \subseteq issued
IssuedOnly ==
  /\ \A c \in Clients : Issued(store[c]) /\ Issued(proposed[c])
  /\ \A s \in kept \cup {file} : Issued(s)

\* A store still has the profile of a prepared value, or a later revision of
\* it, or none.
Follows(s, p) ==
  Has(s, p.id) =>
    \/ s.profiles[p.id] = p.profile
    \/ s.profiles[p.id].revision > p.profile.revision
PreparedFollowed ==
  prepared # NULL =>
    /\ prepared.id \in issued
    /\ phase[prepared.owner] # "new"
    /\ Follows(store[prepared.owner], prepared)
    /\ Follows(proposed[prepared.owner], prepared)

ProfileInv ==
  /\ ProfileTypeOK /\ CommitOK /\ LockExclusive /\ IssuedOnly /\ PreparedFollowed
  /\ MemoryBehindFile /\ DeletedStaysDeleted /\ PasswordsBound

-----------------------------------------------------------------------------
(* Sets of profiles.                                                       *)

LEMMA EmptyStore ==
  Empty \in Stores /\ DOMAIN Empty.profiles = {} /\ Empty.generation = 0
BY GenerationAssumption DEF Empty, Stores

\* A profile added or replaced.
LEMMA WithProfiles ==
  ASSUME NEW f \in ProfileSets, NEW x \in Ids, NEW v \in Profiles
  PROVE  /\ With(f, x, v) \in ProfileSets
         /\ DOMAIN With(f, x, v) = DOMAIN f \cup {x}
         /\ With(f, x, v)[x] = v
         /\ \A y \in DOMAIN f \ {x} : With(f, x, v)[y] = f[y]
<1>1. PICK S \in SUBSET Ids : f \in [S -> Profiles]
  BY DEF ProfileSets
<1>2. With(f, x, v) \in [S \cup {x} -> Profiles]
  BY <1>1 DEF With
<1>3. S \cup {x} \in SUBSET Ids
  OBVIOUS
<1> QED
  BY <1>1, <1>2, <1>3 DEF With, ProfileSets

\* A profile removed.
LEMMA WithoutProfile ==
  ASSUME NEW f \in ProfileSets, NEW x
  PROVE  /\ Without(f, x) \in ProfileSets
         /\ DOMAIN Without(f, x) = DOMAIN f \ {x}
         /\ \A y \in DOMAIN f \ {x} : Without(f, x)[y] = f[y]
<1>1. PICK S \in SUBSET Ids : f \in [S -> Profiles]
  BY DEF ProfileSets
<1>2. Without(f, x) \in [S \ {x} -> Profiles]
  BY <1>1 DEF Without
<1>3. S \ {x} \in SUBSET Ids
  OBVIOUS
<1> QED
  BY <1>1, <1>2, <1>3 DEF Without, ProfileSets

\* The parts of a store.
LEMMA StoreParts ==
  ASSUME NEW s \in Stores
  PROVE  /\ s.generation \in 0 .. MaxGeneration
         /\ s.profiles \in ProfileSets
         /\ DOMAIN s.profiles \subseteq Ids
         /\ \A i \in DOMAIN s.profiles : s.profiles[i] \in Profiles
         /\ s = [generation |-> s.generation, profiles |-> s.profiles]
BY DEF Stores, ProfileSets

LEMMA StoreIs ==
  ASSUME NEW g \in 0 .. MaxGeneration, NEW f \in ProfileSets
  PROVE  [generation |-> g, profiles |-> f] \in Stores
BY DEF Stores, ProfileSets

-----------------------------------------------------------------------------
(* Beginning and end of a client.                                          *)

LEMMA InitProfiles == ProfileInit => ProfileInv
<1> SUFFICES ASSUME ProfileInit PROVE ProfileInv
  OBVIOUS
<1> USE EmptyStore DEF ProfileInit
<1>1. ProfileTypeOK
  BY DEF ProfileTypeOK
<1>2. CommitOK /\ LockExclusive /\ IssuedOnly /\ PreparedFollowed
  BY DEF CommitOK, LockExclusive, IssuedOnly, Issued, PreparedFollowed, Holds
<1>3. MemoryBehindFile /\ DeletedStaysDeleted /\ PasswordsBound
  BY DEF MemoryBehindFile, DeletedStaysDeleted, PasswordsBound, OwnPasswords, Holds
<1> QED
  BY <1>1, <1>2, <1>3 DEF ProfileInv

LEMMA OpenKeeps ==
  ASSUME ProfileInv, NEW c \in Clients, NEW persist \in BOOLEAN, Open(c, persist)
  PROVE  ProfileInv'
<1> USE EmptyStore DEF ProfileInv, ProfileTypeOK, Open
<1>1. ProfileTypeOK'
  OBVIOUS
<1>2. CommitOK'
  BY DEF CommitOK
<1>3. LockExclusive'
  BY DEF LockExclusive, Holds
<1>4. IssuedOnly'
  BY DEF IssuedOnly, Issued
<1>5. PreparedFollowed'
  BY DEF PreparedFollowed, Follows, Prepared
<1>6. MemoryBehindFile'
  BY DEF MemoryBehindFile, Holds
<1>7. DeletedStaysDeleted'
  BY DEF DeletedStaysDeleted, CommitOK, Holds, Has
<1>8. PasswordsBound'
  BY DEF PasswordsBound, OwnPasswords
<1> QED
  BY <1>1, <1>2, <1>3, <1>4, <1>5, <1>6, <1>7, <1>8

LEMMA CloseKeeps ==
  ASSUME ProfileInv, NEW c \in Clients, Close(c)
  PROVE  ProfileInv'
<1> USE EmptyStore DEF ProfileInv, ProfileTypeOK, Close
<1>1. ProfileTypeOK'
  OBVIOUS
<1>2. CommitOK'
  BY DEF CommitOK
<1>3. LockExclusive'
  BY DEF LockExclusive, Holds
<1>4. IssuedOnly'
  BY DEF IssuedOnly, Issued
<1>5. PreparedFollowed'
  BY DEF PreparedFollowed, Follows, Has, Prepared
<1>6. MemoryBehindFile'
  BY DEF MemoryBehindFile, Holds
<1>7. DeletedStaysDeleted'
  BY DEF DeletedStaysDeleted, Holds, Has
<1>8. PasswordsBound'
  BY DEF PasswordsBound, OwnPasswords
<1> QED
  BY <1>1, <1>2, <1>3, <1>4, <1>5, <1>6, <1>7, <1>8

LEMMA PowerFailureKeeps ==
  ASSUME ProfileInv, PowerFailure
  PROVE  ProfileInv'
<1> USE EmptyStore DEF ProfileInv, ProfileTypeOK, PowerFailure
<1>1. ProfileTypeOK'
  OBVIOUS
<1>2. CommitOK'
  BY DEF CommitOK
<1>3. LockExclusive'
  BY DEF LockExclusive, Holds
<1>4. IssuedOnly'
  BY DEF IssuedOnly, Issued
<1>5. PreparedFollowed'
  BY DEF PreparedFollowed, Follows, Has, Prepared
<1>6. MemoryBehindFile'
  BY DEF MemoryBehindFile, Holds
<1>7. DeletedStaysDeleted'
  BY DEF DeletedStaysDeleted, Holds, Has
<1>8. PasswordsBound'
  BY DEF PasswordsBound, OwnPasswords
<1> QED
  BY <1>1, <1>2, <1>3, <1>4, <1>5, <1>6, <1>7, <1>8

-----------------------------------------------------------------------------
(* The commit.                                                             *)

LEMMA WriteFailsKeeps ==
  ASSUME ProfileInv, NEW c \in Clients, WriteFails(c)
  PROVE  ProfileInv'
<1> USE EmptyStore DEF ProfileInv, ProfileTypeOK, WriteFails, Refused
<1>1. ProfileTypeOK'
  OBVIOUS
<1>2. CommitOK'
  BY DEF CommitOK
<1>3. LockExclusive'
  BY DEF LockExclusive, Holds
<1>4. IssuedOnly'
  BY DEF IssuedOnly, Issued
<1>5. PreparedFollowed'
  BY DEF PreparedFollowed, Follows, Has, Prepared
<1>6. MemoryBehindFile'
  BY DEF MemoryBehindFile, Holds
<1>7. DeletedStaysDeleted'
  BY DEF DeletedStaysDeleted, Holds, Has
<1>8. PasswordsBound'
  BY DEF PasswordsBound, OwnPasswords
<1> QED
  BY <1>1, <1>2, <1>3, <1>4, <1>5, <1>6, <1>7, <1>8

LEMMA RenameKeeps ==
  ASSUME ProfileInv, NEW c \in Clients, Rename(c)
  PROVE  ProfileInv'
<1> USE DEF ProfileInv, ProfileTypeOK, Rename
<1>0. Holds(c) /\ \A d \in Clients \ {c} : ~Holds(d)
  BY DEF Holds, CommitOK, LockExclusive
<1>1. ProfileTypeOK'
  OBVIOUS
<1>2. CommitOK'
  BY <1>0 DEF CommitOK, Holds
<1>3. LockExclusive'
  BY DEF LockExclusive, Holds
<1>4. IssuedOnly'
  BY DEF IssuedOnly, Issued
<1>5. PreparedFollowed'
  BY DEF PreparedFollowed, Follows, Prepared
<1>6. MemoryBehindFile'
  BY <1>0 DEF MemoryBehindFile, Holds, CommitOK
<1>7. DeletedStaysDeleted'
  BY <1>0 DEF DeletedStaysDeleted, Holds, Has
<1>8. PasswordsBound'
  BY DEF PasswordsBound, OwnPasswords
<1> QED
  BY <1>1, <1>2, <1>3, <1>4, <1>5, <1>6, <1>7, <1>8

LEMMA PermitFailsKeeps ==
  ASSUME ProfileInv, NEW c \in Clients, PermitFails(c)
  PROVE  ProfileInv'
<1> USE EmptyStore DEF ProfileInv, ProfileTypeOK, PermitFails, Refused
<1>1. ProfileTypeOK'
  OBVIOUS
<1>2. CommitOK'
  BY DEF CommitOK
<1>3. LockExclusive'
  BY DEF LockExclusive, Holds
<1>4. IssuedOnly'
  BY DEF IssuedOnly, Issued
<1>5. PreparedFollowed'
  BY DEF PreparedFollowed, Follows, Has, Prepared
<1>6. MemoryBehindFile'
  BY DEF MemoryBehindFile, Holds
<1>7. DeletedStaysDeleted'
  BY DEF DeletedStaysDeleted, Holds, Has
<1>8. PasswordsBound'
  BY DEF PasswordsBound, OwnPasswords
<1> QED
  BY <1>1, <1>2, <1>3, <1>4, <1>5, <1>6, <1>7, <1>8

LEMMA FinishKeeps ==
  ASSUME ProfileInv, NEW c \in Clients, Finish(c)
  PROVE  ProfileInv'
<1> USE EmptyStore DEF ProfileInv, ProfileTypeOK, Finish, Acknowledged
<1>0. /\ Holds(c) /\ \A d \in Clients \ {c} : ~Holds(d)
      /\ proposed[c] = file
  BY DEF Holds, CommitOK, LockExclusive
<1>1. ProfileTypeOK'
  <2>1. gone' \subseteq issued
    BY DEF CommitOK
  <2>2. kept' \subseteq Stores
    OBVIOUS
  <2>3. store' \in [Clients -> Stores] /\ proposed' \in [Clients -> Stores]
    OBVIOUS
  <2>4. /\ phase' \in [Clients -> {"new", "open", "writing", "renamed", "closed"}]
        /\ reported' \in [Clients -> {"ok", "failed"}]
    OBVIOUS
  <2> QED
    BY <2>1, <2>2, <2>3, <2>4
<1>2. CommitOK'
  BY <1>0 DEF CommitOK, Holds
<1>3. LockExclusive'
  BY DEF LockExclusive, Holds
<1>4. IssuedOnly'
  BY DEF IssuedOnly, Issued
<1>5. PreparedFollowed'
  BY DEF PreparedFollowed, Follows, Has, Prepared
<1>6. MemoryBehindFile'
  BY <1>0 DEF MemoryBehindFile, Holds
<1>7. DeletedStaysDeleted'
  <2>1. persistent[c]
    BY <1>0 DEF Holds
  <2>2. gone' = issued \ DOMAIN file.profiles
    BY <1>0, <2>1
  <2>3. \A d \in Clients : Holds(d)' => d = c
    BY <1>0 DEF Holds
  <2>4. store'[c] = file /\ proposed'[c] = Empty
    BY <1>0
  <2> QED
    BY <2>2, <2>3, <2>4 DEF DeletedStaysDeleted, Has
<1>8. PasswordsBound'
  BY DEF PasswordsBound, OwnPasswords
<1> QED
  BY <1>1, <1>2, <1>3, <1>4, <1>5, <1>6, <1>7, <1>8

\* What an operation may commit: profiles with issued identifiers, none that
\* was removed, each with its own password, and at least as new as those that
\* were prepared.
Committable(c, f) ==
  /\ DOMAIN f \subseteq issued'
  /\ \A i \in gone : Holds(c) => i \notin DOMAIN f
  /\ \A i \in DOMAIN f : f[i].password \in {NULL, f[i].scope}
  /\ prepared # NULL /\ prepared.owner = c =>
       \A g \in 0 .. MaxGeneration :
         Follows([generation |-> g, profiles |-> f], prepared)

LEMMA CommitKeeps ==
  ASSUME ProfileInv, NEW c \in Clients, NEW f \in ProfileSets, phase[c] = "open",
         issued \subseteq issued', issued' \subseteq Ids,
         Committable(c, f), Commit(c, f)
  PROVE  ProfileInv'
<1> DEFINE g == store[c].generation + 1
           p == [generation |-> g, profiles |-> f]
<1> USE EmptyStore DEF ProfileInv
<1>0. /\ UNCHANGED <<persistent, file, kept, prepared>>
      /\ proposed[c] = Empty
      /\ store[c] \in Stores /\ store[c].generation \in 0 .. MaxGeneration
  BY StoreParts DEF Commit, CommitOK, ProfileTypeOK
<1>1. CASE store[c].generation = MaxGeneration /\ Refused(c)
  <2> USE <1>1, <1>0 DEF Refused, ProfileTypeOK
  <2>1. ProfileTypeOK'
    OBVIOUS
  <2>2. CommitOK' /\ LockExclusive'
    BY DEF CommitOK, LockExclusive, Holds
  <2>3. IssuedOnly' /\ PreparedFollowed'
    BY DEF IssuedOnly, Issued, PreparedFollowed, Follows, Has, Prepared
  <2>4. MemoryBehindFile' /\ DeletedStaysDeleted'
    BY DEF MemoryBehindFile, DeletedStaysDeleted, Holds, Has
  <2>5. PasswordsBound'
    BY DEF PasswordsBound, OwnPasswords
  <2> QED
    BY <2>1, <2>2, <2>3, <2>4, <2>5
<1>2. CASE store[c].generation < MaxGeneration
  <2>0. /\ g \in 0 .. MaxGeneration
        /\ p \in Stores
    BY <1>0, <1>2, StoreIs, GenerationAssumption
  <2>a. /\ p.generation = g
        /\ p.profiles = f
    OBVIOUS
  <2>b. prepared # NULL /\ prepared.owner = c => Follows(p, prepared)
    BY <2>0 DEF Committable
  <2> HIDE DEF p
  <2>1. CASE ~persistent[c] /\ Acknowledged(c, p)
    <3> USE <2>1, <2>0, <1>0 DEF Acknowledged, ProfileTypeOK
    <3>1. ProfileTypeOK'
      OBVIOUS
    <3>2. CommitOK' /\ LockExclusive'
      BY DEF CommitOK, LockExclusive, Holds
    <3>3. IssuedOnly'
      BY <2>a DEF IssuedOnly, Issued, Committable
    <3>4. PreparedFollowed'
      BY <2>b DEF PreparedFollowed, Follows, Has, Prepared
    <3>5. MemoryBehindFile' /\ DeletedStaysDeleted'
      BY DEF MemoryBehindFile, DeletedStaysDeleted, Holds, Has
    <3>6. PasswordsBound'
      BY <2>a DEF PasswordsBound, OwnPasswords, Committable
    <3> QED
      BY <3>1, <3>2, <3>3, <3>4, <3>5, <3>6
  <2>2. CASE /\ persistent[c]
             /\ phase' = [phase EXCEPT ![c] = "writing"]
             /\ proposed' = [proposed EXCEPT ![c] = p]
             /\ UNCHANGED <<store, reported, gone>>
    <3> USE <2>2, <2>0, <1>0 DEF ProfileTypeOK
    <3>1. ProfileTypeOK'
      OBVIOUS
    <3>2. CommitOK' /\ LockExclusive'
      BY <2>a DEF CommitOK, LockExclusive, Holds
    <3>3. IssuedOnly'
      BY <2>a DEF IssuedOnly, Issued, Committable
    <3>4. PreparedFollowed'
      BY <2>b DEF PreparedFollowed, Follows, Has, Prepared
    <3>5. MemoryBehindFile'
      BY DEF MemoryBehindFile, Holds
    <3>6. DeletedStaysDeleted'
      BY <2>a DEF DeletedStaysDeleted, Holds, Has, Committable
    <3>7. PasswordsBound'
      BY <2>a DEF PasswordsBound, OwnPasswords, Committable
    <3> QED
      BY <3>1, <3>2, <3>3, <3>4, <3>5, <3>6, <3>7
  <2> QED
    BY <1>2, <1>0, <2>1, <2>2 DEF Commit, p
<1> QED
  BY <1>1, <1>2 DEF Commit

-----------------------------------------------------------------------------
(* The operations on profiles.                                             *)

\* What a client has in memory before it commits.
LEMMA BeforeCommit ==
  ASSUME ProfileInv, NEW c \in Clients
  PROVE  /\ store[c].profiles \in ProfileSets
         /\ DOMAIN store[c].profiles \subseteq Ids \cap issued
         /\ \A i \in DOMAIN store[c].profiles :
              /\ store[c].profiles[i] \in Profiles
              /\ store[c].profiles[i].password \in {NULL, store[c].profiles[i].scope}
         /\ \A i \in gone : Holds(c) => i \notin DOMAIN store[c].profiles
         /\ prepared # NULL /\ prepared.owner = c =>
              Follows(store[c], prepared) /\ prepared \in Prepared
<1> USE DEF ProfileInv
<1>1. store[c] \in Stores
  BY DEF ProfileTypeOK
<1>2. /\ store[c].profiles \in ProfileSets
      /\ DOMAIN store[c].profiles \subseteq Ids \cap issued
      /\ \A i \in DOMAIN store[c].profiles : store[c].profiles[i] \in Profiles
  BY <1>1, StoreParts DEF IssuedOnly, Issued
<1>3. \A i \in DOMAIN store[c].profiles :
        store[c].profiles[i].password \in {NULL, store[c].profiles[i].scope}
  BY DEF PasswordsBound, OwnPasswords
<1>4. \A i \in gone : Holds(c) => i \notin DOMAIN store[c].profiles
  BY DEF DeletedStaysDeleted, Has
<1>5. prepared # NULL /\ prepared.owner = c =>
        Follows(store[c], prepared) /\ prepared \in Prepared
  BY DEF PreparedFollowed, ProfileTypeOK
<1> QED
  BY <1>2, <1>3, <1>4, <1>5

LEMMA SaveKeeps ==
  ASSUME ProfileInv, NEW c \in Clients, NEW id \in Ids, NEW scope \in Scopes,
         NEW password \in Scopes \cup {NULL}, Save(c, id, scope, password)
  PROVE  ProfileInv'
<1> DEFINE v == [scope |-> scope, password |-> password, revision |-> 1]
           f == With(store[c].profiles, id, v)
<1>0. /\ id \notin issued /\ issued' = issued \cup {id}
      /\ phase[c] = "open" /\ password \in {NULL, scope} /\ Commit(c, f)
      /\ issued \subseteq issued' /\ issued' \subseteq Ids /\ gone \subseteq issued
  BY DEF Save, ProfileInv, ProfileTypeOK
<1>1. v \in Profiles /\ v.password \in {NULL, v.scope}
  BY <1>0, RevisionAssumption DEF Profiles
<1> HIDE DEF v
<1>2. /\ f \in ProfileSets
      /\ DOMAIN f = DOMAIN store[c].profiles \cup {id}
      /\ f[id] = v
      /\ \A y \in DOMAIN store[c].profiles \ {id} : f[y] = store[c].profiles[y]
  <2>1. store[c].profiles \in ProfileSets
    BY BeforeCommit
  <2> QED
    BY <1>1, <2>1, WithProfiles
<1> HIDE DEF f
<1>3. DOMAIN f \subseteq issued'
  BY <1>0, <1>2, BeforeCommit
<1>4. \A i \in gone : Holds(c) => i \notin DOMAIN f
  BY <1>0, <1>2, BeforeCommit
<1>5. \A i \in DOMAIN f : f[i].password \in {NULL, f[i].scope}
  BY <1>1, <1>2, BeforeCommit
<1>6. prepared # NULL => prepared.id \in issued
  BY DEF ProfileInv, PreparedFollowed
<1>7. ASSUME prepared # NULL, prepared.owner = c, NEW g \in 0 .. MaxGeneration
      PROVE  Follows([generation |-> g, profiles |-> f], prepared)
  BY <1>0, <1>2, <1>6, <1>7, BeforeCommit DEF Follows, Has
<1> QED
  BY <1>0, <1>2, <1>3, <1>4, <1>5, <1>7, CommitKeeps DEF Committable

LEMMA UpdateKeeps ==
  ASSUME ProfileInv, NEW c \in Clients, NEW id \in Ids, NEW scope \in Scopes,
         NEW given \in Scopes \cup {NULL}, Update(c, id, scope, given)
  PROVE  ProfileInv'
<1> DEFINE old == store[c].profiles[id]
           v == [scope |-> scope, password |-> PasswordKept(old, scope, given),
                 revision |-> old.revision + 1]
           f == With(store[c].profiles, id, v)
<1>0. /\ issued' = issued /\ id \in DOMAIN store[c].profiles
      /\ phase[c] = "open" /\ given \in {NULL, scope} /\ Commit(c, f)
      /\ old.revision < MaxRevision
      /\ issued \subseteq issued' /\ issued' \subseteq Ids /\ gone \subseteq issued
  BY DEF Update, Has, ProfileInv, ProfileTypeOK
<1>1. old \in Profiles /\ old.password \in {NULL, old.scope}
  BY <1>0, BeforeCommit
<1>2. PasswordKept(old, scope, given) \in {NULL, scope}
  BY <1>0, <1>1 DEF PasswordKept
<1>3. /\ v \in Profiles /\ v.password \in {NULL, v.scope}
      /\ v.revision = old.revision + 1
  BY <1>0, <1>1, <1>2, RevisionAssumption DEF Profiles
<1> HIDE DEF v
<1>4. /\ f \in ProfileSets
      /\ DOMAIN f = DOMAIN store[c].profiles
      /\ f[id] = v
      /\ \A y \in DOMAIN store[c].profiles \ {id} : f[y] = store[c].profiles[y]
  <2>1. /\ store[c].profiles \in ProfileSets
        /\ DOMAIN store[c].profiles \cup {id} = DOMAIN store[c].profiles
    BY <1>0, BeforeCommit
  <2>2. /\ f \in ProfileSets
        /\ DOMAIN f = DOMAIN store[c].profiles \cup {id}
        /\ f[id] = v
        /\ \A y \in DOMAIN store[c].profiles \ {id} : f[y] = store[c].profiles[y]
    BY <1>3, <2>1, WithProfiles
  <2> QED
    BY <2>1, <2>2
<1> HIDE DEF f
<1>5. DOMAIN f \subseteq issued'
  BY <1>0, <1>4, BeforeCommit
<1>6. \A i \in gone : Holds(c) => i \notin DOMAIN f
  BY <1>4, BeforeCommit
<1>7. \A i \in DOMAIN f : f[i].password \in {NULL, f[i].scope}
  BY <1>3, <1>4, BeforeCommit
<1>8. ASSUME prepared # NULL, prepared.owner = c, NEW g \in 0 .. MaxGeneration
      PROVE  Follows([generation |-> g, profiles |-> f], prepared)
  <2>1. prepared.profile \in Profiles /\ Follows(store[c], prepared)
    BY <1>8, BeforeCommit DEF Prepared
  <2>2. CASE prepared.id = id
    <3>1. old = prepared.profile \/ old.revision > prepared.profile.revision
      BY <2>1, <2>2, <1>0 DEF Follows, Has
    <3>2. v.revision > prepared.profile.revision
      BY <3>1, <2>1, <1>1, <1>3 DEF Profiles
    <3> QED
      BY <3>2, <2>2, <1>4 DEF Follows, Has
  <2>3. CASE prepared.id # id
    BY <2>1, <2>3, <1>4 DEF Follows, Has
  <2> QED
    BY <2>2, <2>3
<1> QED
  BY <1>0, <1>4, <1>5, <1>6, <1>7, <1>8, CommitKeeps DEF Committable

LEMMA DeleteKeeps ==
  ASSUME ProfileInv, NEW c \in Clients, NEW id \in Ids, Delete(c, id)
  PROVE  ProfileInv'
<1> DEFINE f == Without(store[c].profiles, id)
<1>0. /\ issued' = issued /\ phase[c] = "open" /\ Commit(c, f)
      /\ issued \subseteq issued' /\ issued' \subseteq Ids
  BY DEF Delete, ProfileInv, ProfileTypeOK
<1>1. /\ f \in ProfileSets
      /\ DOMAIN f = DOMAIN store[c].profiles \ {id}
      /\ \A y \in DOMAIN store[c].profiles \ {id} : f[y] = store[c].profiles[y]
  BY BeforeCommit, WithoutProfile
<1> HIDE DEF f
<1>2. DOMAIN f \subseteq issued' /\ \A i \in gone : Holds(c) => i \notin DOMAIN f
  BY <1>0, <1>1, BeforeCommit
<1>3. \A i \in DOMAIN f : f[i].password \in {NULL, f[i].scope}
  BY <1>1, BeforeCommit
<1>4. ASSUME prepared # NULL, prepared.owner = c, NEW g \in 0 .. MaxGeneration
      PROVE  Follows([generation |-> g, profiles |-> f], prepared)
  BY <1>1, <1>4, BeforeCommit DEF Follows, Has
<1> QED
  BY <1>0, <1>1, <1>2, <1>3, <1>4, CommitKeeps DEF Committable

LEMMA PrepareFillKeeps ==
  ASSUME ProfileInv, NEW c \in Clients, NEW id \in Ids, PrepareFill(c, id)
  PROVE  ProfileInv'
<1> USE DEF ProfileInv, PrepareFill
<1>1. ProfileTypeOK'
  <2>1. prepared' \in Prepared
    BY BeforeCommit DEF Has, Prepared
  <2> QED
    BY <2>1 DEF ProfileTypeOK
<1>2. CommitOK' /\ LockExclusive' /\ IssuedOnly'
  BY DEF CommitOK, LockExclusive, IssuedOnly, Issued, Holds
<1>3. PreparedFollowed'
  <2>1. prepared'.id \in issued /\ phase[prepared'.owner] # "new"
    BY BeforeCommit DEF Has
  <2>2. Follows(store[c], prepared')
    BY DEF Follows
  <2>3. Follows(proposed[c], prepared')
    BY EmptyStore DEF Follows, Has, CommitOK
  <2> QED
    BY <2>1, <2>2, <2>3 DEF PreparedFollowed, Follows, Has
<1>4. MemoryBehindFile' /\ DeletedStaysDeleted' /\ PasswordsBound'
  BY DEF MemoryBehindFile, DeletedStaysDeleted, PasswordsBound, OwnPasswords, Holds, Has
<1> QED
  BY <1>1, <1>2, <1>3, <1>4

\* Every step of a client that is not on the portal keeps the invariant.
LEMMA ProfileStepKeeps ==
  ASSUME ProfileInv, NEW c \in Clients, ProfileStep(c)
  PROVE  ProfileInv'
BY OpenKeeps, WriteFailsKeeps, RenameKeeps, PermitFailsKeeps, FinishKeeps, SaveKeeps,
   UpdateKeeps, DeleteKeeps, PrepareFillKeeps DEF ProfileStep

LEMMA ProfileStutterKeeps ==
  ASSUME ProfileInv, UNCHANGED profileVars
  PROVE  ProfileInv'
BY DEF profileVars, ProfileInv, ProfileTypeOK, CommitOK, LockExclusive, IssuedOnly, Issued,
   PreparedFollowed, Follows, Has, MemoryBehindFile, DeletedStaysDeleted, PasswordsBound,
   OwnPasswords, Holds

LEMMA PreparedValuesBind == ProfileInv => PreparedBinds
<1> SUFFICES ASSUME ProfileInv, prepared # NULL, NEW c \in Clients,
                    BelongsTo(prepared, c)
             PROVE  prepared.profile = store[c].profiles[prepared.id]
  BY DEF PreparedBinds
<1>1. /\ prepared.id \in DOMAIN store[c].profiles
      /\ prepared.profile \in Profiles
      /\ prepared.profile.revision = store[c].profiles[prepared.id].revision
  BY BeforeCommit DEF BelongsTo, Has, Prepared
<1>2. Follows(store[c], prepared)
  BY BeforeCommit DEF BelongsTo
<1> QED
  BY <1>1, <1>2 DEF Follows, Has, Profiles

=============================================================================
