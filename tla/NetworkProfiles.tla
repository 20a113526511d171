--------------------------- MODULE NetworkProfiles ---------------------------
(***************************************************************************)
(* The local network profiles of an SDK client: the profile file, its lock *)
(* and its replacement (network_profile_store.rs), the operations on       *)
(* profiles and the prepared form values that an application keeps         *)
(* (client.rs, network.rs).                                                *)
(*                                                                         *)
(* Several clients of one or more processes share a directory.  An         *)
(* operation computes the whole new set of profiles, writes it to a        *)
(* temporary file, renames that over the data file and only then installs  *)
(* it in memory.  A process may end between any two of these steps, and    *)
(* a power failure may undo renames whose directory was not synced.        *)
(*                                                                         *)
(* A password is modelled by the account and the access method it was      *)
(* given for; labels are left out.                                         *)
(***************************************************************************)
EXTENDS Integers, FiniteSets

CONSTANTS
  Clients,        \* clients, each with an instance identifier of its own
  Ids,            \* profile identifiers; none is issued twice
  Scopes,         \* what a password is given for: a username and an access method
  MaxRevision,    \* the largest revision a profile can have
  MaxGeneration,  \* the largest generation a store can have
  NULL

ASSUME RevisionAssumption == MaxRevision \in Nat \ {0}
ASSUME GenerationAssumption == MaxGeneration \in Nat
ASSUME ScopesAssumption == \A s \in Scopes : s.method \in {"portal", "eap"}
ASSUME NullAssumption ==
  /\ NULL \notin Scopes
  /\ NULL \notin [owner : Clients, id : Ids, profile :
       [scope : Scopes, password : Scopes \cup {NULL}, revision : 1 .. MaxRevision]]

VARIABLES
  phase,       \* what every client does
  persistent,  \* the storage policy a client was opened with
  store,       \* the profiles and the generation in the memory of a client
  proposed,    \* what a running commit is writing
  file,        \* the data file
  kept,        \* the data files a power failure may leave
  prepared,    \* one of the form values an application keeps
  issued,      \* identifiers that were issued
  reported,    \* what the last commit of a client returned
  gone         \* identifiers that a commit has successfully removed

profileVars ==
  <<phase, persistent, store, proposed, file, kept, prepared, issued, reported, gone>>

Profiles ==
  [scope : Scopes, password : Scopes \cup {NULL}, revision : 1 .. MaxRevision]
Stores ==
  [generation : 0 .. MaxGeneration, profiles : UNION {[S -> Profiles] : S \in SUBSET Ids}]
Prepared ==
  [owner : Clients, id : Ids, profile : Profiles]

Without(f, x) == [y \in DOMAIN f \ {x} |-> f[y]]
With(f, x, v) == [y \in DOMAIN f \cup {x} |-> IF y = x THEN v ELSE f[y]]
Empty == [generation |-> 0, profiles |-> [i \in {} |-> NULL]]
Has(s, id) == id \in DOMAIN s.profiles

\* The client that holds the lock of the directory.
Holds(c) == persistent[c] /\ phase[c] \in {"open", "writing", "renamed"}

-----------------------------------------------------------------------------
(* Opening and ending a client.                                            *)

\* Mutant: the lock is not taken.
OpenUnlocked(c, persist) ==
  /\ phase[c] = "new"
  /\ phase' = [phase EXCEPT ![c] = "open"]
  /\ persistent' = [persistent EXCEPT ![c] = persist]
  /\ store' = [store EXCEPT ![c] = IF persist THEN file ELSE Empty]
  /\ UNCHANGED <<proposed, file, kept, prepared, issued, reported, gone>>

\* NetworkProfileStore::open: the lock is tried once and held for the life of
\* the client, then the file is loaded; a missing one is an empty store.
Open(c, persist) ==
  /\ phase[c] = "new"
  /\ persist => \A d \in Clients : ~Holds(d)
  /\ phase' = [phase EXCEPT ![c] = "open"]
  /\ persistent' = [persistent EXCEPT ![c] = persist]
  /\ store' = [store EXCEPT ![c] = IF persist THEN file ELSE Empty]
  /\ UNCHANGED <<proposed, file, kept, prepared, issued, reported, gone>>

\* A client is dropped or its process ends, wherever its commit stands.
Close(c) ==
  /\ phase[c] \in {"open", "writing", "renamed"}
  /\ phase' = [phase EXCEPT ![c] = "closed"]
  /\ store' = [store EXCEPT ![c] = Empty]
  /\ proposed' = [proposed EXCEPT ![c] = Empty]
  /\ UNCHANGED <<persistent, file, kept, prepared, issued, reported, gone>>

\* Every process ends, and renames that were not synced may be undone; what
\* they had removed is back.
PowerFailure ==
  /\ \E c \in Clients : phase[c] \in {"open", "writing", "renamed"}
  /\ \E left \in kept :
       /\ file' = left
       /\ kept' = {left}
       /\ gone' = gone \ DOMAIN left.profiles
  /\ phase' = [c \in Clients |-> IF phase[c] = "new" THEN "new" ELSE "closed"]
  /\ store' = [c \in Clients |-> Empty]
  /\ proposed' = [c \in Clients |-> Empty]
  /\ UNCHANGED <<persistent, prepared, issued, reported>>

-----------------------------------------------------------------------------
(* The commit of a new set of profiles.                                    *)

\* The commit is acknowledged with the profiles p.
Acknowledged(c, p) ==
  /\ phase' = [phase EXCEPT ![c] = "open"]
  /\ store' = [store EXCEPT ![c] = p]
  /\ proposed' = [proposed EXCEPT ![c] = Empty]
  /\ reported' = [reported EXCEPT ![c] = "ok"]
  /\ gone' = IF persistent[c] THEN issued' \ DOMAIN p.profiles ELSE gone

\* The client keeps what it had.
Refused(c) ==
  /\ phase' = [phase EXCEPT ![c] = "open"]
  /\ proposed' = [proposed EXCEPT ![c] = Empty]
  /\ reported' = [reported EXCEPT ![c] = "failed"]
  /\ UNCHANGED <<store, gone>>

\* NetworkProfileStore::commit: a generation that cannot grow refuses it, and
\* a store in memory has nothing to write.
Commit(c, profiles) ==
  LET p == [generation |-> store[c].generation + 1, profiles |-> profiles] IN
  /\ \/ /\ store[c].generation = MaxGeneration
        /\ Refused(c)
     \/ /\ store[c].generation < MaxGeneration /\ ~persistent[c]
        /\ Acknowledged(c, p)
     \/ /\ store[c].generation < MaxGeneration /\ persistent[c]
        /\ phase' = [phase EXCEPT ![c] = "writing"]
        /\ proposed' = [proposed EXCEPT ![c] = p]
        /\ UNCHANGED <<store, reported, gone>>
  /\ UNCHANGED <<persistent, file, kept, prepared>>

\* Mutant: a rename that failed is not reported.
WriteFailsSilently(c) ==
  /\ phase[c] = "writing"
  /\ UNCHANGED <<persistent, file, kept, prepared, issued>>
  /\ Acknowledged(c, proposed[c])

\* atomic_write up to the rename: the temporary file cannot be written, synced
\* or renamed.
WriteFails(c) ==
  /\ phase[c] = "writing"
  /\ Refused(c)
  /\ UNCHANGED <<persistent, file, kept, prepared, issued>>

Rename(c) ==
  /\ phase[c] = "writing"
  /\ phase' = [phase EXCEPT ![c] = "renamed"]
  /\ file' = proposed[c]
  /\ kept' = kept \cup {proposed[c]}
  /\ UNCHANGED <<persistent, store, proposed, prepared, issued, reported, gone>>

\* The permissions of the new file cannot be set: the commit is refused
\* although its file is in place.
PermitFails(c) ==
  /\ phase[c] = "renamed"
  /\ Refused(c)
  /\ UNCHANGED <<persistent, file, kept, prepared, issued>>

\* The directory is synced if it can be; nobody asks whether it was.
Finish(c) ==
  /\ phase[c] = "renamed"
  /\ UNCHANGED <<persistent, file, prepared, issued>>
  /\ Acknowledged(c, proposed[c])
  /\ kept' \in {kept, {file}}

-----------------------------------------------------------------------------
(* The operations on profiles.                                             *)

\* save: the new profile has the password of its input, if there is one.
Save(c, id, scope, password) ==
  /\ phase[c] = "open"
  /\ id \notin issued
  /\ password \in {NULL, scope}
  /\ issued' = issued \cup {id}
  /\ Commit(c, With(store[c].profiles, id,
                    [scope |-> scope, password |-> password, revision |-> 1]))

\* Mutant: the old password is kept whatever the new account is.
PasswordKeptAlways(old, scope, given) == IF given # NULL THEN given ELSE old.password

\* An old password is kept only for the account and method it was given for.
PasswordKept(old, scope, given) ==
  IF given # NULL THEN given ELSE IF old.scope = scope THEN old.password ELSE NULL

\* update
Update(c, id, scope, given) ==
  LET old == store[c].profiles[id] IN
  /\ phase[c] = "open"
  /\ Has(store[c], id)
  /\ given \in {NULL, scope}
  /\ old.revision < MaxRevision
  /\ UNCHANGED issued
  /\ Commit(c, With(store[c].profiles, id,
                    [scope |-> scope, password |-> PasswordKept(old, scope, given),
                     revision |-> old.revision + 1]))

\* delete
Delete(c, id) ==
  /\ phase[c] = "open"
  /\ Has(store[c], id)
  /\ UNCHANGED issued
  /\ Commit(c, Without(store[c].profiles, id))

\* prepare_fill: the application may keep the value for as long as it likes,
\* and hand it to any client.
PrepareFill(c, id) ==
  /\ phase[c] = "open"
  /\ Has(store[c], id)
  /\ prepared' = [owner |-> c, id |-> id, profile |-> store[c].profiles[id]]
  /\ UNCHANGED <<phase, persistent, store, proposed, file, kept, issued, reported, gone>>

\* Mutant: whose value it is is not looked at.
BelongsToAnyone(p, c) ==
  Has(store[c], p.id) /\ p.profile.revision = store[c].profiles[p.id].revision

\* belongs_to: what connect_portal_profile, password_for_fill and is_current
\* ask before they use the profile.
BelongsTo(p, c) ==
  /\ p.owner = c
  /\ Has(store[c], p.id)
  /\ p.profile.revision = store[c].profiles[p.id].revision

-----------------------------------------------------------------------------

ProfileInit ==
  /\ phase = [c \in Clients |-> "new"]
  /\ persistent = [c \in Clients |-> FALSE]
  /\ store = [c \in Clients |-> Empty]
  /\ proposed = [c \in Clients |-> Empty]
  /\ file = Empty
  /\ kept = {Empty}
  /\ prepared = NULL
  /\ issued = {}
  /\ reported = [c \in Clients |-> "ok"]
  /\ gone = {}

\* What a client does between its calls on the portal.
ProfileStep(c) ==
  \/ \E persist \in BOOLEAN : Open(c, persist)
  \/ WriteFails(c) \/ Rename(c) \/ PermitFails(c) \/ Finish(c)
  \/ \E id \in Ids :
       \/ \E scope \in Scopes, password \in Scopes \cup {NULL} :
            Save(c, id, scope, password) \/ Update(c, id, scope, password)
       \/ Delete(c, id)
       \/ PrepareFill(c, id)

-----------------------------------------------------------------------------
(* Properties.                                                             *)

ProfileTypeOK ==
  /\ phase \in [Clients -> {"new", "open", "writing", "renamed", "closed"}]
  /\ persistent \in [Clients -> BOOLEAN]
  /\ store \in [Clients -> Stores]
  /\ proposed \in [Clients -> Stores]
  /\ file \in Stores
  /\ kept \subseteq Stores
  /\ prepared \in Prepared \cup {NULL}
  /\ issued \subseteq Ids
  /\ reported \in [Clients -> {"ok", "failed"}]
  /\ gone \subseteq issued

\* "reports persistent storage failures instead of silently treating them as
\* success": the memory of a client is the file, or is behind it by one commit
\* that is still running or was reported as failed.
MemoryBehindFile ==
  \A c \in Clients : Holds(c) =>
    \/ store[c] = file
    \/ /\ file.generation = store[c].generation + 1
       /\ phase[c] = "renamed" \/ reported[c] = "failed"

\* A profile that a commit has removed comes back neither from the file nor
\* from the memory of a client that writes it, whichever clients, failures and
\* ends of processes come after.  A power failure may bring it back where the
\* rename was not synced: it is not counted as removed any more.
DeletedStaysDeleted ==
  \A id \in gone :
    /\ ~Has(file, id)
    /\ \A c \in Clients : Holds(c) => ~Has(store[c], id) /\ ~Has(proposed[c], id)

\* A prepared value that is accepted stands for the very profile the user saw,
\* across failed commits, restarts and power failures.
PreparedBinds ==
  prepared # NULL =>
    \A c \in Clients : BelongsTo(prepared, c) =>
      prepared.profile = store[c].profiles[prepared.id]

\* A saved password is only ever stored with the account and the method it was
\* given for.
OwnPasswords(s) ==
  \A id \in DOMAIN s.profiles : s.profiles[id].password \in {NULL, s.profiles[id].scope}
PasswordsBound ==
  /\ \A c \in Clients : OwnPasswords(store[c]) /\ OwnPasswords(proposed[c])
  /\ \A s \in kept \cup {file} : OwnPasswords(s)

=============================================================================
