----------------------------- MODULE GitPublish -----------------------------
(***************************************************************************)
(* One Git repository kept on an object store (buzz-relay, api/git):       *)
(* immutable packs and manifests, and one mutable pointer that names the   *)
(* current manifest.  A push hydrates a private workspace from the pointed *)
(* manifest, runs receive-pack in it, uploads what is new and swaps the    *)
(* pointer with a conditional PUT; only then is the kind:30618 ref-state   *)
(* event stored and the client answered.  Any number of relays serve the   *)
(* repository; nothing but the conditional PUT orders their writes.        *)
(*                                                                         *)
(* Digests are represented by the content they are the digest of: a        *)
(* manifest holds its parent manifest, the pointer holds its manifest and  *)
(* the pointer's ETag is its body.  A pack is the set of objects in it.    *)
(***************************************************************************)
EXTENDS Naturals, FiniteSets, SequencesExt

CONSTANTS
    Refs, Oids, Nil, Pushes,
    Main,         \* refs/heads/main, the HEAD of a new repository
    Reach,        \* commit -> the commits reachable from it, itself included
    MaxPacks,     \* MAX_MANIFEST_PACKS
    CompactAt,    \* the compaction threshold
    Announces,    \* kind:30617 events of the owner for this repository
    Starts        \* the sequences of manifests the pointer may have named before

ASSUME GraphAssumption ==
    /\ Nil \notin Oids
    /\ Main \in Refs
    /\ Reach \in [Oids -> SUBSET Oids]
    /\ \A o \in Oids : o \in Reach[o] /\ \A q \in Reach[o] : Reach[q] \subseteq Reach[o]
ASSUME PacksAssumption ==
    MaxPacks \in Nat \ {0} /\ CompactAt \in Nat /\ CompactAt <= MaxPacks
ASSUME NamesAssumption ==      \* object ids have a fixed width
    IsFiniteSet(Oids) /\ Pushes \cap Announces = {}

VARIABLES
    packs,       \* pack objects in the store
    manifests,   \* manifest objects in the store
    pointer,     \* the manifest the pointer names, Nil when there is none
    puts,        \* conditional pointer PUTs on their way to the store
    push,        \* push -> what its client and its handler know
    row,         \* is the name reserved for the owner in git_repo_names?
    ann,         \* announcement -> where its handler is
    notice,      \* the ref map in the newest kind:30618 event, Nil when none
    landed,      \* history: pushes whose pointer PUT took effect
    installed    \* history: manifests the pointer has named

store == <<packs, manifests, pointer, puts>>
hist  == <<landed, installed>>
vars  == <<packs, manifests, pointer, puts, push, row, ann, notice, landed, installed>>

---------------------------------------------------------------------------
(* Manifests and packs.                                                    *)

NoRefs     == [r \in Refs |-> Nil]
Tips(refs) == {refs[r] : r \in Refs} \ {Nil}
Closure(S) == UNION {Reach[o] : o \in S}
Branches(refs) == {r \in Refs : refs[r] # Nil}

Empty == [head |-> Main, refs |-> NoRefs, packs |-> {}, parent |-> Nil]

\* The manifest a push builds on; a missing pointer is an empty repository.
Base(m) == IF m = Nil THEN Empty ELSE m

\* HEAD stays on a branch that exists whenever one does.
PublishedHead(refs, head) ==
    IF head \in Branches(refs) \/ Branches(refs) = {} THEN head
    ELSE IF Main \in Branches(refs) THEN Main
    ELSE CHOOSE r \in Branches(refs) : TRUE

\* git pack-objects --revs over the tips after, minus what the parent's reach.
Delta(refs, parent) == Closure(Tips(refs)) \ Closure(Tips(parent.refs))

\* The packs a full repack may leave: one, or several when --max-pack-size
\* splits the output, each object in one of them.
Repacks(refs) ==
    LET all == Closure(Tips(refs)) IN
    {ps \in SUBSET ((SUBSET all) \ {{}}) :
        /\ UNION ps = all
        /\ \A x, y \in ps : x # y => x \cap y = {}}

compacted_pack_set_is_usable(before, after) ==
    after < before \/ (before >= MaxPacks /\ after <= MaxPacks)

\* Mutant of Compose: the manifest does not name its parent.
ComposeUnchained(refs, parent, ps) ==
    [head |-> PublishedHead(refs, Base(parent).head), refs |-> refs, packs |-> ps,
     parent |-> Nil]

Compose(refs, parent, ps) ==
    [head |-> PublishedHead(refs, Base(parent).head), refs |-> refs, packs |-> ps,
     parent |-> parent]

\* The manifests cas_publish may write for a push whose workspace, hydrated
\* from parent, ended with refs: the repacked one from the threshold on, and
\* the one with a delta pack when there was no repack or it failed.
Repacked(refs, parent) ==
    LET before == Cardinality(Base(parent).packs) IN
    {Compose(refs, parent, ps) :
        ps \in {x \in Repacks(refs) :
                  before >= CompactAt /\ compacted_pack_set_is_usable(before, Cardinality(x))}}

\* Mutant of Extended: off by one at MAX_MANIFEST_PACKS.
ExtendedOnceMore(refs, parent) ==
    LET old == Base(parent).packs
        new == Delta(refs, Base(parent))
    IN  IF new = {} THEN {Compose(refs, parent, old)}
        ELSE IF Cardinality(old) > MaxPacks THEN {}
        ELSE {Compose(refs, parent, old \cup {new})}

Extended(refs, parent) ==
    LET old == Base(parent).packs
        new == Delta(refs, Base(parent))
    IN  IF new = {} THEN {Compose(refs, parent, old)}
        ELSE IF Cardinality(old) >= MaxPacks THEN {}
        ELSE {Compose(refs, parent, old \cup {new})}

CandidateManifests(refs, parent) == Repacked(refs, parent) \cup Extended(refs, parent)

\* A manifest's fields, and what hydration asks of it: its packs hold every
\* commit its refs reach, there are no more of them than MaxPacks, and HEAD is
\* a branch if there is one.
WellFormed(m) ==
    /\ DOMAIN m = {"head", "refs", "packs", "parent"}
    /\ m.head \in Refs
    /\ m.refs \in [Refs -> Oids \cup {Nil}]
    /\ m.packs \in SUBSET SUBSET Oids

Whole(m) ==
    /\ Closure(Tips(m.refs)) \subseteq UNION m.packs
    /\ Cardinality(m.packs) <= MaxPacks
    /\ Branches(m.refs) # {} => m.head \in Branches(m.refs)

\* The manifests a pointer has named so far, each the parent of the next.
History(h) ==
    /\ h \in Seq(Range(h))
    /\ \A i \in DOMAIN h :
         /\ h[i] # Nil /\ WellFormed(h[i]) /\ Whole(h[i])
         /\ h[i].parent = IF i = 1 THEN Nil ELSE h[i - 1]
         /\ \A j \in DOMAIN h : h[i] = h[j] => i = j

ASSUME StartsAssumption == \A h \in Starts : History(h)

---------------------------------------------------------------------------
\* A push before its workspace exists, and after it is gone.
Request(at, want, sent) ==
    [at |-> at, want |-> want, sent |-> sent, parent |-> Nil, next |-> Nil]

Init ==
    /\ \E h \in Starts :
         /\ installed = Range(h) /\ manifests = Range(h)
         /\ packs = UNION {m.packs : m \in Range(h)}
         /\ pointer = IF h = <<>> THEN Nil ELSE Last(h)
         /\ notice = IF h = <<>> THEN Nil ELSE Last(h).refs
         /\ row = (h # <<>>)
    /\ puts = {}
    /\ push = [p \in Pushes |-> Request("idle", Nil, {})]
    /\ ann = [a \in Announces |-> [at |-> "idle", fresh |-> FALSE]]
    /\ landed = {}

---------------------------------------------------------------------------
(* Pushing.  A push ends in an answer: "success", git's report accepting   *)
(* every ref; "rejected" and "partial", a report refusing all of them or    *)
(* some; "refused", a 4xx; "conflict", the 409; and "error", which stands   *)
(* for every 5xx, a lost connection and a relay that died, none of which    *)
(* tells whether a PUT already sent takes effect.                           *)

Answers == {"success", "rejected", "partial", "refused", "conflict", "error"}

\* The parent is kept for what a 409 says about it.
Answered(p, a) == [push EXCEPT ![p] = [Request(a, Nil, {}) EXCEPT !.parent = push[p].parent]]

\* The client reads the advertisement, decides what to move and packs what
\* the advertised refs do not reach.  An absent repository is advertised as
\* an error, but the POST does not depend on it.
Advertise(p) ==
    /\ push[p].at = "idle"
    /\ LET seen == Base(pointer).refs IN
       \E D \in (SUBSET Refs) \ {{}} : \E new \in [D -> Oids \cup {Nil}] :
          /\ \A r \in D : new[r] # seen[r]
          /\ push' = [push EXCEPT ![p] =
                        Request("posting", [r \in D |-> <<seen[r], new[r]>>],
                                Closure({new[r] : r \in D} \ {Nil}) \ Closure(Tips(seen)))]
    /\ UNCHANGED <<store, row, ann, notice, hist>>

\* What receive-pack accepts in a workspace hydrated from m: the ref still
\* has the value the client saw, and nothing its new value reaches is missing.
Acceptable(p, m) ==
    {r \in DOMAIN push[p].want :
        /\ m.refs[r] = push[p].want[r][1]
        /\ \/ push[p].want[r][2] = Nil
           \/ Reach[push[p].want[r][2]] \subseteq (UNION m.packs) \cup push[p].sent}

\* The refs of the workspace once receive-pack has moved what it accepted.
RefsAfter(p, m) ==
    [r \in Refs |-> IF r \in DOMAIN push[p].want THEN push[p].want[r][2] ELSE m.refs[r]]

\* The pre-receive hook, which asks the policy about the stored announcement,
\* or a failed unpack rejects all of the refs; git rejects the rest one by
\* one.  A push with a rejected ref publishes nothing, and the report goes to
\* the client as git wrote it.
Reject(p) ==
    /\ push[p].at = "posting"
    /\ \E ok \in {{}, Acceptable(p, Base(pointer))} \ {DOMAIN push[p].want} :
         push' = Answered(p, IF ok = {} THEN "rejected" ELSE "partial")
    /\ UNCHANGED <<store, row, ann, notice, hist>>

\* hydrate_for_write, receive-pack and cas_publish up to the manifest:
\* snapshot, repack or delta, packs, manifest.  The workspace is private and
\* what is uploaded has no name yet, so only the pointer read is shared.
Prepare(p) ==
    /\ push[p].at = "posting"
    /\ pointer # Nil \/ \E a \in Announces : ann[a].at # "idle"
    /\ Acceptable(p, Base(pointer)) = DOMAIN push[p].want
    /\ \E m \in CandidateManifests(RefsAfter(p, Base(pointer)), pointer) :
         /\ packs' = packs \cup m.packs
         /\ manifests' = manifests \cup {m}
         /\ push' = [push EXCEPT ![p].at = "uploaded", ![p].sent = {},
                                 ![p].parent = pointer, ![p].next = m]
    /\ UNCHANGED <<pointer, puts, row, ann, notice, hist>>

\* A resource limit, an unusable repack of a full manifest or an invalid
\* manifest: refused before anything is put at the pointer.
Refuse(p) ==
    /\ push[p].at = "posting"
    /\ push' = Answered(p, "refused")
    /\ UNCHANGED <<store, row, ann, notice, hist>>

\* Mutant of PutPointer: the ETag is read again, not taken from hydration.
PutPointerFreshEtag(p) ==
    /\ push[p].at = "uploaded"
    /\ puts' = puts \cup {[by |-> p, expect |-> pointer, body |-> push[p].next]}
    /\ push' = [push EXCEPT ![p].at = "swapping"]
    /\ UNCHANGED <<packs, manifests, pointer, row, ann, notice, hist>>

\* put_pointer leaves the relay: If-Match on the ETag the workspace was
\* hydrated from, If-None-Match: * when there was no pointer.
PutPointer(p) ==
    /\ push[p].at = "uploaded"
    /\ puts' = puts \cup {[by |-> p, expect |-> push[p].parent, body |-> push[p].next]}
    /\ push' = [push EXCEPT ![p].at = "swapping"]
    /\ UNCHANGED <<packs, manifests, pointer, row, ann, notice, hist>>

\* The store decides on a conditional PUT.  The S3 client sends a request
\* again that failed on its way, so that, as long as the handler waits for an
\* answer, a further copy may be in flight when one is decided; copies are
\* the same element of puts.
Precondition(put) == pointer = put.expect

Waits(put) == IF put.by \in Pushes THEN push[put.by].at = "swapping"
              ELSE ann[put.by].at = "creating"

Resent(put) == Waits(put) /\ puts' = puts

StoreDecides(put) ==
    /\ puts' = puts \ {put} \/ Resent(put)
    /\ pointer' = IF Precondition(put) THEN put.body ELSE pointer
    /\ installed' = (installed \cup {pointer'}) \ {Nil}
    /\ UNCHANGED <<packs, manifests, row, notice>>

\* A handler that still waits hears of the decision, unless this answer is
\* the one that was lost: 412 is a lost race, even after a copy that landed.
Heard(put) ==
    IF ~Waits(put) THEN push
    ELSE IF Precondition(put) THEN [push EXCEPT ![put.by].at = "committed"]
    ELSE Answered(put.by, "conflict")

PushDecided(put) ==
    /\ put.by \in Pushes
    /\ StoreDecides(put)
    /\ landed' = landed \cup (IF Precondition(put) THEN {put.by} ELSE {})
    /\ push' = Heard(put) \/ (Resent(put) /\ push' = push)
    /\ UNCHANGED ann

\* The kind:30618 event is derived from the committed manifest, and stored
\* before the client hears of success.  The manifest names its parent, so it
\* never equals it: the test for an unchanged manifest always passes.
PublishRefState(p) ==
    /\ push[p].at = "committed"
    /\ notice' = push[p].next.refs
    /\ push' = Answered(p, "success")
    /\ UNCHANGED <<store, row, ann, hist>>

\* Mutant of Fail: an unanswered PUT is reported as a lost race.
FailAsConflict(p) ==
    /\ push[p].at \in {"swapping", "committed"}
    /\ push' = Answered(p, "conflict")
    /\ UNCHANGED <<store, row, ann, notice, hist>>

\* A handler stops once its PUT is on its way: no answer or an error from the
\* store, a lost serving lease, a failed 30618 insert, a crash.  The PUT
\* travels on.  (One that stops earlier leaves objects nothing names; here it
\* stays where it is.)
Fail(p) ==
    /\ push[p].at \in {"swapping", "committed"}
    /\ push' = [push EXCEPT ![p].at = "error"]
    /\ UNCHANGED <<store, row, ann, notice, hist>>

---------------------------------------------------------------------------
(* Announcing: the name is reserved in Postgres, the pointer is seeded with *)
(* the empty manifest.                                                      *)

Step(a, from, to) == ann[a].at = from /\ ann' = [ann EXCEPT ![a].at = to]

\* The kind:30617 event is stored first; its side effects run afterwards.
StoreAnnouncement(a) ==
    /\ Step(a, "idle", "stored")
    /\ UNCHANGED <<store, push, row, notice, hist>>

\* repo_name_owner, read before anything is claimed.
PeekOwner(a) ==
    /\ Step(a, "stored", IF row THEN "ensuring" ELSE "unowned")
    /\ UNCHANGED <<store, push, row, notice, hist>>

\* reserve_repo_name: only the statement that inserts the row is fresh.
ReserveName(a) ==
    /\ ann[a].at = "unowned"
    /\ row' = TRUE
    /\ ann' = [ann EXCEPT ![a] = IF row THEN [at |-> "ensuring", fresh |-> FALSE]
                                 ELSE [at |-> "seeding", fresh |-> TRUE]]
    /\ UNCHANGED <<store, push, notice, hist>>

\* ensure_manifest_pointer: any pointer will do, a missing one is seeded.
EnsurePointer(a) ==
    /\ Step(a, "ensuring", IF pointer # Nil THEN "accepted" ELSE "seeding")
    /\ UNCHANGED <<store, push, row, notice, hist>>

\* seed_manifest_pointer: the empty manifest, and a create-only PUT.
SeedPointer(a) ==
    /\ Step(a, "seeding", "creating")
    /\ manifests' = manifests \cup {Empty}
    /\ puts' = puts \cup {[by |-> a, expect |-> Nil, body |-> Empty]}
    /\ UNCHANGED <<packs, pointer, push, row, notice, hist>>

Seeded(a) == IF ann[a].fresh THEN "emitting" ELSE "accepted"
Failed(a) == IF ann[a].fresh THEN "releasing" ELSE "failed"

SeedHeard(put) ==
    IF ~Waits(put) THEN ann
    ELSE [ann EXCEPT ![put.by].at = IF Precondition(put) THEN Seeded(put.by) ELSE "rereading"]

SeedDecided(put) ==
    /\ put.by \in Announces
    /\ StoreDecides(put)
    /\ ann' = SeedHeard(put) \/ (Resent(put) /\ ann' = ann)
    /\ UNCHANGED <<push, landed>>

\* A lost create is a success only if the pointer names the empty manifest.
RereadPointer(a) ==
    /\ Step(a, "rereading", IF pointer = Empty THEN Seeded(a) ELSE Failed(a))
    /\ UNCHANGED <<store, push, row, notice, hist>>

\* release_repo_name, by the attempt that inserted the row only.
ReleaseName(a) ==
    /\ Step(a, "releasing", "failed")
    /\ row' = FALSE
    /\ UNCHANGED <<store, push, notice, hist>>

\* The first kind:30618 event of the repository, with no refs in it.
EmitInitialRefState(a) ==
    /\ Step(a, "emitting", "accepted")
    /\ notice' \in {NoRefs, notice}      \* a failed insert is only logged
    /\ UNCHANGED <<store, push, row, hist>>

\* The store or the database answers with an error, or not at all.
AnnouncementFails(a) ==
    /\ \/ Step(a, "stored", "failed")  \/ Step(a, "unowned", "failed")
       \/ Step(a, "ensuring", "failed")
       \/ Step(a, "seeding", Failed(a)) \/ Step(a, "creating", Failed(a))
       \/ Step(a, "rereading", Failed(a))
       \/ Step(a, "releasing", "failed")
    /\ UNCHANGED <<store, push, row, notice, hist>>

---------------------------------------------------------------------------
PushStep(p) ==
    \/ Advertise(p) \/ Reject(p) \/ Prepare(p) \/ Refuse(p)
    \/ PutPointer(p) \/ PublishRefState(p) \/ Fail(p)

AnnounceStep(a) ==
    \/ StoreAnnouncement(a) \/ PeekOwner(a) \/ ReserveName(a) \/ EnsurePointer(a)
    \/ SeedPointer(a) \/ RereadPointer(a) \/ ReleaseName(a)
    \/ EmitInitialRefState(a) \/ AnnouncementFails(a)

Next ==
    \/ \E p \in Pushes : PushStep(p)
    \/ \E a \in Announces : AnnounceStep(a)
    \/ \E put \in puts : PushDecided(put) \/ SeedDecided(put)

Spec == Init /\ [][Next]_vars

---------------------------------------------------------------------------
(* Properties.                                                             *)

\* Everything in the store and in the handlers has the shape the code gives
\* it, and what a manifest names as its parent has itself been stored.
TypeOK ==
    /\ packs \in SUBSET SUBSET Oids
    /\ \A m \in manifests : WellFormed(m) /\ m.parent \in manifests \cup {Nil}
    /\ pointer \in manifests \cup {Nil}
    /\ \A put \in puts : /\ put.by \in Pushes \cup Announces
                         /\ put.body \in manifests
                         /\ put.expect \in manifests \cup {Nil}
    /\ \A p \in Pushes :
         /\ push[p].at \in {"idle", "posting", "uploaded", "swapping", "committed"} \cup Answers
         /\ push[p].parent \in manifests \cup {Nil}
         /\ push[p].next \in manifests \cup {Nil}
    /\ row \in BOOLEAN
    /\ notice \in [Refs -> Oids \cup {Nil}] \cup {Nil}
    /\ landed \subseteq Pushes /\ installed \subseteq manifests

\* Whatever the pointer has named can be cloned for ever: all of its packs
\* are in the store, they hold every commit its refs reach, there are no
\* more of them than hydration accepts, and HEAD is a branch if there is one
\* (materialize_manifest, capture_pack, capture_compacted_packs).
Cloneable ==
    \A m \in installed : m.packs \subseteq packs /\ Whole(m)

\* Pushes to the object store are pushes to one ref map: each takes effect
\* whole, at one instant at which every ref had the value its client saw,
\* and at most once; nothing else moves a ref (ParentState, put_pointer).
RefMap == INSTANCE RefStore WITH
    refs <- Base(pointer).refs, want <- [p \in Pushes |-> push[p].want], done <- landed
PushesAreAtomic == RefMap!Spec

\* The pointer never goes back to a manifest it has named before, so that a
\* matching ETag means nobody has written in between (Manifest.parent).
NeverReinstalled == [][pointer' # pointer => pointer' \notin installed]_vars

\* Somebody has published since the pointer named m.
Superseded(m) == pointer # m /\ m \in installed \cup {Nil}

\* Any answer but an error settles the push for its client
\* (finalize_push_inner).  Success: it took effect.  A rejection, whole or of
\* some refs, and a refusal: nothing of it was published or will be; about
\* single refs a partial report says more than that, and not the truth.  The
\* 409: the manifest it was built on is no longer the current one, and no
\* copy of its PUT can take effect any more, though one may have.
AnswersSettle ==
    \A p \in Pushes :
        /\ push[p].at = "success" => p \in landed
        /\ push[p].at \in {"rejected", "partial", "refused"} =>
             p \notin landed /\ \A put \in puts : put.by # p
        /\ push[p].at = "conflict" =>
             /\ Superseded(push[p].parent)
             /\ \A put \in puts : put.by = p => Superseded(put.expect)

\* The kind:30618 event never shows refs that were not published: what it
\* carries was in an installed manifest (PublishRefState after the swap).
NoticeWasPublished ==
    notice # Nil => \E m \in installed : m.refs = notice

\* An announcement whose handler ends well leaves a repository that can be
\* cloned, for good, whatever its siblings and the pushers do
\* (ensure_manifest_pointer).  The event itself is accepted in any case.
AcceptedIsCloneable ==
    \A a \in Announces : ann[a].at = "accepted" => pointer # Nil

\* What readers find is whole: everything published or accepted can be
\* cloned, and the ref-state event shows nothing that was not published.
StoreInv == TypeOK /\ Cloneable /\ AcceptedIsCloneable /\ NoticeWasPublished
=============================================================================
