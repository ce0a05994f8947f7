-------------------------- MODULE AgreementProofs --------------------------
(***************************************************************************)
(* What is proved of the parts that keep what one side holds in agreement  *)
(* with the other: the rows of the database with the containers            *)
(* (Reconciler), for any number of applications, changes of the host,      *)
(* rewritten rows, failures and lost streams; a user's preferences with    *)
(* the server's record (Preferences), saved by two components and by other *)
(* browsers; and the operations the browser follows with the ones the      *)
(* server runs (InstallTracking), told by answers, events and lookups.     *)
(*                                                                         *)
(*   - Reconciler: a resync under way writes what it saw, and what it saw  *)
(*     is what there is while no event is pending;                         *)
(*   - Preferences: a record of the server's revision is the server's, and *)
(*     a document of that revision repeats what it may not change; for     *)
(*     PreferencesSync, whose revision and name come from two records,     *)
(*     this is an invariant of its own;                                    *)
(*   - InstallTracking: the armed timer drops what is finished now, and    *)
(*     every operation the browser names has been served.                  *)
(***************************************************************************)
EXTENDS MCAgreement, InstallTracking, SequenceTheorems, FiniteSetTheorems, TLAPS

-----------------------------------------------------------------------------
(* Reconciler: the inductive invariant. *)

\* Nothing counts as seen without a stream, and one is opened between resyncs.
SeenInStream ==
    /\ phase = "dial" => resync = Nothing
    /\ phase # "streaming" => \A a \in App : unseen[a]

\* A resync that has listed the rows and not yet the containers leaves out
\* only rows that are not installed.
ListsInstalled ==
    phase = "streaming" /\ resync # Nothing /\ resync.step = "containers" =>
        \A a \in App \ resync.todo : unseen[a] \/ ~IsInstalled(a)

\* What a resync has written is what it saw, and while no event is pending what
\* it saw is what there is.
WritesWhatItSaw ==
    phase = "streaming" /\ resync # Nothing /\ resync.step = "write" =>
        /\ pending = 0 => resync.seen = host
        /\ \A a \in App \ resync.todo :
              unseen[a] \/ (IsInstalled(a) => row[a].runtime = RuntimeIn(resync.seen, a))

IInv == TypeOK /\ SeenInStream /\ ListsInstalled /\ WritesWhatItSaw /\ AccurateWhenQuiet

-----------------------------------------------------------------------------
\* A runtime is one of the three of the column.
LEMMA RuntimeIsOne ==
    ASSUME NEW h, NEW a PROVE RuntimeIn(h, a) \in {"", "running", "stopped", "degraded"}
    BY DEF RuntimeIn

\* No record of a resync or row is taken for none.
LEMMA NothingElse == Nothing \notin Row /\ Nothing \notin Resync
    BY NothingIsNoValue

LEMMA InitIInv == Init => IInv
    BY DEF Init, IInv, TypeOK, SeenInStream, ListsInstalled, WritesWhatItSaw,
           AccurateWhenQuiet, Host, Situation, Phase

LEMMA NextIInv ==
    ASSUME IInv, [Next]_vars
    PROVE  IInv'
<1> USE NothingElse DEF IInv, TypeOK
<1>1. CASE UNCHANGED vars
    BY <1>1 DEF vars, bounds, SeenInStream, ListsInstalled, WritesWhatItSaw, AccurateWhenQuiet,
                Accurate, IsInstalled
<1>2. CASE ListInstances
    <2> USE <1>2 DEF ListInstances, bounds
    <2>1. TypeOK'
        BY DEF Resync, IsInstalled
    <2>2. SeenInStream'
        BY DEF SeenInStream
    <2>3. ListsInstalled'
        BY DEF ListsInstalled, IsInstalled
    <2>4. WritesWhatItSaw' /\ AccurateWhenQuiet'
        BY DEF WritesWhatItSaw, AccurateWhenQuiet, Resync, IsInstalled
    <2> QED
        BY <2>1, <2>2, <2>3, <2>4
<1>3. CASE ListContainers
    <2> USE <1>3 DEF ListContainers, bounds
    <2>1. CASE resync.todo = {}
        <3> USE <2>1 DEF Succeed
        <3>1. TypeOK'
            BY DEF Phase
        <3>2. SeenInStream' /\ ListsInstalled' /\ WritesWhatItSaw'
            BY DEF SeenInStream, ListsInstalled, WritesWhatItSaw
        <3>3. AccurateWhenQuiet'
            BY DEF AccurateWhenQuiet, Accurate, ListsInstalled, IsInstalled
        <3> QED
            BY <3>1, <3>2, <3>3
    <2>2. CASE resync.todo # {}
        <3> USE <2>2
        <3>1. TypeOK'
            BY DEF Resync
        <3>2. resync' # Nothing /\ resync'.step = "write" /\ resync'.seen = host
              /\ resync'.todo = resync.todo
            <4> DEFINE r == [resync EXCEPT !.step = "write", !.seen = host]
            <4>1. r \in Resync /\ r.step = "write" /\ r.seen = host /\ r.todo = resync.todo
                BY DEF Resync
            <4>2. resync' = r
                OBVIOUS
            <4> QED
                BY <4>1, <4>2
        <3>3. SeenInStream' /\ ListsInstalled' /\ AccurateWhenQuiet'
            BY <3>2 DEF SeenInStream, ListsInstalled, AccurateWhenQuiet
        <3>4. WritesWhatItSaw'
            BY <3>2 DEF WritesWhatItSaw, ListsInstalled, IsInstalled
        <3> QED
            BY <3>1, <3>3, <3>4
    <2> QED
        BY <2>1, <2>2
<1>4. CASE OpenStream
    BY <1>4 DEF OpenStream, bounds, Phase, SeenInStream, ListsInstalled, WritesWhatItSaw,
                AccurateWhenQuiet
<1>5. CASE Retry
    BY <1>5 DEF Retry, bounds, Phase, SeenInStream, ListsInstalled, WritesWhatItSaw,
                AccurateWhenQuiet
<1>6. ASSUME NEW a \in App, UpdateInstanceRuntime(a)
      PROVE  IInv'
    <2>1. CASE row[a] = Nothing
        <3>1. GiveUp /\ UNCHANGED <<host, row, bounds>>
            BY <1>6, <2>1, Zenon DEF UpdateInstanceRuntime
        <3> QED
            BY <3>1 DEF bounds, GiveUp, Phase, SeenInStream, ListsInstalled,
                       WritesWhatItSaw, AccurateWhenQuiet
    <2>2. CASE row[a] # Nothing
        <3> USE <1>6, <2>2 DEF UpdateInstanceRuntime, bounds
        <3>1. row' = [row EXCEPT ![a] = [row[a] EXCEPT !.runtime = RuntimeIn(resync.seen, a),
                                                       !.lastError = FALSE]]
            OBVIOUS
        <3>2. row[a] \in Row /\ row'[a] \in Row
            BY <3>1, RuntimeIsOne DEF Row
        <3>3. /\ row'[a].runtime = RuntimeIn(resync.seen, a)
              /\ \A b \in App \ {a} : row'[b] = row[b]
            BY <3>1, <3>2 DEF Row
        <3>4. phase = "streaming" =>
              \A b \in (App \ resync.todo) \cup {a} :
                  unseen[b] \/ (IsInstalled(b)' => row'[b].runtime = RuntimeIn(resync.seen, b))
            BY <3>3 DEF WritesWhatItSaw, IsInstalled
        <3>5. CASE resync.todo = {a}
            <4> USE <3>5 DEF Succeed
            <4>1. TypeOK'
                BY <3>1, <3>2 DEF Phase
            <4>2. SeenInStream' /\ ListsInstalled' /\ WritesWhatItSaw'
                BY DEF SeenInStream, ListsInstalled, WritesWhatItSaw
            <4>3. AccurateWhenQuiet'
                <5>1. SUFFICES ASSUME phase = "streaming", pending = 0, NEW b \in App
                               PROVE  unseen[b] \/ Accurate(b)'
                    BY DEF AccurateWhenQuiet, SeenInStream
                <5>2. resync.seen = host
                    BY <5>1 DEF WritesWhatItSaw
                <5> QED
                    BY <3>4, <5>1, <5>2 DEF Accurate
            <4> QED
                BY <4>1, <4>2, <4>3
        <3>6. CASE resync.todo # {a}
            <4> USE <3>6
            <4>1. TypeOK'
                BY <3>1, <3>2 DEF Resync
            <4>2. resync' # Nothing /\ resync'.step = "write" /\ resync'.seen = resync.seen
                  /\ resync'.todo = resync.todo \ {a}
                BY DEF Resync
            <4>3. SeenInStream' /\ ListsInstalled' /\ AccurateWhenQuiet'
                BY <4>2 DEF SeenInStream, ListsInstalled, AccurateWhenQuiet
            <4>4. WritesWhatItSaw'
                BY <3>4, <4>2 DEF WritesWhatItSaw
            <4> QED
                BY <4>1, <4>3, <4>4
        <3> QED
            BY <3>5, <3>6
    <2> QED
        BY <2>1, <2>2
<1>7. CASE ResyncFails
    BY <1>7 DEF ResyncFails, GiveUp, Fault, Phase, SeenInStream, ListsInstalled,
                WritesWhatItSaw, AccurateWhenQuiet
<1>8. CASE LoseStream
    BY <1>8 DEF LoseStream, Fault, Phase, SeenInStream, ListsInstalled, WritesWhatItSaw,
                AccurateWhenQuiet
<1>9. ASSUME NEW a \in App, Execute(a)
      PROVE  IInv'
    <2>1. PICK r \in Row \cup {Nothing} : Rewrite(a, r)
        BY <1>9 DEF Execute, SettleInstance, FailInstance, DeleteInstance, Row
    <2> USE <2>1 DEF Rewrite
    <2>2. TypeOK'
        OBVIOUS
    <2>3. unseen'[a] /\ \A b \in App \ {a} : unseen'[b] = unseen[b] /\ row'[b] = row[b]
        OBVIOUS
    <2>4. SeenInStream' /\ ListsInstalled'
        BY <2>3 DEF SeenInStream, ListsInstalled, IsInstalled
    <2>5. WritesWhatItSaw' /\ AccurateWhenQuiet'
        BY <2>3 DEF WritesWhatItSaw, AccurateWhenQuiet, Accurate, IsInstalled
    <2> QED
        BY <2>2, <2>4, <2>5
<1>10. ASSUME NEW a \in App, NEW situation \in Situation, ChangeHost(a, situation)
       PROVE  IInv'
    <2> USE <1>10 DEF ChangeHost
    <2>1. TypeOK'
        BY DEF Host
    <2>2. SeenInStream' /\ ListsInstalled'
        BY DEF SeenInStream, ListsInstalled, IsInstalled
    <2>3. phase = "streaming" => pending' # 0
        OBVIOUS
    <2>4. WritesWhatItSaw' /\ AccurateWhenQuiet'
        BY <2>3 DEF WritesWhatItSaw, AccurateWhenQuiet, IsInstalled
    <2> QED
        BY <2>1, <2>2, <2>4
<1> QED
    BY <1>1, <1>2, <1>3, <1>4, <1>5, <1>6, <1>7, <1>8, <1>9, <1>10 DEF Next, Reconcile

-----------------------------------------------------------------------------
(* The theorems *)

\* The invariant holds in every reachable state.
THEOREM Invariance == Spec => []IInv
    BY InitIInv, NextIInv, PTL DEF Spec

\* The state of Run and Resync (reconciler.go) has its types.
THEOREM TypeCorrect == Spec => []TypeOK
    BY Invariance, PTL DEF IInv

\* When the stream has no event left, a row that was listed since it opened and
\* not rewritten since is what the host runs (Resync, reconciler.go), however
\* many changes, rewrites and resyncs overlapped.
THEOREM QuietIsAccurate == Spec => []AccurateWhenQuiet
    BY Invariance, PTL DEF IInv

\* One step of anything but an executor leaves the status of every row alone.
LEMMA StatusIsKept ==
    ASSUME IInv, [Next]_vars, rewrites' = rewrites, NEW a \in App
    PROVE  /\ row[a] = Nothing <=> row'[a] = Nothing
           /\ row[a] # Nothing => row'[a].status = row[a].status
<1> USE NothingElse DEF IInv, TypeOK
<1>1. CASE UNCHANGED row
    BY <1>1
<1>2. ASSUME NEW b \in App, UpdateInstanceRuntime(b), row[b] # Nothing
      PROVE  /\ row[a] = Nothing <=> row'[a] = Nothing
             /\ row[a] # Nothing => row'[a].status = row[a].status
    <2>1. row' = [row EXCEPT ![b] = [row[b] EXCEPT !.runtime = RuntimeIn(resync.seen, b),
                                                   !.lastError = FALSE]]
        BY <1>2 DEF UpdateInstanceRuntime
    <2>2. row[b] \in Row /\ row'[b] \in Row /\ row'[b].status = row[b].status
        BY <1>2, <2>1, RuntimeIsOne DEF Row
    <2> QED
        BY <1>2, <2>1, <2>2
<1>3. ASSUME NEW b \in App, Execute(b) PROVE FALSE
    <2>1. PICK r : Rewrite(b, r)
        BY <1>3, Zenon DEF Execute, SettleInstance, FailInstance, DeleteInstance
    <2> QED
        BY <2>1 DEF Rewrite
<1> QED
    BY <1>1, <1>2, <1>3 DEF Next, Reconcile, vars, ListInstances, ListContainers, OpenStream,
       Retry, UpdateInstanceRuntime, ResyncFails, LoseStream, ChangeHost

\* The reconciler writes what it observed to runtime_status, "never to desired
\* state" (docs/docker-architecture.md): UpdateInstanceRuntime is its only write.
THEOREM DesiredStateIsKept == Spec => DesiredStateIsTheInstallers
<1>1. IInv /\ [Next]_vars =>
        [rewrites' = rewrites =>
            \A a \in App : /\ row[a] = Nothing <=> row'[a] = Nothing
                           /\ row[a] # Nothing => row'[a].status = row[a].status]_vars
    BY StatusIsKept
<1> QED
    BY <1>1, Invariance, PTL DEF Spec, DesiredStateIsTheInstallers

-----------------------------------------------------------------------------
(* Sequences of requests under way. *)

\* A request that is answered leaves the others.
LEMMA RemovedAt ==
    ASSUME NEW S, NEW s \in Seq(S), NEW i \in 1..Len(s)
    PROVE  /\ RemoveAt(s, i) \in Seq(S) /\ Len(RemoveAt(s, i)) = Len(s) - 1
           /\ \A j \in 1..Len(s) - 1 : RemoveAt(s, i)[j] = IF j < i THEN s[j] ELSE s[j + 1]
<1> DEFINE left == SubSeq(s, 1, i - 1)
           right == SubSeq(s, i + 1, Len(s))
<1>1. /\ left \in Seq(S) /\ Len(left) = i - 1
      /\ right \in Seq(S) /\ Len(right) = Len(s) - i
      /\ \A j \in 1..i - 1 : left[j] = s[j]
      /\ \A j \in 1..Len(s) - i : right[j] = s[i + j]
    <2>1. \A j \in 1..i - 1 : s[j] \in S
        OBVIOUS
    <2>2. \A j \in i + 1..Len(s) : s[j] \in S
        OBVIOUS
    <2>3. /\ left \in Seq(S) /\ Len(left) = IF 1 <= i - 1 THEN i - 1 - 1 + 1 ELSE 0
          /\ \A j \in 1..i - 1 - 1 + 1 : left[j] = s[1 + j - 1]
        BY <2>1, SubSeqProperties
    <2>4. /\ right \in Seq(S) /\ Len(right) = IF i + 1 <= Len(s) THEN Len(s) - (i + 1) + 1 ELSE 0
          /\ \A j \in 1..Len(s) - (i + 1) + 1 : right[j] = s[i + 1 + j - 1]
        BY <2>2, SubSeqProperties
    <2> HIDE DEF left, right
    <2>5. QED
        BY <2>3, <2>4
<1>2. RemoveAt(s, i) = left \o right
    BY DEF RemoveAt
<1> HIDE DEF left, right
<1>3. /\ left \o right \in Seq(S) /\ Len(left \o right) = Len(s) - 1
      /\ \A j \in 1..Len(left) + Len(right) : (left \o right)[j] =
            IF j <= Len(left) THEN left[j] ELSE right[j - Len(left)]
    <2>1. /\ left \o right \in Seq(S) /\ Len(left \o right) = Len(left) + Len(right)
          /\ \A j \in 1..Len(left) + Len(right) : (left \o right)[j] =
                IF j <= Len(left) THEN left[j] ELSE right[j - Len(left)]
        BY ONLY <1>1, ConcatProperties
    <2>2. Len(s) \in Nat
        OBVIOUS
    <2> QED
        BY <1>1, <2>1, <2>2
<1>4. \A j \in 1..Len(s) - 1 : (left \o right)[j] = IF j < i THEN s[j] ELSE s[j + 1]
    BY <1>1, <1>3
<1>5. QED
    BY <1>2, <1>3, <1>4

Elements(s) == {s[i] : i \in DOMAIN s}

\* What the steps of a page make of the requests under way.
LEMMA RequestsUnderWay ==
    ASSUME NEW S, NEW s \in Seq(S)
    PROVE  /\ \A x \in Elements(s) : x \in S
           /\ Elements(<< >>) = {}
           /\ \A x \in S : /\ Append(s, x) \in Seq(S)
                           /\ Elements(Append(s, x)) = Elements(s) \union {x}
           /\ \A i \in DOMAIN s : /\ s[i] \in Elements(s) /\ s[i] \in S
                                  /\ RemoveAt(s, i) \in Seq(S)
                                  /\ Elements(RemoveAt(s, i)) \subseteq Elements(s)
           /\ \A i \in DOMAIN s, x \in S :
                 /\ [s EXCEPT ![i] = x] \in Seq(S)
                 /\ Elements([s EXCEPT ![i] = x]) \subseteq Elements(s) \union {x}
<1>1. DOMAIN s = 1..Len(s) /\ Len(s) \in Nat
    OBVIOUS
<1>2. \A x \in S : /\ Append(s, x) \in Seq(S)
                   /\ Elements(Append(s, x)) = Elements(s) \union {x}
    <2> SUFFICES ASSUME NEW x \in S
                 PROVE  /\ Append(s, x) \in Seq(S)
                        /\ Elements(Append(s, x)) = Elements(s) \union {x}
        OBVIOUS
    <2>1. /\ Append(s, x) \in Seq(S) /\ DOMAIN Append(s, x) = 1..Len(s) + 1
          /\ \A i \in 1..Len(s) : Append(s, x)[i] = s[i]
          /\ Append(s, x)[Len(s) + 1] = x
        BY <1>1
    <2> QED
        BY <1>1, <2>1 DEF Elements
<1>3. \A i \in DOMAIN s : /\ s[i] \in Elements(s) /\ s[i] \in S
                          /\ RemoveAt(s, i) \in Seq(S)
                          /\ Elements(RemoveAt(s, i)) \subseteq Elements(s)
    <2> SUFFICES ASSUME NEW i \in DOMAIN s
                 PROVE  /\ s[i] \in Elements(s) /\ s[i] \in S
                        /\ RemoveAt(s, i) \in Seq(S)
                        /\ Elements(RemoveAt(s, i)) \subseteq Elements(s)
        OBVIOUS
    <2>1. /\ RemoveAt(s, i) \in Seq(S) /\ Len(RemoveAt(s, i)) = Len(s) - 1
          /\ \A j \in 1..Len(s) - 1 : RemoveAt(s, i)[j] = IF j < i THEN s[j] ELSE s[j + 1]
        BY <1>1, RemovedAt
    <2>2. DOMAIN RemoveAt(s, i) = 1..Len(s) - 1
        BY <2>1
    <2>3. ASSUME NEW j \in DOMAIN RemoveAt(s, i)
          PROVE  RemoveAt(s, i)[j] \in Elements(s)
        <3>1. j \in 1..Len(s) - 1
            BY <2>2
        <3>2. j \in 1..Len(s) /\ j + 1 \in 1..Len(s)
            BY <1>1, <3>1
        <3>3. s[j] \in Elements(s) /\ s[j + 1] \in Elements(s)
            BY <1>1, <3>2 DEF Elements
        <3> QED
            BY <2>1, <3>1, <3>3
    <2>4. s[i] \in Elements(s) /\ s[i] \in S
        BY <1>1 DEF Elements
    <2> QED
        BY <2>1, <2>3, <2>4 DEF Elements
<1>4. \A i \in DOMAIN s, x \in S :
         /\ [s EXCEPT ![i] = x] \in Seq(S)
         /\ Elements([s EXCEPT ![i] = x]) \subseteq Elements(s) \union {x}
    BY <1>1, ExceptSeq DEF Elements
<1>5. \A x \in Elements(s) : x \in S
    BY <1>1 DEF Elements
<1>6. Elements(<< >>) = {}
    BY DEF Elements
<1>7. QED
    BY <1>2, <1>3, <1>4, <1>5, <1>6

-----------------------------------------------------------------------------
(* Preferences: the invariant. *)

SyncRefs == [mounted : BOOLEAN, init : BOOLEAN, revision : Nat, timer : BOOLEAN, late : BOOLEAN]
Image == [kind : {"load", "select"}, wall : Wallpaper]

\* The type of every variable, in full.
PreferencesState ==
    /\ server \in Record /\ stores \in [look : Look, wall : Wallpaper]
    /\ cache \in Record \union {NoRecord} /\ get \in Record \union {NoRecord, Asked}
    /\ sync \in SyncRefs /\ flight \in Seq(Document) /\ images \in Seq(Image)
    /\ edits \in 0..MaxEdits /\ events \in 0..MaxEvents

\* PreferencesSync runs on a record, and is the only one that waits for a
\* document of its own.
SyncRuns ==
    /\ sync.timer => sync.init
    /\ sync.init => sync.mounted /\ sync.revision <= server.rev
    /\ sync.mounted => (sync.init = (cache # NoRecord))
    /\ cache = NoRecord => flight = << >>
    /\ \A d \in Elements(flight) : d.mine => d.kind = "sync"

\* The records the browser has, or that answer what it has asked.
InHand == ({cache, get} \union {d.answer : d \in Elements(flight)}) \ {NoRecord, Asked, Refused}

\* A record with the server's revision is the server's.
RecordsAgree == \A r \in InHand : r.rev <= server.rev /\ (r.rev = server.rev => r = server)

\* A document with the server's revision changes the name or the stores, and
\* repeats the rest.
Repeats(d) ==
    /\ d.rev <= server.rev
    /\ d.rev = server.rev /\ d.kind = "profile" => d.look = server.look /\ d.wall = server.wall
    /\ d.rev = server.rev /\ d.kind = "sync" /\ ~sync.late => d.name = server.name

DocumentsAgree == \A d \in Elements(flight) : d.answer = NoRecord => Repeats(d)

\* PreferencesSync has the server's revision, or will have it with the answer to
\* a document of its own.
Brings(d) ==
    /\ d.mine
    /\ \/ d.answer = NoRecord /\ d.rev = server.rev
       \/ d.answer \in Record /\ d.answer.rev = server.rev

Follows == (sync.init /\ sync.revision = server.rev) \/ \E d \in Elements(flight) : Brings(d)

\* Then no record in hand has another name, however old it is.
NamesAgree == ~sync.late /\ Follows => \A r \in InHand : r.name = server.name

PreferencesInv == PreferencesState /\ SyncRuns /\ RecordsAgree /\ DocumentsAgree /\ NamesAgree

-----------------------------------------------------------------------------
(* Preferences: the invariant is inductive. *)

LEMMA FirstOfEach == First \in Look /\ Ours \in Name /\ Default \in Wallpaper
BY PreferencesAssumption DEF First, Ours, Wallpaper

LEMMA PreferencesInitially == PreferencesInit => PreferencesInv
<1> SUFFICES ASSUME PreferencesInit PROVE PreferencesInv
    OBVIOUS
<1>1. PreferencesState
    <2>1. server \in Record
        BY FirstOfEach DEF PreferencesInit, Record
    <2>2. sync \in SyncRefs
        BY DEF PreferencesInit, SyncRefs, Fresh
    <2>3. /\ stores \in [look : Look, wall : Wallpaper]
          /\ edits \in 0..MaxEdits /\ events \in 0..MaxEvents
        BY FirstOfEach, PreferencesAssumption DEF PreferencesInit
    <2>4. flight \in Seq(Document) /\ images \in Seq(Image)
        BY DEF PreferencesInit
    <2> QED
        BY <2>1, <2>2, <2>3, <2>4 DEF PreferencesInit, PreferencesState
<1>2. InHand = {} /\ Elements(flight) = {}
    BY DEF PreferencesInit, InHand, Elements
<1>3. SyncRuns
    BY <1>2 DEF PreferencesInit, SyncRuns, Fresh
<1>4. QED
    BY <1>1, <1>2, <1>3 DEF PreferencesInv, RecordsAgree, DocumentsAgree, NamesAgree

\* What the browser has in hand.
LEMMA Hand ==
    ASSUME PreferencesState
    PROVE  /\ InHand \subseteq Record
           /\ cache # NoRecord => cache \in InHand
           /\ get \notin {NoRecord, Asked} => get \in InHand
           /\ \A d \in Elements(flight) :
                 /\ d \in Document
                 /\ d.answer \notin {NoRecord, Refused} => d.answer \in InHand
           /\ \A r \in InHand : \/ r = cache \/ r = get
                                \/ \E d \in Elements(flight) : r = d.answer
<1>1. \A d \in Elements(flight) : d \in Document
    BY RequestsUnderWay DEF PreferencesState
<1>2. \A d \in Document : d.answer \in Record \union {NoRecord, Refused}
    BY DEF Document
<1>3. QED
    BY <1>1, <1>2, NotARecord DEF PreferencesState, InHand

\* The part of the invariant about revisions.
RevisionsAgree == RecordsAgree /\ DocumentsAgree /\ NamesAgree

\* A step that asks for nothing and brings nothing new, and leaves the server
\* and what PreferencesSync remembers of it.
LEMMA NothingNew ==
    ASSUME PreferencesInv, server' = server,
           InHand' \subseteq InHand, Elements(flight)' \subseteq Elements(flight),
           sync'.late = sync.late,
           sync'.init => sync.init /\ sync'.revision = sync.revision
    PROVE  RevisionsAgree'
<1>1. RecordsAgree'
    BY DEF PreferencesInv, RecordsAgree
<1>2. DocumentsAgree'
    BY DEF PreferencesInv, DocumentsAgree, Repeats
<1>3. Follows' => Follows
    BY DEF Follows, Brings
<1>4. NamesAgree'
    BY <1>3 DEF PreferencesInv, NamesAgree
<1>5. QED
    BY <1>1, <1>2, <1>4 DEF RevisionsAgree

\* PreferencesSync and the requests, when neither is touched.
LEMMA HandStays ==
    ASSUME cache' = cache, get' = get \/ get' \in {NoRecord, Asked},
           Elements(flight)' \subseteq Elements(flight)
    PROVE  InHand' \subseteq InHand
BY DEF InHand

\* What the effects of PreferencesSync make of a record.
LEMMA EffectsOfARecord ==
    ASSUME PreferencesState, NEW r \in Record, NEW s \in SyncRefs, Effects(r, s)
    PROVE  /\ sync' \in SyncRefs /\ stores' \in [look : Look, wall : Wallpaper]
           /\ images' \in Seq(Image)
           /\ sync'.mounted = s.mounted /\ sync'.late = s.late
           /\ sync'.timer => s.timer
           /\ sync'.init = (s.init \/ s.mounted)
           /\ s.init \/ ~s.mounted => sync'.revision = s.revision
           /\ ~s.init /\ s.mounted => sync'.revision = r.rev
<1>1. stores \in [look : Look, wall : Wallpaper] /\ images \in Seq(Image)
    BY DEF PreferencesState
<1>2. CASE ~s.mounted
    BY <1>1, <1>2 DEF Effects, SyncRefs
<1>3. CASE s.mounted /\ s.init
    BY <1>1, <1>3 DEF Effects, SyncRefs
<1>4. CASE s.mounted /\ ~s.init
    <2>1. /\ sync' = [s EXCEPT !.init = TRUE, !.revision = r.rev, !.timer = FALSE]
          /\ stores' = [look |-> r.look,
                        wall |-> IF r.wall \in Preset THEN r.wall ELSE stores.wall]
          /\ images' = IF r.wall \in Preset THEN images
                       ELSE Append(images, [kind |-> "load", wall |-> r.wall])
        BY <1>4 DEF Effects
    <2>2. r.look \in Look /\ r.wall \in Wallpaper /\ r.rev \in Nat
        BY DEF Record
    <2>3. images' \in Seq(Image)
        <3>1. [kind |-> "load", wall |-> r.wall] \in Image
            BY <2>2 DEF Image
        <3>2. Append(images, [kind |-> "load", wall |-> r.wall]) \in Seq(Image)
            BY <1>1, <3>1, RequestsUnderWay
        <3>3. QED
            BY <1>1, <2>1, <3>2
    <2>4. stores' \in [look : Look, wall : Wallpaper]
        BY <1>1, <2>1, <2>2
    <2>5. QED
        BY <1>4, <2>1, <2>2, <2>3, <2>4 DEF SyncRefs
<1>5. QED
    BY <1>2, <1>3, <1>4 DEF SyncRefs

\* A fetch fails or begins.
LEMMA FetchKeepsInv ==
    ASSUME PreferencesInv, GetFails \/ RefetchPreferences
    PROVE  PreferencesInv'
<1>1. /\ UNCHANGED <<server, stores, cache, sync, flight, images, edits>>
      /\ get' \in {NoRecord, Asked} /\ events' \in 0..MaxEvents
    BY PreferencesAssumption DEF GetFails, RefetchPreferences, PreferencesInv, PreferencesState
<1>2. PreferencesState'
    BY <1>1 DEF PreferencesInv, PreferencesState
<1>3. SyncRuns'
    BY <1>1 DEF PreferencesInv, SyncRuns
<1>4. RevisionsAgree'
    BY <1>1, NothingNew, HandStays
<1>5. QED
    BY <1>2, <1>3, <1>4 DEF PreferencesInv, RevisionsAgree

\* A choice of the user, and the answers for wallpapers.
LEMMA Scheduled == ASSUME NEW s \in SyncRefs
                   PROVE  /\ schedule(s) \in SyncRefs
                          /\ schedule(s).timer => s.timer \/ s.init
                          /\ schedule(s).mounted = s.mounted /\ schedule(s).init = s.init
                          /\ schedule(s).revision = s.revision /\ schedule(s).late = s.late
BY DEF schedule, SyncRefs

LEMMA ChoicesKeepInv ==
    ASSUME PreferencesInv,
           \/ Choose \/ SystemTheme \/ SelectPreset \/ SelectStored
           \/ WallpaperArrives \/ WallpaperFails
    PROVE  PreferencesInv'
<1>0. /\ stores \in [look : Look, wall : Wallpaper] /\ images \in Seq(Image) /\ sync \in SyncRefs
      /\ edits \in 0..MaxEdits /\ events \in 0..MaxEvents /\ MaxEdits \in Nat /\ MaxEvents \in Nat
    BY PreferencesAssumption DEF PreferencesInv, PreferencesState
<1>1. UNCHANGED <<server, cache, get, flight>> /\ sync' \in {sync, schedule(sync)}
    BY DEF Choose, SystemTheme, SelectPreset, SelectStored, WallpaperArrives, WallpaperFails
<1>2. edits' \in 0..MaxEdits /\ events' \in 0..MaxEvents
    BY <1>0 DEF Choose, SystemTheme, SelectPreset, SelectStored, WallpaperArrives, WallpaperFails
<1>3. stores' \in [look : Look, wall : Wallpaper] /\ images' \in Seq(Image)
    <2>1. CASE Choose \/ SystemTheme \/ SelectPreset
        BY <1>0, <2>1 DEF Choose, SystemTheme, SelectPreset, Wallpaper
    <2>2. CASE SelectStored
        BY <1>0, <2>2 DEF SelectStored, Wallpaper, Image
    <2>3. CASE WallpaperArrives \/ WallpaperFails
        <3>1. PICK i \in DOMAIN images :
                 /\ images' = RemoveAt(images, i)
                 /\ \/ stores' = stores \/ stores' = [stores EXCEPT !.wall = images[i].wall]
                    \/ stores' = [stores EXCEPT !.wall = Default]
            BY <2>3 DEF WallpaperArrives, WallpaperFails
        <3>2. images' \in Seq(Image) /\ images[i] \in Image
            BY <1>0, <3>1, RequestsUnderWay
        <3>3. QED
            BY <1>0, <3>1, <3>2, FirstOfEach DEF Image
    <2>4. QED
        BY <2>1, <2>2, <2>3
<1>4. /\ sync' \in SyncRefs /\ (sync'.timer => sync.timer \/ sync.init)
      /\ sync'.mounted = sync.mounted /\ sync'.init = sync.init
      /\ sync'.revision = sync.revision /\ sync'.late = sync.late
    BY <1>0, <1>1, Scheduled
<1>5. PreferencesState'
    BY <1>1, <1>2, <1>3, <1>4 DEF PreferencesInv, PreferencesState
<1>6. SyncRuns'
    BY <1>1, <1>4 DEF PreferencesInv, SyncRuns
<1>7. RevisionsAgree'
    BY <1>1, <1>4, NothingNew, HandStays
<1>8. QED
    BY <1>5, <1>6, <1>7 DEF PreferencesInv, RevisionsAgree

\* A document is refused or lost.
LEMMA FailureKeepsInv ==
    ASSUME PreferencesInv, Conflict \/ Lost
    PROVE  PreferencesInv'
<1>1. PICK i \in DOMAIN flight : flight' = RemoveAt(flight, i) /\ AfterFailure(flight[i])
    BY DEF Conflict, Lost
<1>2. UNCHANGED <<server, stores, cache, sync, images, edits>> /\ events' \in 0..MaxEvents
    BY PreferencesAssumption DEF Conflict, Lost, PreferencesInv, PreferencesState
<1>3. /\ flight' \in Seq(Document) /\ Elements(flight)' \subseteq Elements(flight)
      /\ flight # << >>
    BY <1>1, RequestsUnderWay DEF PreferencesInv, PreferencesState
<1>4. get' = get \/ get' = Asked
    BY <1>1 DEF AfterFailure
<1>5. PreferencesState'
    BY <1>2, <1>3, <1>4 DEF PreferencesInv, PreferencesState
<1>6. SyncRuns'
    BY <1>2, <1>3 DEF PreferencesInv, SyncRuns
<1>7. RevisionsAgree'
    BY <1>2, <1>3, <1>4, NothingNew, HandStays
<1>8. QED
    BY <1>5, <1>6, <1>7 DEF PreferencesInv, RevisionsAgree

\* The server answers a fetch, with what it has.
LEMMA GetKeepsInv ==
    ASSUME PreferencesInv, GetPreferences
    PROVE  PreferencesInv'
<1>1. get' = server /\ UNCHANGED <<server, stores, cache, sync, flight, images, edits, events>>
    BY DEF GetPreferences
<1>2. InHand' \subseteq InHand \union {server}
    BY <1>1 DEF InHand
<1>3. PreferencesState'
    BY <1>1 DEF PreferencesInv, PreferencesState
<1>4. SyncRuns'
    BY <1>1 DEF PreferencesInv, SyncRuns
<1>5. server.rev \in Nat
    BY DEF PreferencesInv, PreferencesState, Record
<1>6. RecordsAgree'
    BY <1>1, <1>2, <1>5 DEF PreferencesInv, RecordsAgree
<1>7. DocumentsAgree'
    BY <1>1 DEF PreferencesInv, DocumentsAgree, Repeats
<1>8. NamesAgree'
    <2>1. Follows' = Follows
        BY <1>1 DEF Follows, Brings
    <2> QED
        BY <1>1, <1>2, <2>1 DEF PreferencesInv, NamesAgree
<1>9. QED
    BY <1>3, <1>4, <1>6, <1>7, <1>8 DEF PreferencesInv

\* The answer of a fetch.
LEMMA RecordKeepsInv ==
    ASSUME PreferencesInv, RecordArrives
    PROVE  PreferencesInv'
<1>0. PreferencesState /\ get \in Record /\ get \in InHand /\ sync \in SyncRefs
    BY Hand DEF PreferencesInv, PreferencesState, RecordArrives
<1>1. /\ cache' = get /\ get' = NoRecord /\ Effects(get, sync)
      /\ UNCHANGED <<server, flight, edits, events>>
    BY DEF RecordArrives
<1>2. /\ sync' \in SyncRefs /\ stores' \in [look : Look, wall : Wallpaper]
      /\ images' \in Seq(Image)
      /\ sync'.mounted = sync.mounted /\ sync'.late = sync.late
      /\ (sync'.timer => sync.timer)
      /\ sync'.init = (sync.init \/ sync.mounted)
      /\ (sync.init \/ ~sync.mounted => sync'.revision = sync.revision)
      /\ (~sync.init /\ sync.mounted => sync'.revision = get.rev)
    BY <1>0, <1>1, EffectsOfARecord
<1>3. get \notin {NoRecord} /\ get.rev <= server.rev
    BY <1>0, NotARecord DEF PreferencesInv, RecordsAgree
<1>4. PreferencesState'
    BY <1>0, <1>1, <1>2 DEF PreferencesState
<1>5. SyncRuns'
    BY <1>1, <1>2, <1>3 DEF PreferencesInv, SyncRuns
<1>6. InHand' \subseteq InHand
    BY <1>0, <1>1 DEF InHand
<1>7. CASE sync'.init => sync.init /\ sync'.revision = sync.revision
    <2>1. RevisionsAgree'
        BY <1>1, <1>2, <1>6, <1>7, NothingNew
    <2> QED
        BY <1>4, <1>5, <2>1 DEF PreferencesInv, RevisionsAgree
<1>8. CASE sync.mounted /\ ~sync.init
    <2>1. flight = << >>
        BY <1>8 DEF PreferencesInv, SyncRuns
    <2>2. InHand' \subseteq {get} /\ Elements(flight)' = {}
        BY <1>1, <2>1 DEF InHand, Elements
    <2>3. RecordsAgree'
        BY <1>1, <1>6 DEF PreferencesInv, RecordsAgree
    <2>4. DocumentsAgree'
        BY <2>2 DEF DocumentsAgree
    <2>5. Follows' => get = server
        BY <1>0, <1>1, <1>2, <1>8, <2>2 DEF Follows, PreferencesInv, RecordsAgree
    <2>6. NamesAgree'
        BY <1>1, <2>2, <2>5 DEF NamesAgree
    <2>7. QED
        BY <1>4, <1>5, <2>3, <2>4, <2>6 DEF PreferencesInv
<1>9. QED
    BY <1>2, <1>7, <1>8 DEF PreferencesInv, SyncRuns

\* The cleanup of the effects.
LEMMA UnmountKeepsInv ==
    ASSUME PreferencesInv, Unmount
    PROVE  PreferencesInv'
<1>0. PreferencesState /\ sync \in SyncRefs /\ flight \in Seq(Document)
    BY DEF PreferencesInv, PreferencesState
<1>1. /\ UNCHANGED <<server, stores, cache, get, images, edits>> /\ events' \in 0..MaxEvents
      /\ sync' = [Fresh EXCEPT !.mounted = FALSE, !.late = sync.late]
      /\ flight' = [i \in DOMAIN flight |-> [flight[i] EXCEPT !.mine = FALSE]]
    BY <1>0, PreferencesAssumption DEF Unmount, PreferencesState
<1>2. sync' \in SyncRefs /\ sync'.init = FALSE /\ sync'.mounted = FALSE /\ sync'.timer = FALSE
      /\ sync'.late = sync.late
    BY <1>0, <1>1 DEF Fresh, SyncRefs
<1>3. /\ \A i \in DOMAIN flight : flight[i] \in Document /\ flight[i] \in Elements(flight)
      /\ DOMAIN flight = 1..Len(flight) /\ Len(flight) \in Nat
    BY <1>0, RequestsUnderWay
<1>4. \A d \in Document : [d EXCEPT !.mine = FALSE] \in Document
    BY DEF Document
<1>5. flight' \in Seq(Document)
    BY <1>1, <1>3, <1>4
<1>6. \A e \in Elements(flight)' : \E d \in Elements(flight) :
          d \in Document /\ e = [d EXCEPT !.mine = FALSE]
    BY <1>1, <1>3 DEF Elements
<1>7. \A e \in Elements(flight)' : /\ e.mine = FALSE
                                   /\ \E d \in Elements(flight) :
                                         /\ e.answer = d.answer /\ e.rev = d.rev /\ e.kind = d.kind
                                         /\ e.look = d.look /\ e.wall = d.wall /\ e.name = d.name
    BY <1>6 DEF Document
<1>8. InHand' \subseteq InHand
    BY <1>1, <1>7 DEF InHand
<1>9. PreferencesState'
    BY <1>0, <1>1, <1>2, <1>5 DEF PreferencesState
<1>10. SyncRuns'
    <2>1. flight = << >> => flight' = << >>
        BY <1>1, <1>3
    <2> QED
        BY <1>1, <1>2, <1>7, <2>1 DEF PreferencesInv, SyncRuns
<1>11. RecordsAgree'
    BY <1>1, <1>8 DEF PreferencesInv, RecordsAgree
<1>12. DocumentsAgree'
    BY <1>1, <1>2, <1>7 DEF PreferencesInv, DocumentsAgree, Repeats
<1>13. NamesAgree'
    BY <1>2, <1>7 DEF NamesAgree, Follows, Brings
<1>14. QED
    BY <1>9, <1>10, <1>11, <1>12, <1>13 DEF PreferencesInv

\* The effects run on the cached record, or wait for the first one.
LEMMA MountKeepsInv ==
    ASSUME PreferencesInv, Mount
    PROVE  PreferencesInv'
<1> DEFINE s == [Fresh EXCEPT !.late = sync.late \/ get # NoRecord \/ flight # << >>]
<1>0. PreferencesState /\ sync \in SyncRefs /\ server.rev \in Nat
    BY DEF PreferencesInv, PreferencesState, Record
<1>1. ~sync.mounted /\ UNCHANGED <<server, cache, flight, edits, events>> /\ get' \in {get, Asked}
    BY DEF Mount
<1>2. /\ s \in SyncRefs /\ s.mounted = TRUE /\ s.init = FALSE /\ s.timer = FALSE
      /\ s.late = (sync.late \/ get # NoRecord \/ flight # << >>)
    BY <1>0 DEF Fresh, SyncRefs
<1>3. /\ cache = NoRecord => sync' = s /\ UNCHANGED <<stores, images>>
      /\ cache # NoRecord => Effects(cache, s)
    BY DEF Mount
<1> HIDE DEF s
<1>4. CASE cache = NoRecord
    <2>1. flight = << >> /\ sync' = s
        BY <1>3, <1>4 DEF PreferencesInv, SyncRuns
    <2>2. PreferencesState' /\ SyncRuns'
        <3>1. UNCHANGED <<server, stores, images, cache, edits, events>> /\ get' \in {get, Asked}
            BY <1>1, <1>3, <1>4
        <3>2. /\ flight' = << >> /\ sync' \in SyncRefs
              /\ sync'.timer = FALSE /\ sync'.init = FALSE
            BY <1>1, <1>2, <2>1
        <3>3. PreferencesState'
            BY <1>0, <3>1, <3>2 DEF PreferencesState
        <3>4. Elements(<< >>) = {}
            BY DEF Elements
        <3>5. SyncRuns'
            BY <1>4, <3>1, <3>2, <3>4 DEF SyncRuns
        <3> QED
            BY <3>3, <3>5
    <2>3. Elements(flight)' = {} /\ InHand' \subseteq InHand
        BY <1>1, <2>1 DEF Elements, InHand
    <2>4. RecordsAgree' /\ DocumentsAgree' /\ NamesAgree'
        BY <1>1, <1>2, <2>1, <2>3
        DEF PreferencesInv, RecordsAgree, DocumentsAgree, NamesAgree, Follows
    <2>5. QED
        BY <2>2, <2>4 DEF PreferencesInv
<1>5. CASE cache # NoRecord
    <2>0. cache \in Record /\ cache \in InHand /\ Effects(cache, s)
        BY <1>0, <1>3, <1>5, Hand DEF PreferencesState
    <2>1. /\ sync' \in SyncRefs /\ stores' \in [look : Look, wall : Wallpaper]
          /\ images' \in Seq(Image)
          /\ sync'.mounted = TRUE /\ sync'.late = s.late
          /\ sync'.timer = FALSE
          /\ sync'.init = TRUE /\ sync'.revision = cache.rev
        BY <1>0, <1>2, <2>0, EffectsOfARecord DEF SyncRefs
    <2>2. PreferencesState'
        BY <1>0, <1>1, <2>1 DEF PreferencesState
    <2>3. cache.rev <= server.rev /\ (cache.rev = server.rev => cache = server)
        BY <2>0 DEF PreferencesInv, RecordsAgree
    <2>4. SyncRuns'
        BY <1>1, <1>5, <2>1, <2>3 DEF PreferencesInv, SyncRuns
    <2>5. InHand' \subseteq InHand
        BY <1>1 DEF InHand
    <2>6. RecordsAgree'
        BY <1>1, <2>5 DEF PreferencesInv, RecordsAgree
    <2>7. DocumentsAgree'
        BY <1>1, <1>2, <2>1 DEF PreferencesInv, DocumentsAgree, Repeats
    <2>8. NamesAgree'
        <3>1. ASSUME ~sync'.late, Follows' PROVE \A r \in InHand' : r.name = server.name
            <4>1. get = NoRecord /\ flight = << >>
                BY <1>2, <2>1, <3>1
            <4>2. InHand' \subseteq {cache} /\ Elements(flight)' = {}
                BY <1>1, <4>1 DEF InHand, Elements
            <4>3. cache = server
                BY <1>1, <2>1, <2>3, <3>1, <4>2 DEF Follows
            <4>4. QED
                BY <4>2, <4>3
        <3> QED
            BY <1>1, <3>1 DEF NamesAgree
    <2>9. QED
        BY <2>2, <2>4, <2>6, <2>7, <2>8 DEF PreferencesInv
<1>6. QED
    BY <1>4, <1>5

\* The page is loaded again.
LEMMA PageLoadKeepsInv ==
    ASSUME PreferencesInv, ReloadPreferences
    PROVE  PreferencesInv'
<1>1. /\ UNCHANGED <<server, stores, edits>> /\ events' \in 0..MaxEvents
      /\ sync' = Fresh /\ cache' = NoRecord /\ get' = Asked /\ flight' = << >> /\ images' = << >>
    BY PreferencesAssumption DEF ReloadPreferences, PreferencesInv, PreferencesState
<1>2. Fresh \in SyncRefs /\ Fresh.init = FALSE /\ Fresh.timer = FALSE
    BY DEF Fresh, SyncRefs
<1>3. InHand' = {} /\ Elements(flight)' = {}
    BY <1>1 DEF InHand, Elements
<1>4. PreferencesState'
    BY <1>1, <1>2 DEF PreferencesInv, PreferencesState
<1>5. SyncRuns'
    BY <1>1, <1>2, <1>3 DEF SyncRuns
<1>6. QED
    BY <1>3, <1>4, <1>5 DEF PreferencesInv, RecordsAgree, DocumentsAgree, NamesAgree

\* A document the browser sends.  It is one PreferencesSync sends with the
\* revision it remembers, or one that repeats a record in hand.
LEMMA SendingKeepsInv ==
    ASSUME PreferencesInv, Debounced \/ SaveProfile
    PROVE  PreferencesInv'
<1>0. /\ PreferencesState /\ sync \in SyncRefs /\ flight \in Seq(Document)
      /\ server.rev \in Nat /\ stores.look \in Look /\ stores.wall \in Wallpaper
      /\ edits \in 0..MaxEdits /\ MaxEdits \in Nat
    BY PreferencesAssumption DEF PreferencesInv, PreferencesState, Record
<1>1. cache \in Record /\ cache \in InHand
    BY <1>0, Hand DEF PreferencesInv, SyncRuns, PreferencesState, Debounced, SaveProfile
<1>2. cache.look \in Look /\ cache.wall \in Wallpaper /\ cache.name \in Name /\ cache.rev \in Nat
    BY <1>1 DEF Record
<1>3. PICK d \in Document :
         /\ flight' = Append(flight, d) /\ d.answer = NoRecord
         /\ \/ /\ Debounced /\ d.kind = "sync" /\ d.mine
               /\ d.rev = sync.revision /\ d.name = cache.name
            \/ /\ SaveProfile /\ d.kind = "profile" /\ ~d.mine
               /\ d.rev = cache.rev /\ d.look = cache.look /\ d.wall = cache.wall
    <2>1. CASE Debounced
        <3> DEFINE d == [kind |-> "sync", rev |-> sync.revision,
                         look |-> stores.look, wall |-> stores.wall,
                         name |-> cache.name, mine |-> TRUE, answer |-> NoRecord]
        <3>1. d \in Document
            BY <1>0, <1>2 DEF Document, SyncRefs
        <3>2. flight' = Append(flight, d)
            BY <2>1 DEF Debounced
        <3> QED
            BY <2>1, <3>1, <3>2
    <2>2. CASE SaveProfile
        <3>1. PICK n \in Name :
                 flight' = Append(flight, [kind |-> "profile", rev |-> cache.rev,
                                           look |-> cache.look, wall |-> cache.wall,
                                           name |-> n, mine |-> FALSE, answer |-> NoRecord])
            BY <2>2 DEF SaveProfile
        <3> DEFINE d == [kind |-> "profile", rev |-> cache.rev,
                         look |-> cache.look, wall |-> cache.wall,
                         name |-> n, mine |-> FALSE, answer |-> NoRecord]
        <3>2. d \in Document
            BY <1>2 DEF Document
        <3> QED
            BY <2>2, <3>1, <3>2
    <2> QED
        BY <2>1, <2>2
<1>4. /\ UNCHANGED <<server, stores, cache, get, images, events>> /\ edits' \in 0..MaxEdits
      /\ sync' = sync \/ sync' = [sync EXCEPT !.timer = FALSE]
    BY <1>0 DEF Debounced, SaveProfile
<1>5. /\ sync' \in SyncRefs /\ sync'.mounted = sync.mounted /\ sync'.init = sync.init
      /\ sync'.revision = sync.revision /\ sync'.late = sync.late /\ (sync'.timer => sync.timer)
    BY <1>0, <1>4 DEF SyncRefs
<1>6. flight' \in Seq(Document) /\ Elements(flight)' = Elements(flight) \union {d}
    BY <1>0, <1>3, RequestsUnderWay
<1>7. PreferencesState'
    BY <1>0, <1>4, <1>5, <1>6 DEF PreferencesState
<1>8. SyncRuns'
    BY <1>1, <1>3, <1>4, <1>5, <1>6, NotARecord DEF PreferencesInv, SyncRuns
<1>9. InHand' = InHand
    BY <1>3, <1>4, <1>6 DEF InHand
<1>10. RecordsAgree'
    BY <1>4, <1>9 DEF PreferencesInv, RecordsAgree
<1>11. d.mine => sync.init
    BY <1>3 DEF PreferencesInv, SyncRuns, Debounced
<1>12. Follows' => Follows
    BY <1>3, <1>4, <1>5, <1>6, <1>11, NotARecord DEF Follows, Brings
<1>13. Repeats(d)'
    <2>1. d.rev <= server.rev
        BY <1>1, <1>3, <1>11 DEF PreferencesInv, SyncRuns, RecordsAgree
    <2>2. d.rev = server.rev /\ d.kind = "profile" => d.look = server.look /\ d.wall = server.wall
        BY <1>1, <1>3 DEF PreferencesInv, RecordsAgree
    <2>3. d.rev = server.rev /\ d.kind = "sync" /\ ~sync.late => d.name = server.name
        BY <1>1, <1>3, <1>11 DEF PreferencesInv, NamesAgree, Follows
    <2> QED
        BY <1>4, <1>5, <2>1, <2>2, <2>3 DEF Repeats
<1>14. DocumentsAgree'
    BY <1>4, <1>5, <1>6, <1>13 DEF PreferencesInv, DocumentsAgree, Repeats
<1>15. NamesAgree'
    BY <1>4, <1>5, <1>9, <1>12 DEF PreferencesInv, NamesAgree
<1>16. QED
    BY <1>7, <1>8, <1>10, <1>14, <1>15 DEF PreferencesInv

\* A step of the server to the next revision.  What the browser has is of an
\* older one, but for the answer to a document that the step accepts.
LEMMA NextRevision ==
    ASSUME PreferencesInv, server' \in Record, server'.rev = server.rev + 1, sync' = sync,
           InHand' \subseteq InHand \union {server'},
           \A e \in Elements(flight)' :
              e \in Elements(flight) \/ e.answer = Refused \/ e.answer = server',
           \A e \in Elements(flight)' :
              e.mine /\ e.answer = server' /\ ~sync.late => \A r \in InHand : r.name = server'.name
    PROVE  RevisionsAgree'
<1>0. PreferencesState /\ server.rev \in Nat /\ sync.revision \in Nat
    BY DEF PreferencesInv, PreferencesState, Record, SyncRefs
<1>1. \A r \in InHand : r \in Record /\ r.rev \in Nat /\ r.rev <= server.rev
    BY <1>0, Hand DEF PreferencesInv, RecordsAgree, Record
<1>2. RecordsAgree'
    BY <1>0, <1>1 DEF RecordsAgree
<1>3. \A d \in Elements(flight) : /\ d \in Document /\ d.rev \in Nat
                                  /\ d.answer = NoRecord => d.rev <= server.rev
                                  /\ d.answer \in Record => d.answer.rev <= server.rev
    <2> SUFFICES ASSUME NEW d \in Elements(flight)
                 PROVE  /\ d \in Document /\ d.rev \in Nat
                        /\ d.answer = NoRecord => d.rev <= server.rev
                        /\ d.answer \in Record => d.answer.rev <= server.rev
        OBVIOUS
    <2>1. d \in Document /\ d.rev \in Nat
        BY <1>0, Hand DEF Document
    <2>2. d.answer = NoRecord => d.rev <= server.rev
        BY DEF PreferencesInv, DocumentsAgree, Repeats
    <2>3. d.answer \in Record => d.answer \in InHand
        BY <1>0, Hand, NotARecord
    <2> QED
        BY <1>1, <2>1, <2>2, <2>3
<1>4. DocumentsAgree'
    <2> SUFFICES ASSUME NEW e \in Elements(flight)', e.answer = NoRecord
                 PROVE  Repeats(e)'
        BY DEF DocumentsAgree
    <2>1. e \in Elements(flight)
        BY NotARecord
    <2> QED
        BY <1>0, <1>3, <2>1 DEF Repeats
<1>5. NamesAgree'
    <2> SUFFICES ASSUME ~sync.late, Follows' PROVE \A r \in InHand' : r.name = server'.name
        BY DEF NamesAgree
    <2>1. ~(sync.init /\ sync.revision = server'.rev)
        BY <1>0 DEF PreferencesInv, SyncRuns
    <2>2. PICK e \in Elements(flight)' : Brings(e)'
        BY <2>1 DEF Follows
    <2>3. e \notin Elements(flight)
        BY <1>0, <1>3, <2>2 DEF Brings
    <2>4. e.mine /\ e.answer = server'
        BY <2>2, <2>3, NotARecord DEF Brings
    <2> QED
        BY <2>4
<1>6. QED
    BY <1>2, <1>4, <1>5 DEF RevisionsAgree

\* Another browser of the account.
LEMMA ElsewhereKeepsInv ==
    ASSUME PreferencesInv, Elsewhere
    PROVE  PreferencesInv'
<1>0. PreferencesState /\ server \in Record /\ server.rev \in Nat /\ sync.revision \in Nat
    BY DEF PreferencesInv, PreferencesState, Record, SyncRefs
<1>1. /\ UNCHANGED <<stores, cache, get, sync, flight, images, edits>> /\ events' \in 0..MaxEvents
      /\ server' \in Record /\ server'.rev = server.rev + 1
    <2>1. UNCHANGED <<stores, cache, get, sync, flight, images, edits>>
        BY DEF Elsewhere
    <2>0. events < MaxEvents /\ events' = events + 1
        BY DEF Elsewhere
    <2>4. events' \in 0..MaxEvents
        BY <1>0, <2>0, PreferencesAssumption DEF PreferencesState
    <2>2. \/ \E l \in Look : server' = [server EXCEPT !.rev = server.rev + 1, !.look = l]
          \/ \E n \in Name : server' = [server EXCEPT !.rev = server.rev + 1, !.name = n]
        BY DEF Elsewhere
    <2>3. server' \in Record /\ server'.rev = server.rev + 1
        <3> DEFINE next == [server EXCEPT !.rev = server.rev + 1]
        <3>1. next \in Record /\ next.rev = server.rev + 1
            BY <1>0 DEF Record
        <3>2. \/ \E l \in Look : server' = [next EXCEPT !.look = l]
              \/ \E n \in Name : server' = [next EXCEPT !.name = n]
            BY <2>2
        <3> HIDE DEF next
        <3>3. QED
            BY <3>1, <3>2 DEF Record
    <2> QED
        BY <2>1, <2>3, <2>4
<1>2. PreferencesState'
    BY <1>0, <1>1 DEF PreferencesState
<1>3. SyncRuns'
    BY <1>0, <1>1 DEF PreferencesInv, SyncRuns
<1>4. InHand' = InHand /\ Elements(flight)' = Elements(flight)
    BY <1>1 DEF InHand
<1>5. \A e \in Elements(flight) : e.answer # server'
    <2>1. \A e \in Elements(flight) : e.answer = server' => e.answer \in InHand
        BY <1>0, <1>1, Hand, NotARecord
    <2>2. \A r \in InHand : r.rev <= server.rev
        BY DEF PreferencesInv, RecordsAgree
    <2> QED
        BY <1>0, <1>1, <2>1, <2>2
<1>6. RevisionsAgree'
    BY <1>1, <1>4, <1>5, NextRevision
<1>7. QED
    BY <1>2, <1>3, <1>6 DEF PreferencesInv, RevisionsAgree

\* The server's answer to a document.  An accepted one of PreferencesSync
\* repeats the name of every record in hand.
LEMMA UpdateKeepsInv ==
    ASSUME PreferencesInv, UpdatePreferences
    PROVE  PreferencesInv'
<1>0. PreferencesState /\ flight \in Seq(Document) /\ server \in Record /\ server.rev \in Nat
    BY DEF PreferencesInv, PreferencesState, Record
<1>1. UNCHANGED <<stores, cache, get, sync, images, edits, events>>
    BY DEF UpdatePreferences
<1>2. PICK i \in DOMAIN flight :
         LET d == flight[i]
             r == [rev |-> d.rev + 1, look |-> d.look, wall |-> d.wall, name |-> d.name] IN
         /\ d.answer = NoRecord
         /\ IF d.rev = server.rev
            THEN server' = r /\ flight' = [flight EXCEPT ![i] = Answered(d, r)]
            ELSE server' = server /\ flight' = [flight EXCEPT ![i] = Answered(d, Refused)]
    BY DEF UpdatePreferences
<1> DEFINE d == flight[i]
           r == [rev |-> d.rev + 1, look |-> d.look, wall |-> d.wall, name |-> d.name]
           a == IF d.rev = server.rev THEN r ELSE Refused
<1>3. d \in Document /\ d \in Elements(flight) /\ r \in Record
    <2>1. d \in Document /\ d \in Elements(flight)
        BY <1>0, RequestsUnderWay
    <2> HIDE DEF d
    <2>2. r \in Record
        BY <2>1 DEF Document, Record
    <2> QED
        BY <2>1, <2>2
<1>4. d.answer = NoRecord /\ flight' = [flight EXCEPT ![i] = Answered(d, a)]
    BY <1>2
<1>5. server' = IF d.rev = server.rev THEN r ELSE server
    BY <1>2
<1>6. /\ Answered(d, a) \in Document /\ Answered(d, a).answer = a
      /\ Answered(d, a).mine = d.mine /\ Answered(d, a).kind = d.kind
    BY <1>3, FirstOfEach DEF Answered, Document
<1>7. Repeats(d)
    BY <1>3, <1>4 DEF PreferencesInv, DocumentsAgree
<1>8. r.rev = d.rev + 1 /\ r.name = d.name /\ a = IF d.rev = server.rev THEN r ELSE Refused
    OBVIOUS
<1> HIDE DEF d, r, a
<1>9. /\ flight' \in Seq(Document)
      /\ Elements(flight)' \subseteq Elements(flight) \union {Answered(d, a)}
    <2> DEFINE e == Answered(d, a)
    <2>1. e \in Document /\ flight' = [flight EXCEPT ![i] = e]
        BY <1>4, <1>6
    <2> HIDE DEF e
    <2>2. flight' \in Seq(Document) /\ Elements(flight)' \subseteq Elements(flight) \union {e}
        BY <1>0, <2>1, RequestsUnderWay
    <2> QED
        BY <2>2 DEF e
<1>10. PreferencesState'
    BY <1>0, <1>1, <1>3, <1>5, <1>9 DEF PreferencesState
<1>11. server'.rev \in Nat /\ server.rev <= server'.rev
    BY <1>0, <1>3, <1>5, <1>8 DEF Record
<1>12. SyncRuns'
    <2>1. sync.init => sync.revision <= server'.rev
        BY <1>0, <1>11 DEF PreferencesInv, SyncRuns, PreferencesState, SyncRefs
    <2>2. cache # NoRecord
        BY <1>0, <1>3, RequestsUnderWay DEF PreferencesInv, SyncRuns
    <2>3. \A e \in Elements(flight)' : e.mine => e.kind = "sync"
        BY <1>3, <1>6, <1>9 DEF PreferencesInv, SyncRuns
    <2> QED
        BY <1>1, <2>1, <2>2, <2>3 DEF PreferencesInv, SyncRuns
<1>13. RevisionsAgree'
    <2>1. CASE d.rev # server.rev
        <3>1. server' = server /\ a = Refused
            BY <1>5, <1>8, <2>1
        <3>2. InHand' \subseteq InHand
            BY <1>1, <1>6, <1>9, <3>1 DEF InHand
        <3>3. RecordsAgree'
            BY <3>1, <3>2 DEF PreferencesInv, RecordsAgree
        <3>4. DocumentsAgree'
            BY <1>1, <1>6, <1>9, <3>1, NotARecord DEF PreferencesInv, DocumentsAgree, Repeats
        <3>5. Follows' => Follows
            BY <1>1, <1>6, <1>9, <3>1, NotARecord DEF Follows, Brings
        <3>6. NamesAgree'
            BY <1>1, <3>1, <3>2, <3>5 DEF PreferencesInv, NamesAgree
        <3> QED
            BY <3>3, <3>4, <3>6 DEF RevisionsAgree
    <2>2. CASE d.rev = server.rev
        <3>1. server' = r /\ a = r /\ server'.rev = server.rev + 1
            BY <1>5, <1>8, <2>2
        <3>2. InHand' \subseteq InHand \union {server'}
            BY <1>1, <1>6, <1>9, <3>1 DEF InHand
        <3>3. \A e \in Elements(flight)' : e \in Elements(flight) \/ e.answer = server'
            BY <1>6, <1>9, <3>1
        <3>4. ASSUME NEW e \in Elements(flight)', e.mine, e.answer = server', ~sync.late
              PROVE  \A x \in InHand : x.name = server'.name
            <4>1. e \notin Elements(flight)
                <5>1. e \in Elements(flight) => server' \in InHand
                    BY <1>0, <1>3, <3>1, <3>4, Hand, NotARecord
                <5> QED
                    BY <1>0, <3>1, <5>1 DEF PreferencesInv, RecordsAgree
            <4>2. d.mine /\ Brings(d)
                BY <1>3, <1>4, <1>6, <1>9, <2>2, <3>4, <4>1 DEF Brings
            <4>3. \A x \in InHand : x.name = server.name
                BY <1>3, <3>4, <4>2 DEF PreferencesInv, NamesAgree, Follows
            <4>4. d.name = server.name
                BY <1>3, <1>7, <2>2, <3>4, <4>2 DEF PreferencesInv, SyncRuns, Repeats
            <4> QED
                BY <1>8, <3>1, <4>3, <4>4
        <3> QED
            BY <1>1, <1>3, <3>1, <3>2, <3>3, <3>4, NextRevision
    <2> QED
        BY <2>1, <2>2
<1>14. QED
    BY <1>10, <1>12, <1>13 DEF PreferencesInv, RevisionsAgree

\* The answer to an accepted document reaches the browser.
LEMMA SavedKeepsInv ==
    ASSUME PreferencesInv, Saved
    PROVE  PreferencesInv'
<1>0. PreferencesState /\ flight \in Seq(Document) /\ sync \in SyncRefs
    BY DEF PreferencesInv, PreferencesState
<1>1. PICK i \in DOMAIN flight :
         /\ flight[i].answer \notin {NoRecord, Refused}
         /\ flight' = RemoveAt(flight, i)
         /\ cache' = flight[i].answer
         /\ Effects(flight[i].answer,
                    IF flight[i].mine THEN [sync EXCEPT !.revision = flight[i].answer.rev]
                    ELSE sync)
    BY DEF Saved
<1> DEFINE d == flight[i]
           s == IF d.mine THEN [sync EXCEPT !.revision = d.answer.rev] ELSE sync
<1>2. /\ d \in Document /\ d \in Elements(flight)
      /\ flight' \in Seq(Document) /\ Elements(flight)' \subseteq Elements(flight)
    BY <1>0, <1>1, RequestsUnderWay
<1>3. d.answer \in Record /\ d.answer \in InHand /\ d.answer.rev \in Nat
    BY <1>0, <1>1, <1>2, Hand DEF Document, Record
<1>4. /\ s \in SyncRefs /\ s.mounted = sync.mounted /\ s.init = sync.init
      /\ s.timer = sync.timer /\ s.late = sync.late
      /\ s.revision = IF d.mine THEN d.answer.rev ELSE sync.revision
    BY <1>0, <1>3 DEF SyncRefs
<1>5. cache' = d.answer /\ Effects(d.answer, s) /\ UNCHANGED <<server, get, edits, events>>
    BY <1>1 DEF Saved
<1> HIDE DEF d, s
<1>6. cache # NoRecord /\ (sync.mounted => sync.init)
    BY <1>0, <1>2, RequestsUnderWay DEF PreferencesInv, SyncRuns
<1>7. /\ sync' \in SyncRefs /\ stores' \in [look : Look, wall : Wallpaper]
      /\ images' \in Seq(Image)
      /\ sync'.mounted = sync.mounted /\ sync'.late = sync.late
      /\ (sync'.timer => sync.timer) /\ sync'.init = sync.init
      /\ sync'.revision = IF d.mine THEN d.answer.rev ELSE sync.revision
    BY <1>0, <1>3, <1>4, <1>5, <1>6, EffectsOfARecord DEF PreferencesInv, SyncRuns, SyncRefs
<1>8. PreferencesState'
    BY <1>0, <1>2, <1>3, <1>5, <1>7 DEF PreferencesState
<1>9. d.answer.rev <= server.rev /\ cache' # NoRecord
    BY <1>3, <1>5, NotARecord DEF PreferencesInv, RecordsAgree
<1>10. SyncRuns'
    BY <1>2, <1>5, <1>6, <1>7, <1>9 DEF PreferencesInv, SyncRuns
<1>11. InHand' \subseteq InHand
    BY <1>2, <1>3, <1>5 DEF InHand
<1>12. RecordsAgree'
    BY <1>5, <1>11 DEF PreferencesInv, RecordsAgree
<1>13. DocumentsAgree'
    BY <1>2, <1>5, <1>7 DEF PreferencesInv, DocumentsAgree, Repeats
<1>14. Follows' => Follows
    BY <1>2, <1>3, <1>5, <1>7 DEF Follows, Brings
<1>15. NamesAgree'
    BY <1>5, <1>7, <1>11, <1>14 DEF PreferencesInv, NamesAgree
<1>16. QED
    BY <1>8, <1>10, <1>12, <1>13, <1>15 DEF PreferencesInv

LEMMA PreferencesStep == PreferencesInv /\ [PreferencesNext]_preferencesVars => PreferencesInv'
<1> SUFFICES ASSUME PreferencesInv, [PreferencesNext]_preferencesVars PROVE PreferencesInv'
    OBVIOUS
<1>1. CASE GetPreferences
    BY <1>1, GetKeepsInv
<1>2. CASE RecordArrives
    BY <1>2, RecordKeepsInv
<1>3. CASE GetFails \/ RefetchPreferences
    BY <1>3, FetchKeepsInv
<1>4. CASE \/ ThemeToggler \/ WindowSettings \/ ServicesSettings
           \/ ClockDropdownContent \/ WeatherOptions
    BY <1>4, ChoicesKeepInv
    DEF ThemeToggler, WindowSettings, ServicesSettings, ClockDropdownContent, WeatherOptions
<1>5. CASE SystemTheme \/ SelectPreset \/ SelectStored \/ WallpaperArrives \/ WallpaperFails
    BY <1>5, ChoicesKeepInv
<1>6. CASE Debounced \/ SaveProfile
    BY <1>6, SendingKeepsInv
<1>7. CASE UpdatePreferences
    BY <1>7, UpdateKeepsInv
<1>8. CASE Saved
    BY <1>8, SavedKeepsInv
<1>9. CASE Conflict \/ Lost
    BY <1>9, FailureKeepsInv
<1>10. CASE Elsewhere
    BY <1>10, ElsewhereKeepsInv
<1>11. CASE Unmount
    BY <1>11, UnmountKeepsInv
<1>12. CASE Mount
    BY <1>12, MountKeepsInv
<1>13. CASE ReloadPreferences
    BY <1>13, PageLoadKeepsInv
<1>14. CASE UNCHANGED preferencesVars
    BY <1>14 DEF preferencesVars, PreferencesInv, PreferencesState, SyncRuns, RecordsAgree,
                 DocumentsAgree, NamesAgree, InHand, Elements, Repeats, Follows, Brings
<1> QED
    BY <1>1, <1>2, <1>3, <1>4, <1>5, <1>6, <1>7, <1>8, <1>9, <1>10, <1>11, <1>12, <1>13, <1>14
    DEF PreferencesNext

\* A record of the server's revision is the server's, and a document, or a
\* PreferencesSync, of that revision repeats what it may not change, whatever
\* was lost, answered late, reloaded or saved elsewhere.
THEOREM PreferencesInvariance == PreferencesSpec => []PreferencesInv
BY PreferencesInitially, PreferencesStep, PTL DEF PreferencesSpec

LEMMA PreferencesTyped == PreferencesInv => PreferencesTypeOK
BY DEF PreferencesInv, PreferencesState, SyncRuns, PreferencesTypeOK, SyncRefs, Record

\* A step that changes the name: another browser's, or one of a document that
\* ProfilePage has sent with the server's revision.
LEMMA NameChanges ==
    ASSUME PreferencesInv, PreferencesNext, server'.name # server.name, ~sync.late
    PROVE  server'.look = server.look /\ server'.wall = server.wall
<1>1. CASE Elsewhere
    <2>1. server \in Record
        BY DEF PreferencesInv, PreferencesState
    <2> QED
        BY <1>1, <2>1 DEF Elsewhere, Record
<1>2. CASE UpdatePreferences
    <2>1. PICK i \in DOMAIN flight :
             /\ flight[i].answer = NoRecord /\ flight[i].rev = server.rev
             /\ server' = [rev |-> flight[i].rev + 1, look |-> flight[i].look,
                           wall |-> flight[i].wall, name |-> flight[i].name]
        BY <1>2 DEF UpdatePreferences
    <2>2. flight[i] \in Document /\ Repeats(flight[i])
        BY <2>1, RequestsUnderWay DEF PreferencesInv, PreferencesState, DocumentsAgree
    <2>3. flight[i].kind = "profile"
        BY <2>1, <2>2 DEF Repeats, Document
    <2> QED
        BY <2>1, <2>2, <2>3 DEF Repeats
<1>3. PreferencesNext /\ ~Elsewhere /\ ~UpdatePreferences => server' = server
    BY DEF PreferencesNext, GetPreferences, RecordArrives, GetFails, RefetchPreferences,
           ThemeToggler, WindowSettings, ServicesSettings, ClockDropdownContent, WeatherOptions,
           Choose, SystemTheme, SelectPreset, SelectStored, WallpaperArrives, WallpaperFails,
           Debounced, SaveProfile, Saved, Conflict, Lost, Unmount, Mount, ReloadPreferences
<1> QED
    BY <1>1, <1>2, <1>3

\* Whoever saves keeps what the others saved: no document takes back the name
\* together with a change of the stores, nor the stores with a change of the
\* name, for any number of choices, failures, reloads and other browsers.
THEOREM NamesAndStoresSurvive == PreferencesSpec => NoSilentOverwrite
<1>1. PreferencesInv /\ [PreferencesNext]_preferencesVars =>
        [server'.name # server.name /\ ~sync.late =>
            server'.look = server.look /\ server'.wall = server.wall]_preferencesVars
    BY NameChanges
<1>2. QED
    BY <1>1, PreferencesInvariance, PTL DEF PreferencesSpec, NoSilentOverwrite

-----------------------------------------------------------------------------
(* Operation tracking: the invariant. *)

TrackedRequest == [app : AppId, kind : Kind, id : 0..MaxOperations,
                   answer : {"sent", "accepted", "refused"}]
Lookup == [id : OperationId, status : {"sent", "running"} \union Ended]
ServedOperation == [app : AppId, kind : Kind, status : {"running"} \union Ended]

\* The type of every variable, in full.
TrackingState ==
    /\ operations \in [AppId -> Tracked \union {NoOperation}]
    /\ requests \in Seq(TrackedRequest) /\ lookups \in Seq(Lookup)
    /\ served \in Seq(ServedOperation) /\ log \in Seq(Tracked)
    /\ received \in 0..Len(log)
    /\ listed \in [AppId -> {"absent", "busy", "installed", "error"}]
    /\ breaks \in 0..MaxBreaks /\ overtaken \in [AppId -> BOOLEAN]

\* The armed timer drops what is finished now, whatever it was armed for.
TimerFollows == timer \subseteq Finished(operations)

\* What the store, an answer, an event or a lookup names has been served, the
\* store and the answers under the application it is of.
OperationsAreServed ==
    /\ \A a \in AppId : operations[a] # NoOperation =>
          operations[a].id \in DOMAIN served /\ served[operations[a].id].app = a
    /\ \A r \in Elements(requests) : r.answer = "accepted" =>
          r.id \in DOMAIN served /\ served[r.id].app = r.app
    /\ \A e \in Elements(log) \union Elements(lookups) : e.id \in DOMAIN served

\* There is an identifier for every request that waits.
Waiting(rs) == {i \in DOMAIN rs : rs[i].answer = "sent"}
RoomForRequests == Len(served) + Cardinality(Waiting(requests)) <= MaxOperations

TrackingInv == TrackingState /\ TimerFollows /\ OperationsAreServed /\ RoomForRequests

-----------------------------------------------------------------------------
(* Operation tracking: the invariant is inductive. *)

\* What waits is finite, and a step that removes or answers a request leaves
\* what waits, or less.
LEMMA WhatWaits ==
    ASSUME NEW rs \in Seq(TrackedRequest)
    PROVE  /\ IsFiniteSet(Waiting(rs)) /\ Cardinality(Waiting(rs)) \in Nat
           /\ Cardinality(Waiting(rs)) <= Len(rs)
<1>1. IsFiniteSet(1..Len(rs)) /\ Cardinality(1..Len(rs)) = Len(rs)
    <2>1. PICK n \in Nat : n = Len(rs)
        OBVIOUS
    <2>2. IsFiniteSet(1..n) /\ Cardinality(1..n) = IF 1 > n THEN 0 ELSE n - 1 + 1
        BY ONLY n \in Nat, FS_Interval
    <2>3. Cardinality(1..n) = n
        BY ONLY <2>2, n \in Nat
    <2> QED
        BY ONLY <2>1, <2>2, <2>3
<1>2. Waiting(rs) \subseteq 1..Len(rs)
    BY DEF Waiting
<1>3. QED
    BY <1>1, <1>2, FS_Subset, FS_CardinalityType

LEMMA AnotherWaits ==
    ASSUME NEW rs \in Seq(TrackedRequest), NEW r \in TrackedRequest
    PROVE  Cardinality(Waiting(Append(rs, r))) <= Len(rs) + 1
<1>1. Append(rs, r) \in Seq(TrackedRequest) /\ Len(Append(rs, r)) = Len(rs) + 1
    OBVIOUS
<1>2. QED
    BY <1>1, WhatWaits

LEMMA OneServed ==
    ASSUME NEW rs \in Seq(TrackedRequest), NEW i \in DOMAIN rs, rs[i].answer = "sent",
           NEW r \in TrackedRequest, r.answer # "sent"
    PROVE  Cardinality(Waiting([rs EXCEPT ![i] = r])) = Cardinality(Waiting(rs)) - 1
<1>1. Waiting([rs EXCEPT ![i] = r]) = Waiting(rs) \ {i} /\ i \in Waiting(rs)
    BY DEF Waiting
<1>2. IsFiniteSet(Waiting(rs))
    BY WhatWaits
<1>3. QED
    BY ONLY <1>1, <1>2, FS_RemoveElement

LEMMA OneAnswered ==
    ASSUME NEW rs \in Seq(TrackedRequest), NEW i \in DOMAIN rs
    PROVE  Cardinality(Waiting(RemoveAt(rs, i))) <= Cardinality(Waiting(rs))
<1> DEFINE w == Waiting(RemoveAt(rs, i))
           f == [j \in w |-> IF j < i THEN j ELSE j + 1]
<1>1. /\ i \in 1..Len(rs) /\ Len(rs) \in Nat /\ DOMAIN rs = 1..Len(rs)
      /\ RemoveAt(rs, i) \in Seq(TrackedRequest)
      /\ DOMAIN RemoveAt(rs, i) = 1..Len(rs) - 1
      /\ \A j \in 1..Len(rs) - 1 : RemoveAt(rs, i)[j] = IF j < i THEN rs[j] ELSE rs[j + 1]
    BY RemovedAt
<1>2. \A j \in w : j \in 1..Len(rs) - 1 /\ f[j] \in Waiting(rs)
    BY <1>1 DEF Waiting
<1>3. \A j, k \in w : f[j] = f[k] => j = k
    BY <1>2
<1> HIDE DEF w
<1>4. f \in Injection(w, Waiting(rs))
    BY <1>2, <1>3 DEF Injection, IsInjective
<1> HIDE DEF f
<1>5. Cardinality(w) <= Cardinality(Waiting(rs))
    BY <1>4, WhatWaits, FS_Injection
<1>6. QED
    BY <1>5 DEF w

\* A change of the store, and of its timer with it.
LEMMA Upserted ==
    ASSUME operations \in [AppId -> Tracked \union {NoOperation}],
           NEW a, NEW o \in Tracked \union {NoOperation}, Upsert(a, o)
    PROVE  /\ operations' \in [AppId -> Tracked \union {NoOperation}]
           /\ TimerFollows'
           /\ \A b \in AppId : operations'[b] = IF b = a THEN o ELSE operations[b]
<1>1. /\ operations' = [operations EXCEPT ![a] = o]
      /\ timer' = Finished([operations EXCEPT ![a] = o])
    BY DEF Upsert
<1>2. TimerFollows'
    BY <1>1 DEF TimerFollows
<1>3. QED
    BY <1>1, <1>2

LEMMA TrackingInitially == TrackingInit => TrackingInv
<1> SUFFICES ASSUME TrackingInit PROVE TrackingInv
    OBVIOUS
<1>1. TrackingState
    BY TrackingAssumption DEF TrackingInit, TrackingState
<1>2. TimerFollows
    BY DEF TrackingInit, TimerFollows
<1>3. OperationsAreServed
    BY DEF TrackingInit, OperationsAreServed, Elements
<1>4. RoomForRequests
    <2>1. Waiting(requests) = {} /\ Len(served) = 0
        BY DEF TrackingInit, Waiting
    <2> QED
        BY <2>1, FS_EmptySet, TrackingAssumption DEF RoomForRequests
<1>5. QED
    BY <1>1, <1>2, <1>3, <1>4 DEF TrackingInv

\* A request of the user.
LEMMA PressesKeepInv ==
    ASSUME TrackingInv, NEW a \in AppId,
           PressInstall(a) \/ PressManage(a) \/ PressUninstallTile(a) \/ SubmitForm(a)
    PROVE  TrackingInv'
<1>0. TrackingState /\ requests \in Seq(TrackedRequest) /\ Len(served) \in Nat
    BY DEF TrackingInv, TrackingState
<1>1. /\ \E k \in Kind : Mutate(a, k)
      /\ UNCHANGED <<operations, timer, lookups, served, log, received, connected,
                     listed, breaks, overtaken>>
    BY DEF PressInstall, PressManage, PressUninstallTile, SubmitForm, Kind
<1>2. PICK r \in TrackedRequest : /\ Len(served) + Len(requests) < MaxOperations
                                  /\ requests' = Append(requests, r) /\ r.answer = "sent"
    <2>1. PICK k \in Kind : Mutate(a, k)
        BY <1>1
    <2> DEFINE r == [app |-> a, kind |-> k, id |-> 0, answer |-> "sent"]
    <2>2. r \in TrackedRequest
        BY TrackingAssumption DEF TrackedRequest
    <2> QED
        BY <2>1, <2>2 DEF Mutate
<1>3. requests' \in Seq(TrackedRequest) /\ Elements(requests)' = Elements(requests) \union {r}
    BY <1>0, <1>2, RequestsUnderWay
<1>4. TrackingState'
    BY <1>0, <1>1, <1>3 DEF TrackingState
<1>5. TimerFollows'
    BY <1>1 DEF TrackingInv, TimerFollows
<1>6. OperationsAreServed'
    BY <1>1, <1>2, <1>3 DEF TrackingInv, OperationsAreServed
<1>7. RoomForRequests'
    <2>1. Cardinality(Waiting(requests')) <= Len(requests) + 1
        BY <1>0, <1>2, AnotherWaits
    <2>2. Cardinality(Waiting(requests')) \in Nat
        BY <1>3, WhatWaits
    <2> QED
        BY <1>0, <1>1, <1>2, <2>1, <2>2, TrackingAssumption DEF RoomForRequests
<1>8. QED
    BY <1>4, <1>5, <1>6, <1>7 DEF TrackingInv

\* The installed list, and the connection.
LEMMA ConnectionKeepsInv ==
    ASSUME TrackingInv, PollInstalled \/ StreamEnds \/ StreamConnects \/ ConnectRefused
    PROVE  TrackingInv'
<1>0. TrackingState
    BY DEF TrackingInv
<1>1. /\ UNCHANGED <<operations, timer, requests, lookups, served, log, overtaken>>
      /\ received' \in {0, received} /\ breaks' \in 0..MaxBreaks
    BY <1>0, TrackingAssumption
    DEF PollInstalled, StreamEnds, StreamConnects, ConnectRefused, TrackingState
<1>2. listed' \in [AppId -> {"absent", "busy", "installed", "error"}]
    <2>1. \A a \in AppId : Instance(a) \in {"absent", "busy", "installed", "error"}
        BY DEF Instance
    <2> QED
        BY <1>0, <2>1 DEF PollInstalled, StreamEnds, StreamConnects, ConnectRefused, TrackingState
<1>3. TrackingState'
    BY <1>0, <1>1, <1>2 DEF TrackingState
<1>4. TimerFollows' /\ OperationsAreServed' /\ RoomForRequests'
    BY <1>1 DEF TrackingInv, TimerFollows, OperationsAreServed, RoomForRequests
<1>5. QED
    BY <1>3, <1>4 DEF TrackingInv

\* What the server publishes of an operation.
LEMMA EventsPublished ==
    ASSUME TrackingState, NEW i \in OperationId, NEW status \in {"running"} \union Ended,
           NEW l, l = Announced(i, status)
    PROVE  /\ l \in Seq(Tracked) /\ Len(log) <= Len(l)
           /\ \A e \in Elements(l) : e \in Elements(log) \/ e.id = i
<1> DEFINE e == [id |-> i, status |-> status]
<1>1. e \in Tracked /\ e.id = i /\ log \in Seq(Tracked)
    BY DEF Tracked, TrackingState
<1>2. l = log \/ l = Append(log, e)
    BY DEF Announced
<1> HIDE DEF e
<1>3. /\ Append(log, e) \in Seq(Tracked) /\ Len(Append(log, e)) = Len(log) + 1
      /\ Elements(Append(log, e)) = Elements(log) \union {e}
    BY <1>1, RequestsUnderWay
<1>4. Len(log) \in Nat
    BY <1>1
<1>5. CASE l = log
    BY <1>1, <1>4, <1>5
<1>6. CASE l = Append(log, e)
    BY <1>1, <1>3, <1>4, <1>6
<1>7. QED
    BY <1>2, <1>5, <1>6

\* The server begins an operation, or refuses it.
LEMMA ServeKeepsInv ==
    ASSUME TrackingInv, ServeRequest
    PROVE  TrackingInv'
<1>0. /\ TrackingState /\ requests \in Seq(TrackedRequest) /\ served \in Seq(ServedOperation)
      /\ Len(served) \in Nat
    BY DEF TrackingInv, TrackingState
<1>1. PICK i \in DOMAIN requests :
         /\ requests[i].answer = "sent"
         /\ \/ /\ served' = Append(served, [app |-> requests[i].app,
                                            kind |-> requests[i].kind, status |-> "running"])
               /\ log' = Announced(Len(served'), "running")
               /\ requests' = [requests EXCEPT ![i].answer = "accepted", ![i].id = Len(served')]
            \/ /\ requests' = [requests EXCEPT ![i].answer = "refused"]
               /\ UNCHANGED <<served, log>>
    BY DEF ServeRequest
<1>2. UNCHANGED <<operations, timer, lookups, received, connected, listed, breaks, overtaken>>
    BY DEF ServeRequest
<1>3. /\ requests[i] \in TrackedRequest /\ requests[i] \in Elements(requests)
      /\ requests[i].app \in AppId /\ requests[i].kind \in Kind
    <2>1. requests[i] \in TrackedRequest /\ requests[i] \in Elements(requests)
        BY <1>0, RequestsUnderWay
    <2> QED
        BY <2>1 DEF TrackedRequest
<1>4. Cardinality(Waiting(requests)) \in Nat
    BY <1>0, WhatWaits
<1>5. TimerFollows'
    BY <1>2 DEF TrackingInv, TimerFollows
<1>6. CASE served' = served
    <2>0. requests' = [requests EXCEPT ![i].answer = "refused"] /\ UNCHANGED <<served, log>>
        BY <1>0, <1>1, <1>6
    <2>1. PICK r \in TrackedRequest : requests' = [requests EXCEPT ![i] = r] /\ r.answer = "refused"
        <3> DEFINE r == [requests[i] EXCEPT !.answer = "refused"]
        <3>1. r \in TrackedRequest /\ r.answer = "refused"
            BY <1>3 DEF TrackedRequest
        <3>2. requests' = [requests EXCEPT ![i] = r]
            BY <2>0
        <3> QED
            BY <3>1, <3>2
    <2>2. /\ requests' \in Seq(TrackedRequest)
          /\ Elements(requests)' \subseteq Elements(requests) \union {r}
        BY <1>0, <2>1, RequestsUnderWay
    <2>3. TrackingState'
        BY <1>0, <1>2, <2>0, <2>2 DEF TrackingState
    <2>4. OperationsAreServed'
        BY <1>2, <2>0, <2>1, <2>2 DEF TrackingInv, OperationsAreServed
    <2>5. Cardinality(Waiting(requests')) = Cardinality(Waiting(requests)) - 1
        BY <1>0, <1>1, <2>1, OneServed
    <2>6. RoomForRequests'
        BY <1>0, <1>4, <2>0, <2>5, TrackingAssumption DEF TrackingInv, RoomForRequests
    <2>7. QED
        BY <1>5, <2>3, <2>4, <2>6 DEF TrackingInv
<1>7. CASE served' # served
    <2> DEFINE o == [app |-> requests[i].app, kind |-> requests[i].kind, status |-> "running"]
               r == [[requests[i] EXCEPT !.answer = "accepted"] EXCEPT !.id = Len(served')]
    <2>0. /\ served' = Append(served, o) /\ log' = Announced(Len(served'), "running")
          /\ requests' = [requests EXCEPT ![i] = r]
        BY <1>1, <1>7
    <2>1. o \in ServedOperation /\ o.app = requests[i].app
        BY <1>3 DEF ServedOperation
    <2> HIDE DEF o
    <2>2. /\ served' \in Seq(ServedOperation) /\ Len(served') = Len(served) + 1
          /\ DOMAIN served = 1..Len(served) /\ DOMAIN served' = 1..Len(served')
          /\ \A j \in DOMAIN served : served'[j] = served[j]
          /\ served'[Len(served')] = o
        BY <1>0, <2>0, <2>1
    <2>3. Len(served') \in OperationId
        <3>1. i \in Waiting(requests)
            BY <1>1 DEF Waiting
        <3>2. Cardinality(Waiting(requests)) # 0
            BY <1>0, <3>1, WhatWaits, FS_EmptySet
        <3> QED
            BY <1>0, <1>4, <2>2, <3>2, TrackingAssumption
            DEF TrackingInv, RoomForRequests, OperationId
    <2>4. /\ r \in TrackedRequest /\ r.answer = "accepted"
          /\ r.app = requests[i].app /\ r.id = Len(served')
        <3> DEFINE q == [requests[i] EXCEPT !.answer = "accepted"]
        <3>1. q \in TrackedRequest /\ q.answer = "accepted" /\ q.app = requests[i].app
            BY <1>3 DEF TrackedRequest
        <3>2. Len(served') \in 0..MaxOperations
            BY <2>3, TrackingAssumption DEF OperationId
        <3> HIDE DEF q
        <3>3. QED
            BY <3>1, <3>2 DEF TrackedRequest, q
    <2> HIDE DEF r
    <2>5. /\ requests' \in Seq(TrackedRequest)
          /\ Elements(requests)' \subseteq Elements(requests) \union {r}
        BY <1>0, <2>0, <2>4, RequestsUnderWay
    <2>6. /\ log' \in Seq(Tracked) /\ Len(log) <= Len(log')
          /\ \A e \in Elements(log)' : e \in Elements(log) \/ e.id = Len(served')
        BY <1>0, <2>0, <2>3, EventsPublished
    <2>7. received' \in 0..Len(log')
        BY <1>0, <1>2, <2>6 DEF TrackingState
    <2>8. TrackingState'
        BY <1>0, <1>2, <2>2, <2>5, <2>6, <2>7 DEF TrackingState
    <2>9. Len(served') \in DOMAIN served' /\ DOMAIN served \subseteq DOMAIN served'
        BY <1>0, <2>2
    <2>10. \A a \in AppId : operations'[a] # NoOperation =>
              operations'[a].id \in DOMAIN served' /\ served'[operations'[a].id].app = a
        BY <1>2, <2>2, <2>9 DEF TrackingInv, OperationsAreServed
    <2>11. \A q \in Elements(requests)' : q.answer = "accepted" =>
              q.id \in DOMAIN served' /\ served'[q.id].app = q.app
        BY <2>1, <2>2, <2>4, <2>5, <2>9 DEF TrackingInv, OperationsAreServed
    <2>12. \A e \in (Elements(log) \union Elements(lookups))' : e.id \in DOMAIN served'
        BY <1>2, <2>6, <2>9 DEF TrackingInv, OperationsAreServed
    <2>13. OperationsAreServed'
        BY <2>10, <2>11, <2>12 DEF OperationsAreServed
    <2>14. Cardinality(Waiting(requests')) = Cardinality(Waiting(requests)) - 1
        BY <1>0, <1>1, <2>0, <2>4, OneServed
    <2>15. RoomForRequests'
        BY <1>0, <1>4, <2>2, <2>14, TrackingAssumption DEF TrackingInv, RoomForRequests
    <2>16. QED
        BY <1>5, <2>8, <2>13, <2>15 DEF TrackingInv
<1>8. QED
    BY <1>6, <1>7

\* The server ends an operation.
LEMMA FinishKeepsInv ==
    ASSUME TrackingInv, FinishOperation
    PROVE  TrackingInv'
<1>0. TrackingState /\ served \in Seq(ServedOperation) /\ Len(served) \in Nat
    BY DEF TrackingInv, TrackingState
<1>1. PICK i \in DOMAIN served, end \in Ended :
         served' = [served EXCEPT ![i].status = end] /\ log' = Announced(i, end)
    BY DEF FinishOperation
<1>2. UNCHANGED <<operations, timer, requests, lookups, received, connected, listed,
                  breaks, overtaken>>
    BY DEF FinishOperation
<1>3. served[i] \in ServedOperation
    BY <1>0, RequestsUnderWay
<1>4. PICK o \in ServedOperation : served' = [served EXCEPT ![i] = o] /\ o.app = served[i].app
    <2> DEFINE o == [served[i] EXCEPT !.status = end]
    <2>1. o \in ServedOperation /\ o.app = served[i].app
        BY <1>3 DEF ServedOperation
    <2>2. served' = [served EXCEPT ![i] = o]
        BY <1>1
    <2> QED
        BY <2>1, <2>2
<1>5. /\ served' \in Seq(ServedOperation) /\ Len(served') = Len(served)
      /\ DOMAIN served' = DOMAIN served
      /\ \A j \in DOMAIN served : served'[j].app = served[j].app
    BY <1>0, <1>4
<1>6. i \in OperationId
    <2>1. Cardinality(Waiting(requests)) \in Nat
        BY <1>0, WhatWaits DEF TrackingState
    <2> QED
        BY <1>0, <2>1, TrackingAssumption DEF TrackingInv, RoomForRequests, OperationId
<1>7. /\ log' \in Seq(Tracked) /\ Len(log) <= Len(log')
      /\ \A e \in Elements(log)' : e \in Elements(log) \/ e.id = i
    BY <1>0, <1>1, <1>6, EventsPublished
<1>8. received' \in 0..Len(log')
    BY <1>0, <1>2, <1>7 DEF TrackingState
<1>9. TrackingState'
    BY <1>0, <1>2, <1>5, <1>7, <1>8 DEF TrackingState
<1>10. TimerFollows'
    BY <1>2 DEF TrackingInv, TimerFollows
<1>11. OperationsAreServed'
    BY <1>2, <1>5, <1>7 DEF TrackingInv, OperationsAreServed
<1>12. RoomForRequests'
    BY <1>2, <1>5 DEF TrackingInv, RoomForRequests
<1>13. QED
    BY <1>9, <1>10, <1>11, <1>12 DEF TrackingInv

\* The answer to a request.
LEMMA AnswerKeepsInv ==
    ASSUME TrackingInv, RequestAnswered
    PROVE  TrackingInv'
<1>0. /\ TrackingState /\ requests \in Seq(TrackedRequest) /\ Len(served) \in Nat
      /\ served \in Seq(ServedOperation)
    BY DEF TrackingInv, TrackingState
<1>1. PICK i \in DOMAIN requests :
         /\ requests[i].answer # "sent"
         /\ requests' = RemoveAt(requests, i)
         /\ IF requests[i].answer = "refused"
            THEN UNCHANGED <<operations, timer, overtaken>>
            ELSE /\ Upsert(requests[i].app, [id |-> requests[i].id, status |-> "running"])
                 /\ overtaken' = [overtaken EXCEPT ![requests[i].app] = Heard(requests[i].id)]
    BY DEF RequestAnswered
<1> DEFINE r == requests[i]
<1>2. UNCHANGED <<lookups, served, log, received, connected, listed, breaks>>
    BY DEF RequestAnswered
<1>3. /\ r \in TrackedRequest /\ r \in Elements(requests)
      /\ requests' \in Seq(TrackedRequest) /\ Elements(requests)' \subseteq Elements(requests)
    BY <1>0, <1>1, RequestsUnderWay
<1>4. Cardinality(Waiting(requests')) <= Cardinality(Waiting(requests))
    BY <1>0, <1>1, OneAnswered
<1>5. Cardinality(Waiting(requests)) \in Nat /\ Cardinality(Waiting(requests')) \in Nat
    BY <1>0, <1>3, WhatWaits
<1>6. RoomForRequests'
    BY <1>0, <1>2, <1>4, <1>5, TrackingAssumption DEF TrackingInv, RoomForRequests
<1>7. CASE r.answer = "refused"
    <2>1. UNCHANGED <<operations, timer, overtaken>>
        BY <1>1, <1>7
    <2>2. TrackingState' /\ TimerFollows' /\ OperationsAreServed'
        BY <1>0, <1>2, <1>3, <2>1 DEF TrackingInv, TrackingState, TimerFollows, OperationsAreServed
    <2>3. QED
        BY <1>6, <2>2 DEF TrackingInv
<1>8. CASE r.answer # "refused"
    <2> DEFINE o == [id |-> r.id, status |-> "running"]
    <2>1. /\ Upsert(r.app, o) /\ r.answer = "accepted"
          /\ overtaken' = [overtaken EXCEPT ![r.app] = Heard(r.id)]
        BY <1>1, <1>3, <1>8 DEF TrackedRequest
    <2>2. r.app \in AppId /\ r.id \in DOMAIN served /\ served[r.id].app = r.app
        BY <1>3, <2>1 DEF TrackingInv, OperationsAreServed, TrackedRequest
    <2>3. o \in Tracked /\ o.id = r.id
        <3>1. r.id \in OperationId
            BY <1>0, <1>5, <2>2, TrackingAssumption DEF TrackingInv, RoomForRequests, OperationId
        <3> QED
            BY <3>1 DEF Tracked
    <2> HIDE DEF r, o
    <2>4. /\ operations' \in [AppId -> Tracked \union {NoOperation}] /\ TimerFollows'
          /\ \A a \in AppId : operations'[a] = IF a = r.app THEN o ELSE operations[a]
        BY <1>0, <2>1, <2>3, Upserted DEF TrackingState
    <2>5. overtaken' \in [AppId -> BOOLEAN]
        BY <1>0, <2>1 DEF TrackingState, Heard
    <2>6. TrackingState'
        BY <1>0, <1>2, <1>3, <2>4, <2>5 DEF TrackingState
    <2>7. OperationsAreServed'
        BY <1>2, <1>3, <2>2, <2>3, <2>4 DEF TrackingInv, OperationsAreServed
    <2>8. QED
        BY <1>6, <2>4, <2>6, <2>7 DEF TrackingInv
<1>9. QED
    BY <1>7, <1>8

\* A step that changes the store for one application, from an event or the
\* answer to a lookup, by an operation of it or by none.
LEMMA StoreKeepsInv ==
    ASSUME TrackingInv, NEW a, NEW o \in Tracked \union {NoOperation}, Upsert(a, o),
           o # NoOperation => o.id \in DOMAIN served /\ served[o.id].app = a,
           UNCHANGED <<requests, served, log, listed>>,
           lookups' \in Seq(Lookup), Elements(lookups)' \subseteq Elements(lookups),
           received' \in 0..Len(log), breaks' \in 0..MaxBreaks,
           overtaken' \in [AppId -> BOOLEAN]
    PROVE  TrackingInv'
<1>0. TrackingState
    BY DEF TrackingInv
<1>1. /\ operations' \in [AppId -> Tracked \union {NoOperation}] /\ TimerFollows'
      /\ \A b \in AppId : operations'[b] = IF b = a THEN o ELSE operations[b]
    BY <1>0, Upserted DEF TrackingState
<1>2. TrackingState'
    BY <1>0, <1>1 DEF TrackingState
<1>3. OperationsAreServed'
    BY <1>1 DEF TrackingInv, OperationsAreServed
<1>4. RoomForRequests'
    BY DEF TrackingInv, RoomForRequests
<1>5. QED
    BY <1>1, <1>2, <1>3, <1>4 DEF TrackingInv

\* An event of the stream.
LEMMA EventKeepsInv ==
    ASSUME TrackingInv, StreamEvent
    PROVE  TrackingInv'
<1>0. TrackingState /\ log \in Seq(Tracked) /\ Len(log) \in Nat
    BY DEF TrackingInv, TrackingState
<1> DEFINE e == log[received + 1]
           a == served[e.id].app
<1>1. /\ received < Len(log) /\ received' = received + 1 /\ Upsert(a, e)
      /\ overtaken' = [overtaken EXCEPT ![a] = FALSE]
      /\ UNCHANGED <<requests, lookups, served, log, connected, listed, breaks>>
    BY DEF StreamEvent
<1>2. received + 1 \in DOMAIN log /\ received' \in 0..Len(log)
    BY <1>0, <1>1 DEF TrackingState
<1>3. e \in Tracked /\ e \in Elements(log)
    BY <1>0, <1>2, RequestsUnderWay
<1>4. e.id \in DOMAIN served
    BY <1>3 DEF TrackingInv, OperationsAreServed
<1>5. overtaken' \in [AppId -> BOOLEAN]
    BY <1>0, <1>1 DEF TrackingState
<1> HIDE DEF e
<1>6. QED
    BY <1>0, <1>1, <1>2, <1>3, <1>4, <1>5, StoreKeepsInv DEF TrackingState

\* The server's answer to a lookup, what the browser makes of it, and its
\* failure.
LEMMA LookupKeepsInv ==
    ASSUME TrackingInv, LookupServed \/ LookupAnswered \/ LookupFails
    PROVE  TrackingInv'
<1>0. TrackingState /\ lookups \in Seq(Lookup) /\ served \in Seq(ServedOperation)
    BY DEF TrackingInv, TrackingState
<1>1. CASE LookupServed
    <2>1. PICK i \in DOMAIN lookups :
             lookups' = [lookups EXCEPT ![i].status = served[lookups[i].id].status]
        BY <1>1 DEF LookupServed
    <2>2. lookups[i] \in Lookup /\ lookups[i] \in Elements(lookups)
        BY <1>0, RequestsUnderWay
    <2>3. served[lookups[i].id] \in ServedOperation
        BY <1>0, <2>2, RequestsUnderWay DEF TrackingInv, OperationsAreServed
    <2>4. PICK o \in Lookup : lookups' = [lookups EXCEPT ![i] = o] /\ o.id = lookups[i].id
        <3> DEFINE o == [lookups[i] EXCEPT !.status = served[lookups[i].id].status]
        <3>1. o \in Lookup /\ o.id = lookups[i].id
            BY <2>2, <2>3 DEF Lookup, ServedOperation
        <3>2. lookups' = [lookups EXCEPT ![i] = o]
            BY <2>1
        <3> QED
            BY <3>1, <3>2
    <2>5. lookups' \in Seq(Lookup) /\ Elements(lookups)' \subseteq Elements(lookups) \union {o}
        BY <1>0, <2>4, RequestsUnderWay
    <2>6. UNCHANGED <<operations, timer, requests, served, log, received, connected, listed,
                      breaks, overtaken>>
        BY <1>1 DEF LookupServed
    <2>7. TrackingState'
        BY <1>0, <2>5, <2>6 DEF TrackingState
    <2>8. OperationsAreServed'
        BY <2>2, <2>4, <2>5, <2>6 DEF TrackingInv, OperationsAreServed
    <2>9. TimerFollows' /\ RoomForRequests'
        BY <2>6 DEF TrackingInv, TimerFollows, RoomForRequests
    <2>10. QED
        BY <2>7, <2>8, <2>9 DEF TrackingInv
<1>2. CASE LookupAnswered
    <2>1. PICK i \in DOMAIN lookups :
             /\ lookups[i].status # "sent"
             /\ lookups' = RemoveAt(lookups, i)
             /\ Upsert(served[lookups[i].id].app, lookups[i])
             /\ overtaken' = [overtaken EXCEPT ![served[lookups[i].id].app] =
                                 lookups[i].status = "running" /\ Heard(lookups[i].id)]
        BY <1>2 DEF LookupAnswered
    <2> DEFINE o == lookups[i]
               a == served[o.id].app
    <2>2. /\ o \in Lookup /\ o \in Elements(lookups)
          /\ lookups' \in Seq(Lookup) /\ Elements(lookups)' \subseteq Elements(lookups)
        BY <1>0, <2>1, RequestsUnderWay
    <2>3. o \in Tracked
        BY <2>1, <2>2 DEF Lookup, Tracked
    <2>4. o.id \in DOMAIN served
        BY <2>2 DEF TrackingInv, OperationsAreServed
    <2>5. overtaken' \in [AppId -> BOOLEAN]
        BY <1>0, <2>1 DEF TrackingState
    <2>6. UNCHANGED <<requests, served, log, received, connected, listed, breaks>>
        BY <1>2 DEF LookupAnswered
    <2>7. Upsert(a, o)
        BY <2>1
    <2> HIDE DEF o
    <2>8. QED
        BY <1>0, <2>2, <2>3, <2>4, <2>5, <2>6, <2>7, StoreKeepsInv DEF TrackingState
<1>3. CASE LookupFails
    <2>1. PICK i \in DOMAIN lookups : /\ lookups' = RemoveAt(lookups, i)
                                      /\ Upsert(served[lookups[i].id].app, NoOperation)
        BY <1>3 DEF LookupFails
    <2>2. lookups' \in Seq(Lookup) /\ Elements(lookups)' \subseteq Elements(lookups)
        BY <1>0, <2>1, RequestsUnderWay
    <2>3. /\ UNCHANGED <<requests, served, log, received, connected, listed, overtaken>>
          /\ breaks' \in 0..MaxBreaks
        BY <1>0, <1>3, TrackingAssumption DEF LookupFails, TrackingState
    <2>4. QED
        BY <1>0, <2>1, <2>2, <2>3, StoreKeepsInv DEF TrackingState
<1>4. QED
    BY <1>1, <1>2, <1>3

\* The timer.
LEMMA TimerKeepsInv ==
    ASSUME TrackingInv, TimerFires
    PROVE  TrackingInv'
<1>0. TrackingState
    BY DEF TrackingInv
<1>1. /\ operations' = [a \in AppId |-> IF a \in timer THEN NoOperation ELSE operations[a]]
      /\ timer' = {}
      /\ UNCHANGED <<requests, lookups, served, log, received, connected, listed,
                     breaks, overtaken>>
    BY DEF TimerFires
<1>2. TrackingState'
    BY <1>0, <1>1 DEF TrackingState
<1>3. TimerFollows' /\ RoomForRequests'
    BY <1>1 DEF TrackingInv, TimerFollows, RoomForRequests
<1>4. OperationsAreServed'
    BY <1>1 DEF TrackingInv, OperationsAreServed
<1>5. QED
    BY <1>2, <1>3, <1>4 DEF TrackingInv

\* A finite set as a sequence.
LEMMA SetAsSequence ==
    ASSUME NEW S, IsFiniteSet(S)
    PROVE  SetToSeq(S) \in Seq(S) /\ Elements(SetToSeq(S)) \subseteq S
<1>1. Cardinality(S) \in Nat /\ ExistsBijection(1..Cardinality(S), S)
    BY FS_CardinalityType
<1>2. \E f \in [1..Cardinality(S) -> S] : IsInjective(f)
    BY <1>1 DEF ExistsBijection, Bijection, Injection
<1>3. SetToSeq(S) \in [1..Cardinality(S) -> S]
    BY <1>2 DEF SetToSeq
<1>4. QED
    BY <1>1, <1>3 DEF Elements

\* The page is loaded again.
LEMMA StoreReloadKeepsInv ==
    ASSUME TrackingInv, ReloadStore
    PROVE  TrackingInv'
<1>0. TrackingState /\ Len(served) \in Nat
    BY DEF TrackingInv, TrackingState
<1> DEFINE kept == {a \in AppId : Busy(a)}
           asked == {[operations[a] EXCEPT !.status = "sent"] : a \in kept}
<1>1. /\ breaks < MaxBreaks /\ breaks' = breaks + 1
      /\ operations' = [a \in AppId |-> IF a \in kept THEN operations[a] ELSE NoOperation]
      /\ lookups' = SetToSeq(asked)
      /\ timer' = {} /\ requests' = << >> /\ received' = 0
      /\ UNCHANGED <<served, log, listed, overtaken>>
    BY DEF ReloadStore
<1>2. \A a \in kept : operations[a] \in Tracked /\ operations[a].id \in DOMAIN served
    BY <1>0 DEF Busy, isRunningOperation, TrackingInv, TrackingState, OperationsAreServed
<1>3. \A l \in asked : l \in Lookup /\ l.id \in DOMAIN served
    BY <1>2 DEF Tracked, Lookup
<1>4. IsFiniteSet(asked)
    <2>1. IsFiniteSet(kept)
        BY TrackingAssumption, FS_Subset
    <2> DEFINE f == [a \in kept |-> [operations[a] EXCEPT !.status = "sent"]]
    <2>2. f \in Surjection(kept, asked)
        BY DEF Surjection
    <2> HIDE DEF f, kept, asked
    <2> QED
        BY <2>1, <2>2, FS_Surjection
<1> HIDE DEF kept, asked
<1>5. lookups' \in Seq(Lookup) /\ Elements(lookups)' \subseteq asked
    <2>1. SetToSeq(asked) \in Seq(asked) /\ Elements(SetToSeq(asked)) \subseteq asked
        BY <1>4, SetAsSequence
    <2> QED
        BY <1>1, <1>3, <2>1
<1>6. breaks' \in 0..MaxBreaks
    BY <1>0, <1>1, TrackingAssumption DEF TrackingState
<1>7. TrackingState'
    BY <1>0, <1>1, <1>5, <1>6 DEF TrackingState
<1>8. TimerFollows'
    BY <1>1 DEF TimerFollows
<1>9. OperationsAreServed'
    <2>1. Elements(requests)' = {}
        BY <1>1 DEF Elements
    <2> QED
        BY <1>1, <1>3, <1>5, <2>1 DEF TrackingInv, OperationsAreServed
<1>10. RoomForRequests'
    <2>1. Waiting(requests') = {}
        BY <1>1 DEF Waiting
    <2>2. Cardinality(Waiting(requests)) \in Nat
        BY <1>0, WhatWaits DEF TrackingState
    <2>3. Cardinality(Waiting(requests')) = 0
        BY <2>1, FS_EmptySet
    <2> QED
        BY <1>0, <1>1, <2>2, <2>3, TrackingAssumption DEF TrackingInv, RoomForRequests
<1>11. QED
    BY <1>7, <1>8, <1>9, <1>10 DEF TrackingInv

LEMMA TrackingStep == TrackingInv /\ [TrackingNext]_trackingVars => TrackingInv'
<1> SUFFICES ASSUME TrackingInv, [TrackingNext]_trackingVars PROVE TrackingInv'
    OBVIOUS
<1>1. ASSUME NEW a \in AppId,
             PressInstall(a) \/ PressManage(a) \/ PressUninstallTile(a) \/ SubmitForm(a)
      PROVE  TrackingInv'
    BY <1>1, PressesKeepInv
<1>2. CASE PollInstalled \/ StreamEnds \/ StreamConnects \/ ConnectRefused
    BY <1>2, ConnectionKeepsInv
<1>3. CASE ServeRequest
    BY <1>3, ServeKeepsInv
<1>4. CASE FinishOperation
    BY <1>4, FinishKeepsInv
<1>5. CASE RequestAnswered
    BY <1>5, AnswerKeepsInv
<1>6. CASE StreamEvent
    BY <1>6, EventKeepsInv
<1>7. CASE LookupServed \/ LookupAnswered \/ LookupFails
    BY <1>7, LookupKeepsInv
<1>8. CASE TimerFires
    BY <1>8, TimerKeepsInv
<1>9. CASE ReloadStore
    BY <1>9, StoreReloadKeepsInv
<1>10. CASE UNCHANGED trackingVars
    BY <1>10 DEF trackingVars, TrackingInv, TrackingState, TimerFollows, OperationsAreServed,
                 RoomForRequests
<1>11. QED
    BY <1>1, <1>2, <1>3, <1>4, <1>5, <1>6, <1>7, <1>8, <1>9, <1>10 DEF TrackingNext

\* The type of the store, of the requests and of what the server says of them;
\* that the armed timer drops only what is finished; and that every operation
\* the browser names has been served, under its application: they hold in every
\* state of every behaviour.
THEOREM TrackingInvariance == TrackingSpec => []TrackingInv
BY TrackingInitially, TrackingStep, PTL DEF TrackingSpec

LEMMA TrackingTyped == TrackingInv => TrackingTypeOK
<1> SUFFICES ASSUME TrackingInv PROVE TrackingTypeOK
    OBVIOUS
<1>1. \A i \in DOMAIN served : served[i] \in ServedOperation
    BY RequestsUnderWay DEF TrackingInv, TrackingState
<1>2. timer \subseteq AppId
    BY DEF TrackingInv, TimerFollows, Finished
<1>3. QED
    BY <1>1, <1>2
    DEF TrackingInv, TrackingState, OperationsAreServed, TrackingTypeOK, ServedOperation

\* What is put into the store is an operation.
LEMMA UpsertsLeave ==
    ASSUME TrackingInv, NEW a \in AppId, Busy(a), operations'[a] = NoOperation,
           NEW b, NEW o \in Tracked, Upsert(b, o)
    PROVE  FALSE
<1>1. operations[a] # NoOperation /\ operations \in [AppId -> Tracked \union {NoOperation}]
    BY DEF Busy, isRunningOperation, TrackingInv, TrackingState
<1>2. operations'[a] = IF a = b THEN o ELSE operations[a]
    BY <1>1, Upserted
<1>3. QED
    BY <1>1, <1>2, NoOperationAssumption

\* A running operation leaves the store only when its lookup fails: neither the
\* timer of an earlier operation of the application nor a reload takes it away.
LEMMA RunningStaysStep ==
    ASSUME TrackingInv, TrackingNext, NEW a \in AppId, Busy(a), operations'[a] = NoOperation
    PROVE  \E l \in DOMAIN lookups : /\ served[lookups[l].id].app = a
                                     /\ Len(lookups') < Len(lookups)
<1>0. /\ TrackingState /\ operations[a] # NoOperation /\ operations[a].status = "running"
      /\ operations \in [AppId -> Tracked \union {NoOperation}]
    BY DEF Busy, isRunningOperation, TrackingInv, TrackingState
<1>1. operations' # operations
    BY <1>0
<1>2. \/ RequestAnswered \/ StreamEvent \/ LookupAnswered \/ LookupFails \/ TimerFires
      \/ ReloadStore
    BY <1>1 DEF TrackingNext, PressInstall, PressManage, PressUninstallTile, SubmitForm,
                PollInstalled, ServeRequest, FinishOperation, StreamEnds, StreamConnects,
                ConnectRefused, LookupServed
<1>3. CASE RequestAnswered
    <2>1. PICK i \in DOMAIN requests :
             /\ requests[i].answer # "sent"
             /\ \/ operations' = operations
                \/ /\ requests[i].answer # "refused"
                   /\ Upsert(requests[i].app, [id |-> requests[i].id, status |-> "running"])
        BY <1>3 DEF RequestAnswered
    <2>2. requests[i] \in TrackedRequest /\ requests[i] \in Elements(requests)
        BY <1>0, RequestsUnderWay DEF TrackingState
    <2>3. requests[i].id \in DOMAIN served
        BY <1>1, <2>1, <2>2 DEF TrackingInv, OperationsAreServed, TrackedRequest
    <2>4. [id |-> requests[i].id, status |-> "running"] \in Tracked
        <3>1. requests[i].id \in 1..Len(served) /\ Len(served) \in Nat
            BY <1>0, <2>3 DEF TrackingState
        <3>2. Cardinality(Waiting(requests)) \in Nat
            BY <1>0, WhatWaits DEF TrackingState
        <3>3. requests[i].id \in OperationId
            BY <3>1, <3>2, TrackingAssumption DEF TrackingInv, RoomForRequests, OperationId
        <3> QED
            BY <3>3 DEF Tracked
    <2>5. QED
        BY <1>1, <2>1, <2>4, UpsertsLeave
<1>4. CASE StreamEvent
    <2>1. received < Len(log) /\ Upsert(served[log[received + 1].id].app, log[received + 1])
        BY <1>4 DEF StreamEvent
    <2>2. received + 1 \in DOMAIN log
        BY <1>0, <2>1 DEF TrackingState
    <2>3. log[received + 1] \in Tracked
        BY <1>0, <2>2, RequestsUnderWay DEF TrackingState
    <2>4. QED
        BY <2>1, <2>3, UpsertsLeave
<1>5. CASE LookupAnswered
    <2>1. PICK i \in DOMAIN lookups :
             lookups[i].status # "sent" /\ Upsert(served[lookups[i].id].app, lookups[i])
        BY <1>5 DEF LookupAnswered
    <2>2. lookups[i] \in Lookup
        BY <1>0, RequestsUnderWay DEF TrackingState
    <2>3. lookups[i] \in Tracked
        BY <2>1, <2>2 DEF Lookup, Tracked
    <2>4. QED
        BY <2>1, <2>3, UpsertsLeave
<1>6. CASE LookupFails
    <2>1. PICK i \in DOMAIN lookups : /\ lookups' = RemoveAt(lookups, i)
                                      /\ Upsert(served[lookups[i].id].app, NoOperation)
        BY <1>6 DEF LookupFails
    <2>2. Len(lookups') < Len(lookups)
        <3>1. lookups \in Seq(Lookup) /\ Len(lookups) \in Nat /\ i \in 1..Len(lookups)
            BY <1>0 DEF TrackingState
        <3>2. Len(lookups') = Len(lookups) - 1
            BY <2>1, <3>1, RemovedAt
        <3> QED
            BY <3>1, <3>2
    <2>3. served[lookups[i].id].app = a
        BY <1>0, <2>1, Upserted
    <2>4. QED
        BY <2>2, <2>3
<1>7. CASE TimerFires
    <2>1. a \in timer
        BY <1>0, <1>7 DEF TimerFires
    <2>2. operations[a].status \in Ended
        BY <2>1 DEF TrackingInv, TimerFollows, Finished, isTerminalOperation
    <2>3. QED
        BY <1>0, <2>2 DEF Ended
<1>8. CASE ReloadStore
    BY <1>0, <1>8 DEF ReloadStore
<1>9. QED
    BY <1>2, <1>3, <1>4, <1>5, <1>6, <1>7, <1>8

\* No behaviour loses a running operation but by a failed lookup, for any
\* applications, requests, overlapping operations and broken connections.
THEOREM RunningStays == TrackingSpec => RunningOperationsStay
<1>1. TrackingInv /\ [TrackingNext]_trackingVars =>
        [\A a \in AppId : Busy(a) /\ operations'[a] = NoOperation =>
            \E l \in DOMAIN lookups :
               served[lookups[l].id].app = a /\ Len(lookups') < Len(lookups)]_trackingVars
    BY RunningStaysStep
<1>2. QED
    BY <1>1, TrackingInvariance, PTL DEF TrackingSpec, RunningOperationsStay

-----------------------------------------------------------------------------
(* The two parts that must agree with the server, as their run composes them. *)

\* The store of operations, its timer, requests, lookups and events have their
\* types, and every operation in them has been served.
THEOREM TrackingTypeCorrect == TrackingSpec => []TrackingTypeOK
    BY TrackingInvariance, TrackingTyped, PTL

\* The preferences and the reconciler keep their types while the other stays as it
\* begins.
THEOREM AgreementIsTyped == AgreementSpec => []AgreementTypeOK
<1> DEFINE Inv == PreferencesInv /\ IInv
<1>1. AgreementInit => Inv
    BY PreferencesInitially, InitIInv DEF AgreementInit
<1>2. Inv /\ [AgreementNext]_agreementVars => Inv'
    <2>1. [AgreementNext]_agreementVars => [PreferencesNext]_preferencesVars /\ [Next]_vars
        BY DEF AgreementNext, agreementVars
    <2> QED
        BY <2>1, PreferencesStep, NextIInv
<1>3. Inv => AgreementTypeOK
    BY PreferencesTyped DEF IInv, AgreementTypeOK
<1>4. QED
    BY <1>1, <1>2, <1>3, PTL DEF AgreementSpec

=============================================================================
