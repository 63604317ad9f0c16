-------------------------- MODULE Registrations_proofs --------------------------
(***************************************************************************)
(* For any roster, files, intervals and bounds: no agent that has a value  *)
(* in the series is lost, neither to an edit of the file nor to a restart; *)
(* an address is one agent, if the configuration spells its own out; and a *)
(* checkpoint far enough past the last edit knows whoever is in the file.  *)
(* The inductions carry the same of the checkpoint, which a restart        *)
(* returns to.                                                             *)
(***************************************************************************)
EXTENDS Registrations, FiniteSetTheorems, WellFoundedInduction, TLAPS

\* The rows are a sequence.
IsSeq(r) == \E S : r \in Seq(S)

\* An agent in one row is in every later one.
Kept(r) == \A i, j \in DOMAIN r : i < j => DOMAIN r[i].values \subseteq DOMAIN r[j].values

\* The rows name agents of the roster.
Named(r, agents) == \A i \in DOMAIN r : DOMAIN r[i].values \subseteq Ids(agents)

Sound(r, agents) == IsSeq(r) /\ Kept(r) /\ Named(r, agents)

IInv == Sound(rows, roster) /\ Sound(saved.rows, saved.roster)

LEMMA EmptyIsSound == ASSUME NEW agents PROVE Sound(<<>>, agents)
<1>1. <<>> \in Seq({}) /\ DOMAIN <<>> = {}
  OBVIOUS
<1>2. QED
  BY <1>1 DEF Sound, IsSeq, Kept, Named

\* Rows that each name the whole roster may be appended.
LEMMA AppendedRows ==
    ASSUME NEW r, NEW agents, Sound(r, agents), NEW n \in Nat, NEW t,
           t \in [1 .. n -> Range(t)], \A i \in 1 .. n : DOMAIN t[i].values = Ids(agents)
    PROVE  Sound(r \o t, agents)
<1>1. PICK S : r \in Seq(S)
  BY DEF Sound, IsSeq
<1>2. t \in Seq(Range(t)) /\ Len(t) = n
  OBVIOUS
<1>3. r \in Seq(S \cup Range(t)) /\ t \in Seq(S \cup Range(t))
  BY <1>1, <1>2
<1>4. /\ r \o t \in Seq(S \cup Range(t))
      /\ Len(r) \in Nat /\ DOMAIN r = 1 .. Len(r)
      /\ DOMAIN (r \o t) = 1 .. Len(r) + n
      /\ \A i \in 1 .. Len(r) + n : (r \o t)[i] = IF i <= Len(r) THEN r[i] ELSE t[i - Len(r)]
  BY <1>2, <1>3
<1>5. ASSUME NEW i \in DOMAIN (r \o t)
      PROVE  /\ i <= Len(r) => (r \o t)[i] = r[i] /\ DOMAIN r[i].values \subseteq Ids(agents)
             /\ i > Len(r) => DOMAIN (r \o t)[i].values = Ids(agents)
  <2>1. CASE i <= Len(r)
    BY <1>4, <2>1 DEF Sound, Named
  <2>2. CASE i > Len(r)
    <3>1. i - Len(r) \in 1 .. n /\ (r \o t)[i] = t[i - Len(r)]
      BY <1>4, <2>2
    <3>2. QED
      BY <1>4, <2>2, <3>1
  <2>3. QED
    BY <1>4, <2>1, <2>2
<1>6. Named(r \o t, agents)
  BY <1>4, <1>5 DEF Named
<1>7. ASSUME NEW i \in DOMAIN (r \o t), NEW j \in DOMAIN (r \o t), i < j
      PROVE  DOMAIN (r \o t)[i].values \subseteq DOMAIN (r \o t)[j].values
  <2>1. CASE j <= Len(r)
    <3>1. i \in DOMAIN r /\ j \in DOMAIN r /\ i <= Len(r)
      BY <1>4, <1>7, <2>1
    <3>2. QED
      BY <1>5, <1>7, <2>1, <3>1 DEF Sound, Kept
  <2>2. CASE j > Len(r)
    BY <1>4, <1>5, <1>6, <2>2 DEF Named
  <2>3. QED
    BY <1>4, <2>1, <2>2
<1>8. QED
  BY <1>4, <1>6, <1>7 DEF Sound, IsSeq, Kept

LEMMA MoreAgents ==
    ASSUME NEW r, NEW agents, NEW more, Sound(r, agents), agents \subseteq more
    PROVE  Sound(r, more)
BY DEF Sound, Named, Ids

LEMMA InitIsInv == Init => IInv
<1> SUFFICES ASSUME Init PROVE IInv
  OBVIOUS
<1>1. rows = <<>> /\ saved.rows = <<>>
  BY DEF Init
<1>2. QED
  BY <1>1, EmptyIsSound DEF IInv

LEMMA ReadBoundariesKeepsInv == IInv /\ ReadBoundaries => IInv'
<1> SUFFICES ASSUME IInv, ReadBoundaries PROVE IInv'
  OBVIOUS
<1> DEFINE due == {b \in Boundaries : lastAttempted < b /\ b <= pass.bn - ReadLag}
           t == [i \in 1 .. Cardinality(due) |-> Row(SetToSortSeq(due, <)[i])]
<1>1. rows' = rows \o t /\ roster' = roster /\ saved' = saved
  BY DEF ReadBoundaries
<1>2. Cardinality(due) \in Nat
  <2>1. IsFiniteSet(1 .. MaxHead)
    BY FS_Interval, PollAssumption
  <2>2. due \subseteq 1 .. MaxHead
    BY DEF Boundaries
  <2>3. QED
    BY <2>1, <2>2, FS_Subset, FS_CardinalityType
<1>3. \A i \in 1 .. Cardinality(due) : DOMAIN t[i].values = Ids(roster)
  <2>1. \A b : DOMAIN Row(b).values = Ids(roster)
    BY DEF Row
  <2>2. QED
    BY <2>1
<1> HIDE DEF due
<1>4. t \in [1 .. Cardinality(due) -> Range(t)]
  BY DEF Range
<1>5. Sound(rows \o t, roster)
  BY <1>2, <1>3, <1>4, AppendedRows DEF IInv
<1>6. QED
  BY <1>1, <1>5 DEF IInv

LEMMA NextKeepsInv == IInv /\ [Next]_vars => IInv'
<1> SUFFICES ASSUME IInv, [Next]_vars PROVE IInv'
  OBVIOUS
<1>1. CASE EditFile \/ Mine \/ StartPass \/ StagePass \/ PassThrows \/ Poll \/ Grant \/ RegistrationFails
           \/ UNCHANGED vars
  <2>1. UNCHANGED <<rows, roster, saved>>
    BY <1>1 DEF EditFile, Mine, StartPass, StagePass, PassThrows, Poll, Grant, RegistrationFails, series, vars
  <2>2. QED
    BY <2>1 DEF IInv
<1>2. CASE ReadBoundaries
  BY <1>2, ReadBoundariesKeepsInv
<1>3. CASE Enrol
  <2>1. rows' = rows /\ saved' = saved /\ roster \subseteq roster'
    BY <1>3 DEF Enrol, series
  <2>2. QED
    BY <2>1, MoreAgents DEF IInv
<1>4. CASE PassEnds
  <2>1. rows' = rows /\ roster' = roster /\ saved'.rows = rows /\ saved'.roster = roster
    BY <1>4 DEF PassEnds, series
  <2>2. QED
    BY <2>1 DEF IInv
<1>5. CASE Restart
  <2>1. rows' = saved.rows /\ roster' = saved.roster /\ saved' = saved
    BY <1>5 DEF Restart
  <2>2. QED
    BY <2>1 DEF IInv
<1>6. QED
  BY <1>1, <1>2, <1>3, <1>4, <1>5 DEF Next

\* An agent that has a value keeps its place in the series and on the roster.
THEOREM AgentsStay == Spec => []NoAgentLost
<1>1. IInv => NoAgentLost
  BY DEF IInv, Sound, Kept, Named, NoAgentLost
<1>2. QED
  BY <1>1, InitIsInv, NextKeepsInv, PTL DEF Spec

-----------------------------------------------------------------------------
(* The entries that count *)

\* The natural numbers are well ordered.
LEMMA LeastNatural ==
    ASSUME NEW T, T \subseteq Nat, T # {}
    PROVE  \E i \in T : \A j \in T : i <= j
<1> DEFINE Less == {ss \in Nat \X Nat : ss[1] < ss[2]}
<1>1. IsWellFoundedOn(Less, Nat)
  BY NatLessThanWellFounded, Zenon DEF OpToRel
<1>2. PICK i \in T : \A j \in T : <<j, i>> \notin Less
  BY <1>1, WFMin
<1>3. ASSUME NEW j \in T PROVE i <= j
  <2>1. i \in Nat /\ j \in Nat /\ (j < i => <<j, i>> \in Less)
    OBVIOUS
  <2>2. ~(j < i)
    BY <1>2, <2>1
  <2>3. QED
    BY <2>1, <2>2
<1>4. QED
  BY <1>3

\* Induction for a set of natural numbers.
LEMMA SetInduction ==
    ASSUME NEW S, 0 \in S, \A n \in Nat : n \in S => n + 1 \in S
    PROVE  Nat \subseteq S
<1> SUFFICES ASSUME Nat \ S # {} PROVE FALSE
  OBVIOUS
<1>1. PICK m \in Nat \ S : \A j \in Nat \ S : m <= j
  BY LeastNatural
<1>2. m # 0 /\ m - 1 \in Nat /\ m - 1 \in S
  BY <1>1
<1>3. QED
  BY <1>1, <1>2

\* The entries of a list that count are decided from the first on.
Counts(entries, n, K) ==
    \A i \in 1 .. n : i \in K <=> ~Known(Before(entries, K, i), entries[i])

LEMMA FreshExists ==
    ASSUME NEW entries, NEW n \in Nat
    PROVE  \E K \in SUBSET (1 .. n) : Counts(entries, n, K)
<1> DEFINE S == {m \in Nat : \E K \in SUBSET (1 .. m) : Counts(entries, m, K)}
<1>1. 0 \in S
  <2>1. Counts(entries, 0, {})
    BY DEF Counts
  <2>2. QED
    BY <2>1
<1>2. ASSUME NEW m \in Nat, m \in S PROVE m + 1 \in S
  <2>1. PICK K \in SUBSET (1 .. m) : Counts(entries, m, K)
    BY <1>2
  <2>2. \A i \in 1 .. m + 1 : Before(entries, K \cup {m + 1}, i) = Before(entries, K, i)
    BY DEF Before
  <2>3. \E L \in {K, K \cup {m + 1}} : Counts(entries, m + 1, L)
    <3>1. CASE Known(Before(entries, K, m + 1), entries[m + 1])
      BY <2>1, <3>1 DEF Counts
    <3>2. CASE ~Known(Before(entries, K, m + 1), entries[m + 1])
      BY <2>1, <2>2, <3>2 DEF Counts
    <3>3. QED
      BY <3>1, <3>2
  <2>4. K \in SUBSET (1 .. m + 1) /\ K \cup {m + 1} \in SUBSET (1 .. m + 1)
    OBVIOUS
  <2>5. QED
    BY <2>3, <2>4
<1>3. Nat \subseteq S
  <2> HIDE DEF S
  <2> QED
    BY <1>1, <1>2, SetInduction
<1>4. QED
  BY <1>3

\* What Fresh picks: no two of its entries agree on an id or an address, and every entry left out
\* repeats an earlier one.
LEMMA FreshIsSound ==
    ASSUME NEW entries, entries \in Seq(Range(entries))
    PROVE  /\ Fresh(entries) \subseteq DOMAIN entries
           /\ DOMAIN entries \subseteq Nat
           /\ \A i \in DOMAIN entries :
                i \in Fresh(entries) <=> ~Known(Before(entries, Fresh(entries), i), entries[i])
<1>1. DOMAIN entries = 1 .. Len(entries) /\ Len(entries) \in Nat
  OBVIOUS
<1>2. \E K \in SUBSET DOMAIN entries :
        \A i \in DOMAIN entries : i \in K <=> ~Known(Before(entries, K, i), entries[i])
  BY <1>1, FreshExists DEF Counts
<1> DEFINE Right(K) ==
      \A i \in DOMAIN entries : i \in K <=> ~Known(Before(entries, K, i), entries[i])
<1>3. Fresh(entries) = CHOOSE K \in SUBSET DOMAIN entries : Right(K)
  BY DEF Fresh
<1>4. \E K \in SUBSET DOMAIN entries : Right(K)
  BY <1>2
<1>5. Fresh(entries) \in SUBSET DOMAIN entries /\ Right(Fresh(entries))
  <2> HIDE DEF Right
  <2> QED
    BY <1>3, <1>4
<1>6. QED
  BY <1>1, <1>5

Unique(agents) == \A x, y \in agents : x.id = y.id \/ x.address = y.address => x = y

EntriesAt(entries, K) == {entries[i] : i \in K}

LEMMA FreshIsUnique ==
    ASSUME NEW entries, entries \in Seq(Range(entries))
    PROVE  Unique(EntriesAt(entries, Fresh(entries)))
<1> DEFINE F == Fresh(entries)
<1>1. F \subseteq Nat /\ F \subseteq DOMAIN entries
  BY FreshIsSound
<1>2. ASSUME NEW i \in F, NEW j \in F, i < j
      PROVE  entries[i].id # entries[j].id /\ entries[i].address # entries[j].address
  <2>1. ~Known(Before(entries, F, j), entries[j])
    BY FreshIsSound
  <2>2. entries[i] \in Before(entries, F, j)
    BY <1>2 DEF Before
  <2>3. QED
    BY <2>1, <2>2 DEF Known
<1>3. ASSUME NEW i \in F, NEW j \in F
      PROVE  entries[i].id = entries[j].id \/ entries[i].address = entries[j].address => i = j
  BY <1>1, <1>2
<1>4. QED
  BY <1>3 DEF Unique, EntriesAt

\* Every entry counts or repeats an earlier one.
LEMMA FreshOrRepeats ==
    ASSUME NEW entries, entries \in Seq(Range(entries)), NEW i \in DOMAIN entries
    PROVE  i \in Fresh(entries) \/ Known(Before(entries, DOMAIN entries, i), entries[i])
<1>1. Before(entries, Fresh(entries), i) \subseteq Before(entries, DOMAIN entries, i)
  BY FreshIsSound DEF Before
<1>2. QED
  BY <1>1, FreshIsSound DEF Known

\* What a poll adds to a roster repeats nothing on it nor in itself.
LEMMA AddedIsUnique ==
    ASSUME NEW entries, entries \in Seq(Range(entries)), NEW agents, Unique(agents)
    PROVE  Unique(agents \cup Range(Added(entries, agents)))
<1>1. \A e \in Range(Added(entries, agents)) :
        e \in EntriesAt(entries, Fresh(entries)) /\ ~Known(agents, e)
  BY DEF Range, Added, Restrict, EntriesAt
<1>2. QED
  BY <1>1, FreshIsUnique DEF Unique, Known

\* The next entry is one of those to enrol.
LEMMA NextUpIsOne ==
    ASSUME ToEnrol \subseteq Nat, ToEnrol # {}
    PROVE  /\ NextUp \in Range(pass.todo)
           /\ Range(pass.todo) = Range(AfterNext) \cup {NextUp}
           /\ DOMAIN AfterNext \subseteq Nat
<1>1. NextPlace \in ToEnrol
  BY LeastNatural DEF NextPlace
<1>2. QED
  BY <1>1 DEF NextUp, AfterNext, ToEnrol, Range, Restrict

-----------------------------------------------------------------------------
(* One agent per address *)

PassShape == DOMAIN pass = {"phase", "bn", "todo", "granted"} /\ ToEnrol \subseteq Nat

RosterInv ==
    /\ file.entries \in Seq(Range(file.entries))
    /\ PassShape
    /\ Unique(roster \cup Range(pass.todo))
    /\ Unique(saved.roster)

LEMMA NoPassIsEmpty ==
    /\ DOMAIN NoPass = {"phase", "bn", "todo", "granted"}
    /\ NoPass.phase = "idle" /\ NoPass.bn = 0
    /\ DOMAIN NoPass.todo = {} /\ Range(NoPass.todo) = {}
<1>1. DOMAIN <<>> = {}
  OBVIOUS
<1>2. QED
  BY <1>1 DEF NoPass, Range

LEMMA ContentsType ==
    ASSUME NEW c \in Contents PROVE c.entries \in Seq(Range(c.entries))
<1>1. <<>> \in Seq(Range(<<>>))
  OBVIOUS
<1>2. QED
  BY <1>1, FilesAssumption DEF Contents

LEMMA RosterStep == RosterInv /\ [Next]_vars => RosterInv'
<1> SUFFICES ASSUME RosterInv, [Next]_vars PROVE RosterInv'
  OBVIOUS
<1> USE DEF RosterInv, PassShape, ToEnrol
<1>1. CASE EditFile
  BY <1>1, ContentsType DEF EditFile, loop
<1>2. CASE Mine \/ UNCHANGED vars
  BY <1>2 DEF Mine, fileVars, loop, vars
<1>3. CASE StartPass
  <2>1. PICK n \in 1 .. head : pass' = [NoPass EXCEPT !.phase = "reading", !.bn = n]
    BY <1>3 DEF StartPass
  <2>2. DOMAIN pass' = {"phase", "bn", "todo", "granted"} /\ pass'.todo = NoPass.todo
    BY <2>1, NoPassIsEmpty
  <2>3. Unique(roster)
    BY DEF Unique
  <2>4. QED
    BY <1>3, <2>2, <2>3, NoPassIsEmpty DEF StartPass, fileVars
<1>4. CASE StagePass \/ ReadBoundaries \/ Grant
  <2>1. DOMAIN pass' = DOMAIN pass /\ pass'.todo = pass.todo
    BY <1>4 DEF StagePass, ReadBoundaries, Grant
  <2>2. QED
    BY <1>4, <2>1 DEF StagePass, ReadBoundaries, Grant, fileVars
<1>5. CASE PassThrows
  <2>1. pass' = NoPass /\ Unique(roster)
    BY <1>5 DEF PassThrows, Unique
  <2>2. QED
    BY <1>5, <2>1, NoPassIsEmpty DEF PassThrows, fileVars
<1>6. CASE Poll
  <2>1. Unique(roster) /\ roster' = roster /\ saved' = saved /\ file' = file
    BY <1>6 DEF Poll, Unique, fileVars
  <2>2. /\ DOMAIN pass' = DOMAIN pass
        /\ pass'.todo \in {pass.todo, <<>>, Added(file.entries, roster)}
    BY <1>6 DEF Poll
  <2>3. CASE pass'.todo = pass.todo
    BY <2>1, <2>2, <2>3
  <2>4. CASE pass'.todo = <<>>
    BY <2>1, <2>2, <2>4, NoPassIsEmpty DEF NoPass
  <2>5. CASE pass'.todo = Added(file.entries, roster)
    <3>1. DOMAIN pass'.todo \subseteq Nat
      BY <2>5, FreshIsSound DEF Added, Restrict
    <3>2. QED
      BY <2>1, <2>2, <2>5, <3>1, AddedIsUnique
  <2>6. QED
    BY <2>2, <2>3, <2>4, <2>5
<1>7. CASE Enrol \/ RegistrationFails
  <2>1. /\ DOMAIN pass' = DOMAIN pass /\ pass'.todo = AfterNext
        /\ saved' = saved /\ file' = file /\ roster' \subseteq roster \cup {NextUp} /\ ToEnrol # {}
    BY <1>7 DEF Enrol, RegistrationFails, fileVars
  <2>2. /\ roster' \cup Range(AfterNext) \subseteq roster \cup Range(pass.todo)
        /\ DOMAIN AfterNext \subseteq Nat
    BY <2>1, NextUpIsOne
  <2>3. QED
    BY <2>1, <2>2 DEF Unique
<1>8. CASE PassEnds
  <2>1. pass' = NoPass /\ Unique(roster) /\ saved'.roster = roster
    BY <1>8 DEF PassEnds, Unique
  <2>2. QED
    BY <1>8, <2>1, NoPassIsEmpty DEF PassEnds, fileVars
<1>9. CASE Restart
  BY <1>9, NoPassIsEmpty DEF Restart, fileVars
<1>10. QED
  BY <1>1, <1>2, <1>3, <1>4, <1>5, <1>6, <1>7, <1>8, <1>9 DEF Next

\* The configuration names its agents once, each with the address it will have.
ConfigSpellsOut ==
    Unique(ConfigRoster) /\ \A a \in ConfigRoster : a.address \in Explicit

LEMMA StartIsUnique ==
    ASSUME ConfigSpellsOut, NEW f, f.entries \in Seq(Range(f.entries))
    PROVE  Unique(StartRoster(f))
<1> DEFINE New == IF f.kind = "list" THEN StartRoster(f) \ ConfigRoster ELSE {}
<1>1. StartRoster(f) = ConfigRoster \cup New
  BY DEF StartRoster
<1>2. \A e \in New : /\ e \in EntriesAt(f.entries, Fresh(f.entries))
                     /\ \A a \in ConfigRoster : a.id # e.id /\ a.address # e.address
  BY DEF StartRoster, EntriesAt, ConfigSpellsOut
<1> HIDE DEF New
<1>3. QED
  BY <1>1, <1>2, FreshIsUnique DEF Unique, ConfigSpellsOut

\* Whatever the file repeats, drops or moves, and however often funding fails or the coordinator
\* restarts, an address is one agent and an id one address, if the configuration spells out its own.
THEOREM OneAgentEach == ASSUME ConfigSpellsOut PROVE Spec => []OneAgentPerAddress
<1>1. Init => RosterInv
  <2> SUFFICES ASSUME Init PROVE RosterInv
    OBVIOUS
  <2>1. file.entries \in Seq(Range(file.entries))
    BY ContentsType DEF Init
  <2>2. Unique(StartRoster(file))
    BY <2>1, StartIsUnique
  <2>3. pass = NoPass /\ roster = StartRoster(file) /\ saved.roster = roster
    BY DEF Init
  <2>4. QED
    BY <2>1, <2>2, <2>3, NoPassIsEmpty DEF RosterInv, PassShape, ToEnrol
<1>2. RosterInv => OneAgentPerAddress
  BY DEF RosterInv, Unique, OneAgentPerAddress
<1>3. QED
  BY <1>1, <1>2, RosterStep, PTL DEF Spec

-----------------------------------------------------------------------------
(* Nobody is left waiting *)

\* Every entry of the file is known to these agents, the environment's, failed or a repetition.
UpTo(agents) ==
    \A i \in DOMAIN file.entries :
        \/ Known(agents, file.entries[i])
        \/ file.entries[i].address \in EnvAddresses
        \/ Known(failed, file.entries[i])
        \/ Known(Before(file.entries, DOMAIN file.entries, i), file.entries[i])

PollTypeOK ==
    /\ head \in Nat /\ editedAt \in Nat /\ checkedAt \in Int /\ pass.bn \in Nat /\ saved.bn \in Nat
    /\ file.mtime \in Nat /\ watched \in Nat
    /\ editedAt <= head /\ checkedAt <= head /\ pass.bn <= head /\ saved.bn <= head
    /\ 0 < file.mtime /\ watched <= file.mtime

\* A pass has entries to enrol only once it polled.
IdleIsEmpty == pass.phase # "enrol" => ToEnrol = {}

\* A file that was seen is on the roster or about to be, and a poll past the last edit saw it.
SeenIsTaken == file.kind = "list" /\ watched = file.mtime => UpTo(roster \cup Range(pass.todo))
PolledIsSeen == file.kind = "list" /\ checkedAt > editedAt => watched = file.mtime

PollInv ==
    /\ PassShape /\ file.entries \in Seq(Range(file.entries))
    /\ PollTypeOK
    /\ IdleIsEmpty
    /\ pass.phase = "enrol" => pass.bn - checkedAt < PollBlocks
    /\ PolledIsSeen
    /\ SeenIsTaken
    /\ TakenUpInTime

LEMMA EmptyRange == ASSUME NEW f, DOMAIN f = {} PROVE Range(f) = {}
BY DEF Range

LEMMA PollInit == Init => PollInv
<1> SUFFICES ASSUME Init PROVE PollInv
  OBVIOUS
<1>1. file.entries \in Seq(Range(file.entries)) /\ file.mtime = 1
  BY ContentsType DEF Init
<1>2. PassShape /\ ToEnrol = {} /\ pass.phase = "idle" /\ pass.bn = 0
  BY NoPassIsEmpty DEF Init, PassShape, ToEnrol
<1>3. PollTypeOK /\ checkedAt = -PollBlocks /\ editedAt = 1 /\ saved.bn = 1 /\ watched = 0
  BY <1>1, <1>2, PollAssumption DEF Init, PollTypeOK, Never
<1>4. QED
  BY <1>1, <1>2, <1>3, PollAssumption DEF PollInv, IdleIsEmpty, PolledIsSeen, SeenIsTaken, TakenUpInTime

\* What stays when neither the file nor who knows whom changes.
LEMMA StillTaken ==
    ASSUME UNCHANGED <<file, failed, editedAt, watched, checkedAt, roster, saved>>,
           Range(pass.todo)' = Range(pass.todo)
    PROVE  /\ PolledIsSeen => PolledIsSeen'
           /\ SeenIsTaken => SeenIsTaken'
           /\ TakenUpInTime => TakenUpInTime'
BY DEF PolledIsSeen, SeenIsTaken, TakenUpInTime, UpTo

\* A poll that reads the list has every entry of it among the known, or among those to enrol.
LEMMA AddedIsUpTo ==
    ASSUME file.entries \in Seq(Range(file.entries))
    PROVE  UpTo(roster \cup Range(Added(file.entries, roster)))
<1> DEFINE added == Added(file.entries, roster)
<1> SUFFICES ASSUME NEW i \in DOMAIN file.entries,
                    ~Known(roster, file.entries[i]),
                    file.entries[i].address \notin EnvAddresses,
                    i \in Fresh(file.entries)
             PROVE  Known(roster \cup Range(added), file.entries[i])
  BY FreshOrRepeats DEF UpTo, Known
<1>1. i \in DOMAIN added /\ added[i] = file.entries[i]
  BY DEF Added, Restrict
<1>2. file.entries[i] \in Range(added)
  BY <1>1 DEF Range
<1>3. QED
  BY <1>2 DEF Known

\* An edit is newer than anything seen, polled or saved.
LEMMA EditStep == PollInv /\ EditFile => PollInv'
<1> SUFFICES ASSUME PollInv, EditFile PROVE PollInv'
  OBVIOUS
<1>1. /\ file'.entries \in Seq(Range(file'.entries)) /\ file'.mtime = file.mtime + 1 /\ editedAt' = head
      /\ UNCHANGED <<head, watched, checkedAt, pass, saved>>
  BY ContentsType DEF EditFile, watcherVars, chain, loop
<1>2. PassShape' /\ PollTypeOK' /\ IdleIsEmpty'
  BY <1>1 DEF PollInv, PassShape, PollTypeOK, IdleIsEmpty, ToEnrol
<1>3. watched' # file'.mtime /\ ~(checkedAt' > editedAt') /\ ~(saved'.bn >= editedAt' + PollBlocks)
  BY <1>1, PollAssumption DEF PollInv, PollTypeOK
<1>4. QED
  BY <1>1, <1>2, <1>3 DEF PollInv, PolledIsSeen, SeenIsTaken, TakenUpInTime

\* The steps between the edits and the poll, and the writes of an endowment.
LEMMA OtherStep ==
    PollInv /\ (Mine \/ StartPass \/ StagePass \/ PassThrows \/ ReadBoundaries \/ Grant \/ UNCHANGED vars)
        => PollInv'
<1> SUFFICES ASSUME PollInv,
                    Mine \/ StartPass \/ StagePass \/ PassThrows \/ ReadBoundaries \/ Grant \/ UNCHANGED vars
             PROVE  PollInv'
  OBVIOUS
<1>1. UNCHANGED <<file, failed, editedAt, watched, checkedAt, roster, saved>>
  BY DEF Mine, StartPass, StagePass, PassThrows, ReadBoundaries, Grant, vars, fileVars, watcherVars
<1>2. head' \in {head, head + 1} /\ (pass' # pass => head' = head)
  BY DEF Mine, StartPass, StagePass, PassThrows, ReadBoundaries, Grant, vars, chain, loop
<1>3. /\ DOMAIN pass' = DOMAIN pass
      /\ pass'.todo = pass.todo \/ (DOMAIN pass.todo = {} /\ DOMAIN pass'.todo = {})
      /\ pass'.bn \in Nat /\ pass'.bn <= head'
      /\ pass'.phase = "enrol" => pass.phase = "enrol" /\ pass'.bn = pass.bn
      /\ pass'.phase # "enrol" => DOMAIN pass'.todo = {}
  <2>1. CASE Mine \/ UNCHANGED vars
    BY <1>2, <2>1 DEF Mine, loop, vars, PollInv, PollTypeOK, IdleIsEmpty, ToEnrol
  <2>2. CASE StartPass
    <3>1. PICK n \in 1 .. head : pass' = [NoPass EXCEPT !.phase = "reading", !.bn = n]
      BY <2>2 DEF StartPass
    <3>2. /\ DOMAIN pass' = DOMAIN NoPass /\ pass'.todo = NoPass.todo
          /\ pass'.phase = "reading" /\ pass'.bn = n
      BY <3>1, NoPassIsEmpty
    <3>3. head' = head /\ DOMAIN pass.todo = {}
      BY <2>2 DEF StartPass, chain, PollInv, IdleIsEmpty, ToEnrol
    <3>4. QED
      BY <3>2, <3>3, NoPassIsEmpty DEF PollInv, PollTypeOK, PassShape
  <2>3. CASE StagePass \/ ReadBoundaries
    BY <1>2, <2>3 DEF StagePass, ReadBoundaries, chain, PollInv, PassShape, PollTypeOK, IdleIsEmpty, ToEnrol
  <2>4. CASE PassThrows
    BY <1>2, <2>4, NoPassIsEmpty DEF PassThrows, PollInv, PassShape, PollTypeOK, IdleIsEmpty, ToEnrol
  <2>5. CASE Grant
    <3>1. /\ DOMAIN pass' = DOMAIN pass /\ pass'.todo = pass.todo
          /\ pass'.bn = pass.bn /\ pass'.phase = pass.phase
      BY <2>5 DEF Grant
    <3>2. QED
      BY <1>2, <2>5, <3>1 DEF Grant, PollInv, PollTypeOK
  <2>6. QED
    BY <2>1, <2>2, <2>3, <2>4, <2>5
<1>4. Range(pass'.todo) = Range(pass.todo)
  BY <1>3, EmptyRange
<1>5. PassShape' /\ PollTypeOK' /\ IdleIsEmpty'
  BY <1>1, <1>2, <1>3 DEF PollInv, PassShape, PollTypeOK, IdleIsEmpty, ToEnrol
<1>6. PolledIsSeen' /\ SeenIsTaken' /\ TakenUpInTime'
  BY <1>1, <1>4, StillTaken DEF PollInv
<1>7. QED
  BY <1>1, <1>3, <1>5, <1>6 DEF PollInv

LEMMA PollStep == PollInv /\ Poll => PollInv'
<1> SUFFICES ASSUME PollInv, Poll PROVE PollInv'
  OBVIOUS
<1>1. /\ UNCHANGED <<file, failed, editedAt, roster, saved, head>>
      /\ DOMAIN pass' = DOMAIN pass /\ pass'.bn = pass.bn /\ pass'.phase = "enrol"
      /\ DOMAIN pass.todo = {} /\ Range(pass.todo) = {}
  BY EmptyRange DEF Poll, fileVars, chain, PollInv, PassShape, IdleIsEmpty, ToEnrol
<1>2. CASE PollDue
  <2>1. /\ checkedAt' = pass.bn
        /\ watched' = IF file.kind = "missing" THEN 0 ELSE file.mtime
        /\ pass'.todo = IF file.kind = "list" /\ file.mtime # watched
                        THEN Added(file.entries, roster) ELSE <<>>
    BY <1>2 DEF Poll, PollInv, PassShape
  <2>2. DOMAIN pass'.todo \subseteq Nat
    BY <2>1, FreshIsSound DEF PollInv, Added, Restrict
  <2>3. file.kind = "list" => UpTo(roster \cup Range(pass'.todo))
    <3>1. CASE file.mtime # watched
      BY <2>1, <3>1, AddedIsUpTo DEF PollInv
    <3>2. CASE file.mtime = watched
      <4>1. Range(pass'.todo) = {}
        BY <2>1, <3>2, NoPassIsEmpty DEF NoPass
      <4>2. QED
        BY <1>1, <3>2, <4>1 DEF PollInv, SeenIsTaken
    <3>3. QED
      BY <3>1, <3>2
  <2>4. SeenIsTaken' /\ PolledIsSeen' /\ TakenUpInTime'
    BY <1>1, <2>1, <2>3 DEF PollInv, SeenIsTaken, PolledIsSeen, TakenUpInTime, UpTo
  <2>5. PassShape' /\ PollTypeOK' /\ IdleIsEmpty'
    BY <1>1, <2>1, <2>2 DEF PollInv, PassShape, PollTypeOK, IdleIsEmpty, ToEnrol
  <2>6. QED
    BY <1>1, <2>1, <2>4, <2>5, PollAssumption DEF PollInv, PollTypeOK
<1>3. CASE ~PollDue
  <2>1. pass'.todo = pass.todo /\ UNCHANGED <<watched, checkedAt>>
    BY <1>3 DEF Poll, watcherVars, PollInv, PassShape
  <2>2. SeenIsTaken' /\ PolledIsSeen' /\ TakenUpInTime'
    BY <1>1, <2>1, StillTaken DEF PollInv
  <2>3. PassShape' /\ PollTypeOK' /\ IdleIsEmpty'
    BY <1>1, <2>1 DEF PollInv, PassShape, PollTypeOK, IdleIsEmpty, ToEnrol
  <2>4. QED
    BY <1>1, <1>3, <2>1, <2>2, <2>3, PollAssumption DEF PollInv, PollDue, PollTypeOK
<1>4. QED
  BY <1>2, <1>3

\* An entry leaves the list of those to enrol for the roster, or for the failed.
LEMMA EnrolStep == PollInv /\ (Enrol \/ RegistrationFails) => PollInv'
<1> SUFFICES ASSUME PollInv, Enrol \/ RegistrationFails PROVE PollInv'
  OBVIOUS
<1>1. /\ UNCHANGED <<file, editedAt, watched, checkedAt, saved, head>>
      /\ DOMAIN pass' = DOMAIN pass /\ pass'.bn = pass.bn /\ pass'.phase = pass.phase
      /\ pass'.todo = AfterNext /\ ToEnrol # {} /\ pass.phase = "enrol"
  BY DEF Enrol, RegistrationFails, fileVars, watcherVars, chain, PollInv, PassShape
<1>2. \/ roster' = roster \cup {NextUp} /\ failed' = failed
      \/ roster' = roster /\ failed' = failed \cup {NextUp}
  BY DEF Enrol, RegistrationFails
<1>3. Range(pass.todo) = Range(AfterNext) \cup {NextUp} /\ DOMAIN AfterNext \subseteq Nat
  BY <1>1, NextUpIsOne DEF PollInv, PassShape
<1>4. UpTo(roster \cup Range(pass.todo)) => UpTo(roster \cup Range(pass.todo))'
  BY <1>1, <1>2, <1>3 DEF UpTo, Known
<1>5. SeenIsTaken' /\ PolledIsSeen'
  BY <1>1, <1>4 DEF PollInv, SeenIsTaken, PolledIsSeen
<1>6. TakenUpInTime'
  BY <1>1, <1>2 DEF PollInv, TakenUpInTime, Known
<1>7. PassShape' /\ PollTypeOK' /\ IdleIsEmpty'
  BY <1>1, <1>3 DEF PollInv, PassShape, PollTypeOK, IdleIsEmpty, ToEnrol
<1>8. QED
  BY <1>1, <1>5, <1>6, <1>7 DEF PollInv

\* The checkpoint is written when the pass has nobody left to enrol.
LEMMA CheckpointStep == PollInv /\ PassEnds => PollInv'
<1> SUFFICES ASSUME PollInv, PassEnds PROVE PollInv'
  OBVIOUS
<1>1. /\ UNCHANGED <<file, failed, editedAt, watched, checkedAt, roster, head>>
      /\ pass' = NoPass /\ saved'.bn = pass.bn /\ saved'.roster = roster
      /\ pass.phase = "enrol" /\ DOMAIN pass.todo = {}
  BY DEF PassEnds, fileVars, watcherVars, chain, ToEnrol
<1>2. Range(pass.todo) = {} /\ Range(pass'.todo) = {}
  BY <1>1, EmptyRange, NoPassIsEmpty
<1>3. SeenIsTaken' /\ PolledIsSeen'
  BY <1>1, <1>2 DEF PollInv, SeenIsTaken, PolledIsSeen, UpTo
<1>4. file.kind = "list" /\ pass.bn >= editedAt + PollBlocks => UpTo(roster)
  <2>1. pass.bn >= editedAt + PollBlocks => checkedAt > editedAt
    BY <1>1, PollAssumption DEF PollInv, PollTypeOK
  <2>2. QED
    BY <1>2, <2>1 DEF PollInv, PolledIsSeen, SeenIsTaken
<1>5. TakenUpInTime'
  BY <1>1, <1>4 DEF TakenUpInTime, UpTo
<1>6. PassShape' /\ PollTypeOK' /\ IdleIsEmpty'
  BY <1>1, NoPassIsEmpty DEF PollInv, PassShape, PollTypeOK, IdleIsEmpty, ToEnrol
<1>7. QED
  BY <1>1, <1>3, <1>5, <1>6, NoPassIsEmpty DEF PollInv

\* A restart forgets what was seen and when, so the next poll reads the file again.
LEMMA RestartStep == PollInv /\ Restart => PollInv'
<1> SUFFICES ASSUME PollInv, Restart PROVE PollInv'
  OBVIOUS
<1>1. /\ UNCHANGED <<file, failed, editedAt, saved, head>>
      /\ pass' = NoPass /\ watched' = 0 /\ checkedAt' = -PollBlocks
  BY DEF Restart, fileVars, Never
<1>2. PassShape' /\ PollTypeOK' /\ IdleIsEmpty'
  BY <1>1, NoPassIsEmpty, PollAssumption DEF PollInv, PassShape, PollTypeOK, IdleIsEmpty, ToEnrol
<1>3. watched' # file'.mtime /\ ~(checkedAt' > editedAt')
  BY <1>1, PollAssumption DEF PollInv, PollTypeOK
<1>4. TakenUpInTime'
  BY <1>1 DEF PollInv, TakenUpInTime
<1>5. QED
  BY <1>1, <1>2, <1>3, <1>4, NoPassIsEmpty DEF PollInv, PolledIsSeen, SeenIsTaken

\* PollBlocks after the last edit a checkpoint knows every entry of the file that can be taken, for
\* every poll interval: nobody waits for a poll that a skipped block, a restart or an unchanged mtime lost.
THEOREM NobodyWaits == Spec => []TakenUpInTime
<1>1. PollInv /\ [Next]_vars => PollInv'
  BY EditStep, OtherStep, PollStep, EnrolStep, CheckpointStep, RestartStep DEF Next
<1>2. PollInv => TakenUpInTime
  BY DEF PollInv
<1>3. QED
  BY <1>1, <1>2, PollInit, PTL DEF Spec

=============================================================================
