---------------------- MODULE StrategyGovernanceProofs ----------------------
(***************************************************************************)
(* What holds of the governance of one family for any number of sessions,  *)
(* candidates, versions and faults: seals fit the submission they follow,  *)
(* an approval freezes one version and can be resumed, and a final seal is *)
(* complete.                                                               *)
(***************************************************************************)
EXTENDS StrategyGovernance, SequenceTheorems, FiniteSetTheorems, TLAPS

-----------------------------------------------------------------------------
(* The inductive invariant.                                                *)

Home == {"absent", "bare", "family"}
StageName == {"OPEN", "SUBMITTED", "ELIGIBLE", "REJECTED", "APPROVED", "FROZEN"}
SealRow == [stage : StageName, cand : Candidate \cup {None}, version : Version \cup {0}]

\* A chain begins with the admission, takes the steps that are allowed, and
\* its seals are about the candidate of the submission before them.
WellFormed(k) ==
  /\ k.by = 0 <=> k.seals = <<>>
  /\ Exists(k) => k.seals[1].stage = "OPEN"
  /\ \A i \in 2 .. Len(k.seals) :
       /\ Follows(k.seals[i - 1].stage, k.seals[i].stage)
       /\ k.seals[i].stage # "SUBMITTED" => k.seals[i].cand = k.seals[i - 1].cand
Chain == {k \in [by : Nat, seals : Seq(SealRow)] : WellFormed(k)}

Snap == [home : Home, cred : Chain, events : SUBSET Version, inner : BOOLEAN]
Backup == [version : Version \cup {0}, evidence : SUBSET Version, events : SUBSET Version, cred : Chain]
PC == {"idle", "snapshot", "resnapshot", "promote", "repromote", "admit", "move", "submit",
       "record", "judge", "build", "place", "approve", "seal", "freeze", "evidence",
       "lifecycle", "stamp", "undo"}
Fields == [pc : PC, kind : {"none", "review", "evaluate", "freeze"}, cand : Candidate \cup {None},
           created : BOOLEAN, undo : Seq(Snap), seen : Chain, version : Version \cup {0},
           before : Backup]

\* A session that promotes has only read the files; what it undoes on a failure
\* are the snapshots of the promotions that changed something.
Fresh(r) == r.pc \in {"promote", "repromote"}
Kept(r) == IF Fresh(r) THEN Tail(r.undo) ELSE r.undo
Row == {r \in Fields : (r.pc # "idle" => r.cand \in Candidate) /\ (Fresh(r) => r.undo # <<>>)}

CountRow == [admissions : Nat, ops : Nat, faults : Nat, torn : BOOLEAN]

FilesOK ==
  /\ packages \in [Version -> [cand : Candidate \cup {None}, intact : BOOLEAN]]
  /\ candidates \in [Candidate -> {"absent", "package", "record", "reviewed"}]
  /\ receipts \subseteq Version
Types ==
  /\ home \in Home /\ cred \in Chain
  /\ events \subseteq Version /\ evidence \subseteq Version
  /\ versions \in [Version -> [cand : Candidate \cup {None}, by : Nat]]
  /\ lock \in Session \cup {None}
  /\ session \in [Session -> Row]
  /\ count \in CountRow

\* Nothing is of an admission that has not happened.
Known(r) ==
  /\ r.seen.by <= count.admissions /\ r.before.cred.by <= count.admissions
  /\ Fresh(r) => Head(r.undo).cred.by <= count.admissions
Admitted ==
  /\ cred.by <= count.admissions
  /\ \A v \in Version : versions[v].by <= count.admissions
  /\ \A s \in Session : Known(session[s])

\* A promotion that changed something found no credential, so a roll-back
\* removes the credential, and the whole family where there was none before.
KeptAreNew ==
  \A s \in Session : \A i \in 1 .. Len(Kept(session[s])) :
    Kept(session[s])[i].cred = NoCred /\ Kept(session[s])[i].home # "bare"

Wipes(r) == \E i \in 1 .. Len(Kept(r)) : Kept(r)[i].home = "absent"
Begins(r) == Fresh(r) /\ Head(r.undo).home = "family" /\ ~Exists(Head(r.undo).cred)

\* Who will remove the whole family is the only one with anything to undo, and
\* nobody is about to have more.
NoFamilyYet ==
  home # "family" =>
    /\ cred = NoCred /\ Frozen = {}
    /\ \A s \in Session : Kept(session[s]) = <<>> /\ ~Begins(session[s])
OneWiper ==
  \A s \in Session : Wipes(session[s]) =>
    /\ Exists(cred) /\ Len(Kept(session[s])) = 1
    /\ \A t \in Session : ~Begins(session[t]) /\ (t # s => Kept(session[t]) = <<>>)

LockHeld == \A s \in Session : session[s].pc \in Writing <=> lock = s

VersionsInOrder == \E n \in 0 .. MaxVersion : Frozen = 1 .. n

\* A version that names the present credential is the one it approved.
Approves(k, v) == Stage(k) \in {"APPROVED", "FROZEN"} /\ Last(k.seals).version = v
ChainNames == Exists(cred) => \A v \in Frozen : versions[v].by = cred.by => Approves(cred, v)

\* The lock holder wrote the version that the credential approves and can put
\* everything back; a roll-back may have removed the credential meanwhile.
HolderFits(r) ==
  LET old == r.before.cred v == r.before.version IN
  /\ v \in Version
  /\ Exists(old) /\ Stage(old) = "APPROVED" /\ Last(old.seals).version = v
  /\ cred \in {old, NoCred}
  /\ home = "family" => Frozen = 1 .. v
  /\ \A w \in Frozen : versions[w].by = old.by => w = v
  /\ cred = old =>
       /\ versions[v] = [cand |-> SubmittedCandidate(cred), by |-> cred.by]
       /\ r.pc \in {"lifecycle", "stamp"} => v \in evidence
       /\ r.pc = "stamp" => v \in events
HolderKnows == \A s \in Session : session[s].pc \in Writing => HolderFits(session[s])

\* A session that judges or approves knows the candidate of the submission it
\* read, and the chain it read comes back neither shorter nor for other versions.
JudgeFits(r) == Exists(r.seen) /\ Stage(r.seen) = "SUBMITTED" /\ SubmittedCandidate(r.seen) = r.cand
JudgeKnows == \A s \in Session : At(s, "judge") => JudgeFits(session[s])

NoLaterThan(k, new) == new.by = k.by => Len(k.seals) <= Len(new.seals)
ApproverFits(r) ==
  /\ Exists(r.seen) /\ Stage(r.seen) = "ELIGIBLE" /\ SubmittedCandidate(r.seen) = r.cand
  /\ cred = r.seen => r.version = NextVersion
  /\ NoLaterThan(r.seen, cred)
ApproverKnows == \A s \in Session : At(s, "seal") => ApproverFits(session[s])
ApproverPast ==
  \A s, t \in Session : At(s, "seal") /\ session[t].pc \in Writing =>
    NoLaterThan(session[s].seen, session[t].before.cred)

Guards == KeptAreNew /\ NoFamilyYet /\ OneWiper
Knowledge == HolderKnows /\ JudgeKnows /\ ApproverKnows /\ ApproverPast
Goals == ApprovalFreezesOnce /\ SealedIsComplete /\ ApprovedCanResume
Inv ==
  /\ FilesOK /\ Types /\ Admitted /\ Guards /\ LockHeld /\ VersionsInOrder /\ ChainNames
  /\ Knowledge /\ Goals

-----------------------------------------------------------------------------
(* Chains of seals.                                                        *)

LEMMA NothingIsChain == NoCred \in Chain /\ ~Exists(NoCred) /\ NoCred.by = 0
<1>1. NoCred \in [by : Nat, seals : Seq(SealRow)]
  BY DEF NoCred
<1> QED BY <1>1 DEF NoCred, Chain, WellFormed, Exists

LEMMA ChainShape ==
  ASSUME NEW k \in Chain
  PROVE  /\ k.by \in Nat /\ k.seals \in Seq(SealRow) /\ k = [by |-> k.by, seals |-> k.seals]
         /\ Len(k.seals) \in Nat /\ DOMAIN k.seals = 1 .. Len(k.seals)
         /\ ~Exists(k) => k = NoCred
         /\ Exists(k) => /\ k.by > 0 /\ Len(k.seals) \in Nat \ {0}
                         /\ Stage(k) = k.seals[Len(k.seals)].stage
                         /\ Last(k.seals) = k.seals[Len(k.seals)]
                         /\ Last(k.seals) \in SealRow
<1>1. /\ k.by \in Nat /\ k.seals \in Seq(SealRow) /\ k = [by |-> k.by, seals |-> k.seals]
      /\ k.by = 0 <=> k.seals = <<>>
  BY DEF Chain, WellFormed
<1>2. ~Exists(k) => k = NoCred
  BY <1>1 DEF Exists, NoCred
<1>3. Len(k.seals) \in Nat /\ DOMAIN k.seals = 1 .. Len(k.seals)
  BY <1>1, LenProperties
<1>4. Exists(k) => k.by > 0 /\ Len(k.seals) \in Nat \ {0}
  BY <1>1, EmptySeq DEF Exists
<1>5. Exists(k) => k.seals[Len(k.seals)] \in SealRow
  BY <1>1, <1>4, ElementOfSeq
<1> QED BY <1>1, <1>2, <1>3, <1>4, <1>5 DEF Stage, Last

\* The submission is the last seal with that stage.
LEMMA LastSubmission ==
  ASSUME NEW k, NEW n \in 1 .. Len(k.seals), Len(k.seals) \in Nat,
         k.seals[n].stage = "SUBMITTED",
         \A i \in n + 1 .. Len(k.seals) : k.seals[i].stage # "SUBMITTED"
  PROVE  SubmittedCandidate(k) = k.seals[n].cand
<1> DEFINE I == {i \in 1 .. Len(k.seals) : k.seals[i].stage = "SUBMITTED"}
<1>1. n \in I /\ I \subseteq Int /\ \A y \in I : n >= y
  BY SMT
<1>2. \A x \in I : (\A y \in I : x >= y) => x = n
  BY <1>1, SMT
<1>3. Max(I) = n
  <2> HIDE DEF I
  <2> QED BY <1>1, <1>2 DEF Max
<1>4. Submitted(k) = IF I # {} THEN Max(I) ELSE 0
  BY DEF Submitted, SelectLastInSeq
<1>5. Submitted(k) = n
  <2> HIDE DEF I
  <2> QED BY <1>1, <1>3, <1>4
<1> QED BY <1>5 DEF SubmittedCandidate

\* What the rules say of one seal of a chain.
LEMMA ChainSeal ==
  ASSUME NEW k \in Chain, Exists(k), NEW n \in 1 .. Len(k.seals), k.seals[n].stage # "OPEN"
  PROVE  /\ n - 1 \in 1 .. Len(k.seals)
         /\ Follows(k.seals[n - 1].stage, k.seals[n].stage)
         /\ k.seals[n].stage # "SUBMITTED" => k.seals[n].cand = k.seals[n - 1].cand
<1>1. Len(k.seals) \in Nat /\ k.seals[1].stage = "OPEN"
  BY ChainShape DEF Chain, WellFormed
<1>2. n # 1
  BY <1>1
<1>3. n \in 2 .. Len(k.seals) /\ n - 1 \in 1 .. Len(k.seals)
  BY <1>1, <1>2
<1>4. WellFormed(k)
  BY DEF Chain
<1> QED BY <1>3, <1>4 DEF WellFormed

\* Up to the final seal, a chain ends with seals about its submission.
LEMMA LastFitsSubmission ==
  ASSUME NEW k \in Chain, Exists(k), Stage(k) \in {"SUBMITTED", "ELIGIBLE", "APPROVED"}
  PROVE  SubmittedCandidate(k) = Last(k.seals).cand
<1>1. PICK n \in Nat \ {0} : n = Len(k.seals)
  BY ChainShape
<1>2. /\ n \in 1 .. Len(k.seals) /\ Len(k.seals) \in Nat
      /\ Stage(k) = k.seals[n].stage /\ Last(k.seals) = k.seals[n]
  BY <1>1, ChainShape
<1>3. CASE Stage(k) = "SUBMITTED"
  <2>1. \A i \in n + 1 .. Len(k.seals) : k.seals[i].stage # "SUBMITTED"
    BY <1>1
  <2>2. SubmittedCandidate(k) = k.seals[n].cand
    BY <1>2, <1>3, <2>1, LastSubmission
  <2> QED BY <1>2, <2>2
<1>4. CASE Stage(k) = "ELIGIBLE"
  <2>1. k.seals[n].stage = "ELIGIBLE"
    BY <1>2, <1>4
  <2>2. /\ n - 1 \in 1 .. Len(k.seals)
        /\ k.seals[n - 1].stage = "SUBMITTED" /\ k.seals[n].cand = k.seals[n - 1].cand
    BY <1>2, <2>1, ChainSeal DEF Follows
  <2>3. \A i \in (n - 1) + 1 .. Len(k.seals) : i = n
    BY <1>1
  <2>4. SubmittedCandidate(k) = k.seals[n - 1].cand
    BY <1>2, <2>1, <2>2, <2>3, LastSubmission
  <2> QED BY <1>2, <2>2, <2>4
<1>5. CASE Stage(k) = "APPROVED"
  <2>1. k.seals[n].stage = "APPROVED"
    BY <1>2, <1>5
  <2>2. /\ n - 1 \in 1 .. Len(k.seals)
        /\ k.seals[n - 1].stage = "ELIGIBLE" /\ k.seals[n].cand = k.seals[n - 1].cand
    BY <1>2, <2>1, ChainSeal DEF Follows
  <2>3. PICK m \in Int : m = n - 1
    BY <1>1
  <2>4. m \in 1 .. Len(k.seals) /\ k.seals[m].stage = "ELIGIBLE"
    BY <2>2, <2>3
  <2>5. /\ m - 1 \in 1 .. Len(k.seals)
        /\ k.seals[m - 1].stage = "SUBMITTED" /\ k.seals[m].cand = k.seals[m - 1].cand
    BY <2>4, ChainSeal DEF Follows
  <2>6. \A i \in (m - 1) + 1 .. Len(k.seals) : i = m \/ i = n
    BY <1>1, <2>3
  <2>7. SubmittedCandidate(k) = k.seals[m - 1].cand
    BY <1>2, <2>1, <2>4, <2>5, <2>6, LastSubmission
  <2> QED BY <1>2, <2>2, <2>3, <2>5, <2>7
<1> QED BY <1>3, <1>4, <1>5

\* A seal that may follow makes a longer chain of the same admission.
LEMMA SealedChain ==
  ASSUME NEW k \in Chain, NEW seal \in SealRow, Exists(k), Follows(Stage(k), seal.stage),
         seal.stage # "SUBMITTED" => seal.cand = Last(k.seals).cand
  PROVE  /\ Sealed(k, seal) \in Chain /\ Exists(Sealed(k, seal)) /\ Sealed(k, seal).by = k.by
         /\ Len(Sealed(k, seal).seals) = Len(k.seals) + 1
         /\ Stage(Sealed(k, seal)) = seal.stage /\ Last(Sealed(k, seal).seals) = seal
<1>1. PICK n \in Nat \ {0} : n = Len(k.seals)
  BY ChainShape
<1>2. PICK q : q = Append(k.seals, seal)
  OBVIOUS
<1>3. /\ q \in Seq(SealRow) /\ q # <<>> /\ Len(q) = n + 1
      /\ \A i \in 1 .. n : q[i] = k.seals[i]
      /\ q[n + 1] = seal
  BY <1>1, <1>2, ChainShape, AppendProperties
<1>4. Sealed(k, seal) = [by |-> k.by, seals |-> q]
  <2>1. k = [by |-> k.by, seals |-> k.seals]
    BY ChainShape
  <2> QED BY <1>2, <2>1 DEF Sealed
<1>5. q[1].stage = "OPEN"
  <2>1. k.seals[1].stage = "OPEN"
    BY DEF Chain, WellFormed
  <2> QED BY <1>3, <2>1
<1>6. ASSUME NEW i \in 2 .. Len(q)
      PROVE  /\ Follows(q[i - 1].stage, q[i].stage)
             /\ q[i].stage # "SUBMITTED" => q[i].cand = q[i - 1].cand
  <2>1. CASE i \in 2 .. n
    <3>1. /\ Follows(k.seals[i - 1].stage, k.seals[i].stage)
          /\ k.seals[i].stage # "SUBMITTED" => k.seals[i].cand = k.seals[i - 1].cand
      BY <1>1, <2>1 DEF Chain, WellFormed
    <3>2. q[i] = k.seals[i] /\ q[i - 1] = k.seals[i - 1]
      BY <1>3, <2>1
    <3> QED BY <3>1, <3>2
  <2>2. CASE i = n + 1
    <3>1. q[i] = seal /\ q[i - 1] = k.seals[n]
      BY <1>3, <2>2
    <3>2. Stage(k) = k.seals[n].stage /\ Last(k.seals) = k.seals[n]
      BY <1>1, ChainShape
    <3> QED BY <3>1, <3>2
  <2> QED BY <1>3, <1>6, <2>1, <2>2
<1>7. k.by \in Nat \ {0}
  BY ChainShape
<1>8. Sealed(k, seal) \in Chain
  BY <1>3, <1>4, <1>5, <1>6, <1>7 DEF Chain, WellFormed, Exists
<1> QED BY <1>1, <1>3, <1>4, <1>8 DEF Exists, Stage, Last

LEMMA NewChain ==
  ASSUME NEW n \in Nat, NEW k, k = [by |-> n + 1, seals |-> <<Seal("OPEN", None, 0)>>]
  PROVE  k \in Chain /\ Exists(k) /\ Stage(k) = "OPEN" /\ k.by = n + 1
<1>1. Seal("OPEN", None, 0) \in SealRow /\ Seal("OPEN", None, 0).stage = "OPEN"
  BY DEF Seal, SealRow, StageName
<1>2. PICK x \in SealRow : x = Seal("OPEN", None, 0) /\ x.stage = "OPEN"
  BY <1>1
<1>3. k = [by |-> n + 1, seals |-> <<x>>]
  BY <1>2
<1>4. <<x>> \in Seq(SealRow) /\ <<x>> # <<>> /\ Len(<<x>>) = 1 /\ <<x>>[1] = x
  BY <1>2, SMT
<1>5. /\ k \in [by : Nat, seals : Seq(SealRow)] /\ k.by = n + 1 /\ k.by # 0
      /\ k.seals # <<>> /\ Len(k.seals) = 1 /\ k.seals[1].stage = "OPEN"
  BY <1>2, <1>3, <1>4
<1> QED BY <1>5 DEF Chain, WellFormed, Exists, Stage, Last

-----------------------------------------------------------------------------
(* Versions and sessions.                                                  *)

LEMMA NextAfter ==
  ASSUME NEW n \in Nat, Frozen = 1 .. n
  PROVE  NextVersion = n + 1
<1>1. Cardinality(1 .. n) = n
  BY FS_Interval
<1> QED BY <1>1 DEF NextVersion

LEMMA SameVersions ==
  ASSUME versions' = versions
  PROVE  Frozen' = Frozen /\ NextVersion' = NextVersion
  BY DEF Frozen, NextVersion

LEMMA OneSession ==
  ASSUME NEW s \in Session, NEW r \in Row, session \in [Session -> Row], Set(s, r)
  PROVE  /\ session' \in [Session -> Row] /\ session'[s] = r
         /\ \A t \in Session : t # s => session'[t] = session[t]
  BY DEF Set

\* The frames of the sessions' steps.
SameBut(r, q, p) ==
  /\ q.pc = p /\ q.kind = r.kind /\ q.cand = r.cand /\ q.seen = r.seen /\ q.version = r.version
  /\ q.undo = r.undo /\ q.before = r.before

LEMMA PcRow ==
  ASSUME NEW r \in Row, NEW p \in PC \ {"promote", "repromote"}, r.cand \in Candidate,
         NEW q, q = [r EXCEPT !.pc = p]
  PROVE  q \in Row /\ SameBut(r, q, p)
  BY DEF Row, Fields, SameBut, Fresh

LEMMA IdleRow == Idle \in Row /\ Idle.pc = "idle" /\ Idle.undo = <<>> /\ Idle.seen = NoCred
                 /\ Idle.before.cred = NoCred
<1>1. Idle.before \in Backup
  BY NothingIsChain DEF Idle, Backup
<1>2. Idle.undo = <<>> /\ Idle.undo \in Seq(Snap)
  BY DEF Idle
<1> QED BY <1>1, <1>2, NothingIsChain DEF Idle, Row, Fields, PC, Fresh

LEMMA KeptShape ==
  ASSUME NEW r \in Row
  PROVE  /\ r.undo \in Seq(Snap) /\ Kept(r) \in Seq(Snap)
         /\ Fresh(r) => Head(r.undo) \in Snap
         /\ ~Fresh(r) => Kept(r) = r.undo /\ ~Begins(r)
<1>1. r.undo \in Seq(Snap) /\ (Fresh(r) => r.undo # <<>>)
  BY DEF Row, Fields
<1>2. Fresh(r) => Head(r.undo) \in Snap /\ Tail(r.undo) \in Seq(Snap)
  BY <1>1, HeadTailProperties
<1> QED BY <1>1, <1>2 DEF Kept, Begins

LEMMA NothingKept ==
  ASSUME NEW r, Kept(r) = <<>>
  PROVE  ~Wipes(r) /\ 1 .. Len(Kept(r)) = {}
<1>1. Len(Kept(r)) = 0
  OBVIOUS
<1> QED BY <1>1 DEF Wipes

-----------------------------------------------------------------------------
(* A step of one session that leaves the registry alone.                   *)

WorldStill ==
  /\ UNCHANGED <<cred, events, evidence, versions, lock>>
  /\ \/ home' = home
     \/ home = "absent" /\ (home' = "bare" \/ (home' = "family" /\ lock = None))
  /\ count' \in CountRow /\ count'.admissions = count.admissions /\ count'.torn = count.torn
  /\ FilesOK'

\* r keeps what p kept, or nothing, or all of it but the last.
KeepsNoMore(p, r) ==
  \/ Kept(r) \in {Kept(p), <<>>}
  \/ Kept(p) # <<>> /\ Kept(r) = Tail(Kept(p))

LEMMA FewerKept ==
  ASSUME NEW p \in Row, NEW r, KeepsNoMore(p, r)
  PROVE  /\ \A i \in 1 .. Len(Kept(r)) : \E j \in 1 .. Len(Kept(p)) : Kept(r)[i] = Kept(p)[j]
         /\ Kept(p) = <<>> => Kept(r) = <<>>
         /\ Len(Kept(p)) = 1 => Kept(r) \in {Kept(p), <<>>}
<1>1. PICK k \in Seq(Snap) : k = Kept(p)
  <2>1. p.undo \in Seq(Snap) /\ (Fresh(p) => p.undo # <<>>)
    BY DEF Row, Fields
  <2>2. Fresh(p) => Tail(p.undo) \in Seq(Snap)
    BY <2>1
  <2> QED BY <2>1, <2>2 DEF Kept
<1>2. CASE Kept(r) \in {Kept(p), <<>>}
  BY <1>2
<1>3. CASE Kept(p) # <<>> /\ Kept(r) = Tail(Kept(p))
  <2>1. PICK t \in Seq(Snap) : t = Kept(r) /\ t = Tail(k) /\ k # <<>>
    BY <1>1, <1>3
  <2>2. Len(t) = Len(k) - 1 /\ \A i \in 1 .. Len(t) : t[i] = k[i + 1]
    BY <2>1
  <2>3. \A i \in 1 .. Len(t) : i + 1 \in 1 .. Len(k)
    BY <2>2
  <2>4. Len(k) = 1 => t = <<>>
    BY <2>2
  <2> QED BY <1>1, <1>3, <2>1, <2>2, <2>3, <2>4
<1> QED BY <1>2, <1>3 DEF KeepsNoMore

Private(s, r) ==
  /\ r \in Row /\ session[s].pc \notin Writing /\ r.pc \notin Writing /\ Known(r)
  /\ KeepsNoMore(session[s], r)
  /\ Begins(r) => home = "family" /\ ~Exists(cred)
  /\ r.pc = "judge" => JudgeFits(r)
  /\ r.pc = "seal" => r.seen = cred /\ ApproverFits(r)

LEMMA PrivateGuards ==
  ASSUME Guards, NEW s \in Session, NEW r, Private(s, r), WorldStill, session \in [Session -> Row],
         Set(s, r)
  PROVE  Guards'
<1>1. /\ r \in Row /\ session'[s] = r
      /\ \A i \in 1 .. Len(Kept(r)) :
           \E j \in 1 .. Len(Kept(session[s])) : Kept(r)[i] = Kept(session[s])[j]
      /\ Kept(session[s]) = <<>> => Kept(r) = <<>>
      /\ Len(Kept(session[s])) = 1 => Kept(r) \in {Kept(session[s]), <<>>}
      /\ Begins(r) => home = "family" /\ ~Exists(cred)
      /\ \A t \in Session : t # s => session'[t] = session[t]
  BY OneSession, FewerKept DEF Private
<1>2. KeptAreNew'
  <2>1. \A i \in 1 .. Len(Kept(r)) : Kept(r)[i].cred = NoCred /\ Kept(r)[i].home # "bare"
    BY <1>1 DEF Guards, KeptAreNew
  <2> QED BY <1>1, <2>1 DEF Guards, KeptAreNew
<1>3. NoFamilyYet'
  <2>1. Frozen' = Frozen
    BY SameVersions DEF WorldStill
  <2>2. SUFFICES ASSUME home' # "family"
                 PROVE  /\ cred' = NoCred /\ Frozen' = {}
                        /\ \A t \in Session : Kept(session'[t]) = <<>> /\ ~Begins(session'[t])
    BY DEF NoFamilyYet
  <2>3. /\ home # "family" /\ cred' = NoCred /\ Frozen' = {}
        /\ \A t \in Session : Kept(session[t]) = <<>> /\ ~Begins(session[t])
    BY <2>1, <2>2 DEF WorldStill, Guards, NoFamilyYet
  <2> QED BY <1>1, <2>3
<1>4. OneWiper'
  <2>1. SUFFICES ASSUME NEW w \in Session, Wipes(session'[w])
                 PROVE  /\ Exists(cred') /\ Len(Kept(session'[w])) = 1
                        /\ \A t \in Session :
                             ~Begins(session'[t]) /\ (t # w => Kept(session'[t]) = <<>>)
    BY DEF OneWiper
  <2>2. Wipes(session[w]) /\ Kept(session'[w]) = Kept(session[w])
    <3>1. Wipes(session[w])
      BY <1>1, <2>1 DEF Wipes
    <3>2. Len(Kept(session[w])) = 1
      BY <3>1 DEF Guards, OneWiper
    <3> QED BY <1>1, <2>1, <3>1, <3>2, NothingKept
  <2>3. /\ Exists(cred) /\ Len(Kept(session[w])) = 1
        /\ \A t \in Session : ~Begins(session[t]) /\ (t # w => Kept(session[t]) = <<>>)
    BY <2>2 DEF Guards, OneWiper
  <2>4. cred' = cred
    BY DEF WorldStill
  <2> QED BY <1>1, <2>2, <2>3, <2>4
<1> QED BY <1>2, <1>3, <1>4 DEF Guards

LEMMA PrivateStep ==
  ASSUME Inv, NEW s \in Session, NEW r, Private(s, r), WorldStill, Set(s, r)
  PROVE  Inv'
<1>1. /\ r \in Row /\ session' \in [Session -> Row] /\ session'[s] = r
      /\ \A t \in Session : t # s => session'[t] = session[t]
      /\ session \in [Session -> Row]
  BY OneSession DEF Private, Inv, Types
<1>2. /\ cred' = cred /\ events' = events /\ evidence' = evidence /\ versions' = versions
      /\ lock' = lock /\ count'.admissions = count.admissions /\ count'.torn = count.torn
      /\ Frozen' = Frozen /\ NextVersion' = NextVersion
  BY SameVersions DEF WorldStill
<1>3. Types'
  <2>1. home' \in Home
    BY DEF WorldStill, Inv, Types, Home
  <2> QED BY <1>1, <1>2, <2>1 DEF WorldStill, Inv, Types
<1>4. Admitted'
  <2>1. Known(r)'
    BY <1>2 DEF Private, Known
  <2> QED BY <1>1, <1>2, <2>1 DEF Inv, Admitted, Known, Private
<1>5. Guards'
  BY <1>1, PrivateGuards DEF Inv
<1>6. LockHeld'
  BY <1>1, <1>2 DEF Inv, LockHeld, Private
<1>7. VersionsInOrder' /\ ChainNames'
  BY <1>2 DEF Inv, VersionsInOrder, ChainNames
<1>8. HolderKnows'
  <2>1. SUFFICES ASSUME NEW t \in Session, session'[t].pc \in Writing
                 PROVE  HolderFits(session[t])' /\ session'[t] = session[t]
    BY DEF HolderKnows, HolderFits
  <2>2. session'[t] = session[t] /\ session[t].pc \in Writing
    BY <1>1, <2>1 DEF Private
  <2>3. HolderFits(session[t]) /\ lock = t
    BY <2>2 DEF Inv, Knowledge, HolderKnows, LockHeld
  <2>4. home' = "family" => home = "family"
    <3>1. lock # None
      BY <2>3, NoneAssumption
    <3> QED BY <3>1 DEF WorldStill
  <2> QED BY <1>2, <2>2, <2>3, <2>4 DEF HolderFits
<1>9. JudgeKnows'
  BY <1>1 DEF Inv, Knowledge, JudgeKnows, JudgeFits, At, Private
<1>10. ApproverKnows' /\ ApproverPast'
  <2>1. ApproverKnows'
    BY <1>1, <1>2 DEF Inv, Knowledge, ApproverKnows, ApproverFits, At, Private
  <2>2. SUFFICES ASSUME NEW a \in Session, NEW t \in Session, session'[a].pc = "seal",
                        session'[t].pc \in Writing
                 PROVE  NoLaterThan(session'[a].seen, session'[t].before.cred)
    BY <2>1 DEF ApproverPast, At
  <2>3. session'[t] = session[t] /\ session[t].pc \in Writing
    BY <1>1, <2>2 DEF Private
  <2>4. CASE a = s
    <3>1. r.seen = cred /\ ApproverFits(r) /\ session'[a] = r
      BY <1>1, <2>2, <2>4 DEF Private
    <3>2. HolderFits(session[t])
      BY <2>3 DEF Inv, Knowledge, HolderKnows
    <3>3. cred = session[t].before.cred
      BY <3>1, <3>2, NothingIsChain DEF ApproverFits, HolderFits
    <3> QED BY <3>1, <3>2, <3>3 DEF ApproverFits, HolderFits
  <2>5. CASE a # s
    BY <1>1, <2>2, <2>3, <2>5 DEF Inv, Knowledge, ApproverPast, At
  <2> QED BY <2>4, <2>5
<1>11. Goals'
  BY <1>2 DEF Inv, Goals, ApprovalFreezesOnce, SealedIsComplete, ApprovedCanResume
<1> QED BY <1>3, <1>4, <1>5, <1>6, <1>7, <1>8, <1>9, <1>10, <1>11 DEF Inv, Knowledge, WorldStill

-----------------------------------------------------------------------------
(* A seal at the end of the chain, outside a freeze.                       *)

\* Guards when nothing of home changes and the credential stays or appears.
LEMMA GuardsKept ==
  ASSUME Guards, NEW s \in Session, NEW r \in Row, session \in [Session -> Row], Set(s, r),
         Kept(r) \in {Kept(session[s]), <<>>}, ~Begins(r),
         home' = home, home # "family" => cred' = cred /\ Frozen' = Frozen,
         Exists(cred) => Exists(cred')
  PROVE  Guards'
<1>1. /\ session'[s] = r /\ Kept(r) \in {Kept(session[s]), <<>>} /\ ~Begins(r)
      /\ \A t \in Session : t # s => session'[t] = session[t]
  BY OneSession
<1>2. KeptAreNew'
  <2>1. \A i \in 1 .. Len(Kept(r)) : Kept(r)[i].cred = NoCred /\ Kept(r)[i].home # "bare"
    <3>1. CASE Kept(r) = <<>>
      BY <3>1, NothingKept
    <3>2. CASE Kept(r) = Kept(session[s])
      BY <3>2 DEF Guards, KeptAreNew
    <3> QED BY <3>1, <3>2
  <2> QED BY <1>1, <2>1 DEF Guards, KeptAreNew
<1>3. NoFamilyYet'
  <2>1. SUFFICES ASSUME home' # "family"
                 PROVE  /\ cred' = NoCred /\ Frozen' = {}
                        /\ \A t \in Session : Kept(session'[t]) = <<>> /\ ~Begins(session'[t])
    BY DEF NoFamilyYet
  <2>2. /\ cred' = NoCred /\ Frozen' = {}
        /\ \A t \in Session : Kept(session[t]) = <<>> /\ ~Begins(session[t])
    BY <2>1 DEF Guards, NoFamilyYet
  <2> QED BY <1>1, <2>2
<1>4. OneWiper'
  <2>1. SUFFICES ASSUME NEW w \in Session, Wipes(session'[w])
                 PROVE  /\ Exists(cred') /\ Len(Kept(session'[w])) = 1
                        /\ \A t \in Session :
                             ~Begins(session'[t]) /\ (t # w => Kept(session'[t]) = <<>>)
    BY DEF OneWiper
  <2>2. Wipes(session[w]) /\ Kept(session'[w]) = Kept(session[w])
    BY <1>1, <2>1, NothingKept DEF Wipes
  <2>3. /\ Exists(cred) /\ Len(Kept(session[w])) = 1
        /\ \A t \in Session : ~Begins(session[t]) /\ (t # w => Kept(session[t]) = <<>>)
    BY <2>2 DEF Guards, OneWiper
  <2> QED BY <1>1, <2>2, <2>3
<1> QED BY <1>2, <1>3, <1>4 DEF Guards

Extends(seal) ==
  /\ lock = None /\ Exists(cred) /\ Follows(Stage(cred), seal.stage) /\ seal \in SealRow
  /\ seal.stage # "SUBMITTED" => seal.cand = Last(cred.seals).cand
  /\ seal.stage # "FROZEN" /\ (seal.stage = "APPROVED" => seal.version = NextVersion)

LEMMA SealStep ==
  ASSUME Inv, NEW s \in Session, NEW r \in Row, NEW seal, Extends(seal), Set(s, r),
         cred' = Sealed(cred, seal),
         UNCHANGED <<home, events, evidence, versions, packages, candidates, receipts, lock, count>>,
         session[s].pc \notin Writing, r.pc \notin Writing \cup {"judge", "seal"}, Known(r),
         Kept(r) \in {Kept(session[s]), <<>>}, ~Begins(r)
  PROVE  Inv'
<1>1. /\ session' \in [Session -> Row] /\ session'[s] = r
      /\ \A t \in Session : t # s => session'[t] = session[t]
      /\ session \in [Session -> Row]
  BY OneSession DEF Inv, Types
<1>2. /\ cred \in Chain /\ Exists(cred) /\ cred' \in Chain /\ Exists(cred') /\ cred'.by = cred.by
      /\ Len(cred.seals) \in Nat /\ Len(cred'.seals) = Len(cred.seals) + 1
      /\ Stage(cred') = seal.stage /\ Last(cred'.seals) = seal
  BY SealedChain, ChainShape DEF Extends, Inv, Types
<1>3. Frozen' = Frozen /\ NextVersion' = NextVersion
  BY SameVersions
<1>4. Types' /\ FilesOK'
  BY <1>1, <1>2 DEF Inv, Types, FilesOK
<1>5. Admitted'
  BY <1>1, <1>2 DEF Inv, Admitted, Known
<1>6. Guards'
  <2>1. home = "family"
    BY <1>2, NothingIsChain DEF Inv, Guards, NoFamilyYet
  <2> QED BY <1>1, <1>2, <2>1, GuardsKept DEF Inv
<1>7. LockHeld'
  BY <1>1 DEF Inv, LockHeld
<1>8. VersionsInOrder'
  BY <1>3 DEF Inv, VersionsInOrder
<1>9. seal.stage \notin {"FROZEN"} /\ Stage(cred) \notin {"APPROVED", "FROZEN"}
  BY DEF Extends, Follows
<1>10. ChainNames'
  BY <1>2, <1>3, <1>9 DEF Inv, ChainNames, Approves
<1>11. \A t \in Session : session'[t].pc \notin Writing
  BY <1>1, NoneAssumption DEF Inv, LockHeld, Extends
<1>12. HolderKnows' /\ ApproverPast'
  BY <1>11 DEF HolderKnows, ApproverPast
<1>13. JudgeKnows'
  BY <1>1 DEF Inv, Knowledge, JudgeKnows, JudgeFits, At
<1>14. ApproverKnows'
  <2>1. SUFFICES ASSUME NEW t \in Session, session'[t].pc = "seal"
                 PROVE  ApproverFits(session[t])' /\ session'[t] = session[t]
    BY DEF ApproverKnows, At, ApproverFits
  <2>2. session'[t] = session[t] /\ ApproverFits(session[t])
    BY <1>1, <2>1 DEF Inv, Knowledge, ApproverKnows, At
  <2>3. session[t].seen \in Chain
    BY <1>1 DEF Row, Fields
  <2>4. Len(session[t].seen.seals) \in Nat
    BY <2>3, ChainShape
  <2>5. cred' # session[t].seen /\ NoLaterThan(session[t].seen, cred')
    BY <1>2, <2>2, <2>4 DEF ApproverFits, NoLaterThan
  <2> QED BY <2>2, <2>5 DEF ApproverFits
<1>15. Goals'
  <2>1. ApprovedCanResume' /\ SealedIsComplete'
    BY <1>2, <1>3, <1>9 DEF ApprovedCanResume, SealedIsComplete, Extends
  <2> QED BY <1>3, <2>1 DEF Inv, Goals, ApprovalFreezesOnce
<1> QED BY <1>4, <1>5, <1>6, <1>7, <1>8, <1>10, <1>12, <1>13, <1>14, <1>15 DEF Inv, Knowledge

-----------------------------------------------------------------------------
(* A promotion that changes something.                                     *)

Promotes(s, r) ==
  LET mine == Head(session[s].undo)
      new == [by |-> count.admissions + 1, seals |-> <<Seal("OPEN", None, 0)>>] IN
  /\ Fresh(session[s]) /\ ~Exists(mine.cred) /\ lock = None /\ home = mine.home /\ home # "bare"
  /\ cred' = IF Exists(cred) THEN cred ELSE new
  /\ count' = IF Exists(cred) THEN count ELSE [count EXCEPT !.admissions = @ + 1]
  /\ home' = "family"
  /\ r \in Row /\ r.pc \in {"admit", "submit"} /\ r.undo = session[s].undo /\ r.seen = cred'
  /\ r.before = session[s].before

LEMMA PromotedKept ==
  ASSUME NEW p \in Row, NEW r \in Row, Fresh(p), ~Fresh(r), r.undo = p.undo
  PROVE  /\ Kept(r) = p.undo /\ Len(Kept(r)) = Len(Kept(p)) + 1 /\ Kept(r) # <<>>
         /\ Len(Kept(p)) \in Nat /\ Head(p.undo) \in Snap
         /\ Kept(r)[1] = Head(p.undo)
         /\ \A i \in 1 .. Len(Kept(r)) : i # 1 => i - 1 \in 1 .. Len(Kept(p))
                                              /\ Kept(r)[i] = Kept(p)[i - 1]
<1>1. p.undo \in Seq(Snap) /\ p.undo # <<>>
  BY DEF Row, Fields
<1>2. /\ Head(p.undo) \in Snap /\ Tail(p.undo) \in Seq(Snap)
      /\ Len(Tail(p.undo)) = Len(p.undo) - 1 /\ Len(p.undo) \in Nat /\ Head(p.undo) = p.undo[1]
      /\ \A i \in 1 .. Len(Tail(p.undo)) : Tail(p.undo)[i] = p.undo[i + 1]
  BY <1>1, HeadTailProperties, LenProperties
<1>3. Kept(r) = p.undo /\ Kept(p) = Tail(p.undo)
  BY DEF Kept
<1>4. Len(p.undo) = Len(Tail(p.undo)) + 1 /\ Len(Tail(p.undo)) \in Nat
  BY <1>1, <1>2, LenProperties
<1>5. ASSUME NEW i \in 1 .. Len(p.undo), i # 1
      PROVE  i - 1 \in 1 .. Len(Tail(p.undo)) /\ p.undo[i] = Tail(p.undo)[i - 1]
  <2>1. i - 1 \in 1 .. Len(Tail(p.undo)) /\ (i - 1) + 1 = i
    BY <1>4, <1>5
  <2> QED BY <1>2, <2>1
<1> QED BY <1>1, <1>2, <1>3, <1>4, <1>5

LEMMA PromoteGuards ==
  ASSUME Guards, Types, NEW s \in Session, NEW r, Promotes(s, r), Set(s, r), Exists(cred')
  PROVE  Guards'
<1>1. /\ r \in Row /\ session \in [Session -> Row] /\ session'[s] = r
      /\ \A t \in Session : t # s => session'[t] = session[t]
  BY OneSession DEF Promotes, Types
<1>2. /\ Fresh(session[s]) /\ ~Fresh(r) /\ ~Begins(r) /\ r.undo = session[s].undo
      /\ home = Head(session[s].undo).home /\ home # "bare"
      /\ ~Exists(Head(session[s].undo).cred) /\ home' = "family"
  BY DEF Promotes, Fresh, Begins
<1> DEFINE p == session[s]
<1>4. /\ Len(Kept(r)) = Len(Kept(p)) + 1 /\ Len(Kept(p)) \in Nat /\ Head(p.undo) \in Snap
      /\ Kept(r)[1] = Head(p.undo)
      /\ \A i \in 1 .. Len(Kept(r)) : i # 1 => i - 1 \in 1 .. Len(Kept(p))
                                           /\ Kept(r)[i] = Kept(p)[i - 1]
  BY <1>1, <1>2, PromotedKept
<1>5. Head(p.undo).cred = NoCred
  <2>1. Head(p.undo).cred \in Chain
    BY <1>4 DEF Snap
  <2> QED BY <1>2, <2>1, ChainShape
<1> HIDE DEF p
<1>6. KeptAreNew'
  <2>1. ASSUME NEW i \in 1 .. Len(Kept(r))
        PROVE  Kept(r)[i].cred = NoCred /\ Kept(r)[i].home # "bare"
    <3>1. CASE i = 1
      BY <1>2, <1>4, <1>5, <3>1 DEF p
    <3>2. CASE i # 1
      BY <1>4, <2>1, <3>2 DEF p, Guards, KeptAreNew
    <3> QED BY <3>1, <3>2
  <2> QED BY <1>1, <2>1 DEF Guards, KeptAreNew
<1>7. NoFamilyYet'
  BY <1>2 DEF NoFamilyYet
<1>8. OneWiper'
  <2>1. CASE home = "family"
    <3>1. Begins(p)
      BY <1>2, <2>1 DEF p, Begins
    <3>2. \A w \in Session : ~Wipes(session[w])
      BY <3>1 DEF p, Guards, OneWiper
    <3>3. ~Wipes(r)
      <4>1. SUFFICES ASSUME NEW i \in 1 .. Len(Kept(r)), Kept(r)[i].home = "absent"
                     PROVE  FALSE
        BY DEF Wipes
      <4>2. i # 1
        BY <1>2, <1>4, <2>1, <4>1 DEF p
      <4>3. i - 1 \in 1 .. Len(Kept(p)) /\ Kept(p)[i - 1].home = "absent"
        BY <1>4, <4>1, <4>2
      <4> QED BY <3>2, <4>3 DEF p, Wipes
    <3> QED BY <1>1, <3>2, <3>3 DEF OneWiper
  <2>2. CASE home # "family"
    <3>1. \A t \in Session : Kept(session[t]) = <<>> /\ ~Begins(session[t])
      BY <2>2 DEF Guards, NoFamilyYet
    <3>2. Len(Kept(r)) = 1
      BY <1>4, <3>1 DEF p
    <3>3. \A t \in Session : t # s => Kept(session'[t]) = <<>>
      BY <1>1, <3>1
    <3>4. \A t \in Session : ~Begins(session'[t])
      BY <1>1, <1>2, <3>1
    <3>5. \A w \in Session : w # s => ~Wipes(session'[w])
      BY <3>3, NothingKept
    <3> QED BY <1>1, <3>2, <3>3, <3>4, <3>5 DEF OneWiper
  <2> QED BY <2>1, <2>2
<1> QED BY <1>6, <1>7, <1>8 DEF Guards

LEMMA PromoteStep ==
  ASSUME Inv, NEW s \in Session, NEW r, Promotes(s, r), Set(s, r),
         UNCHANGED <<events, evidence, versions, packages, candidates, receipts, lock>>
  PROVE  Inv'
<1>1. /\ r \in Row /\ session' \in [Session -> Row] /\ session'[s] = r
      /\ \A t \in Session : t # s => session'[t] = session[t]
      /\ session \in [Session -> Row] /\ count \in CountRow /\ cred \in Chain
      /\ count.admissions \in Nat
  BY OneSession DEF Promotes, Inv, Types, CountRow
<1>2. /\ cred' \in Chain /\ Exists(cred') /\ count' \in CountRow
      /\ count.admissions <= count'.admissions /\ count'.torn = count.torn
      /\ Exists(cred) => cred' = cred /\ count' = count
      /\ ~Exists(cred) => /\ Stage(cred') = "OPEN" /\ cred'.by = count.admissions + 1
                          /\ count'.admissions = count.admissions + 1
  <2>1. CASE Exists(cred)
    BY <1>1, <2>1 DEF Promotes
  <2>2. CASE ~Exists(cred)
    BY <1>1, <2>2, NewChain DEF Promotes, CountRow
  <2> QED BY <2>1, <2>2
<1>3. Frozen' = Frozen /\ NextVersion' = NextVersion
  BY SameVersions
<1>4. Types' /\ FilesOK'
  BY <1>1, <1>2 DEF Inv, Types, FilesOK, Promotes, Home
<1>5. Admitted'
  <2>1. cred.by \in Nat /\ cred'.by \in Nat /\ count'.admissions \in Nat
        /\ (\A v \in Version : versions[v].by \in Nat)
    BY <1>1, <1>2, ChainShape DEF CountRow, Inv, Types
  <2>2. \A t \in Session : /\ session[t].seen.by \in Nat /\ session[t].before.cred.by \in Nat
                           /\ Fresh(session[t]) => Head(session[t].undo).cred.by \in Nat
    BY <1>1, KeptShape, ChainShape DEF Row, Fields, Backup, Snap
  <2>3. cred'.by <= count'.admissions
    BY <1>1, <1>2, <2>1 DEF Inv, Admitted
  <2>4. \A v \in Version : versions[v].by <= count'.admissions
    BY <1>1, <1>2, <2>1 DEF Inv, Admitted
  <2>5. \A t \in Session : /\ session[t].seen.by <= count'.admissions
                           /\ session[t].before.cred.by <= count'.admissions
                           /\ Fresh(session[t]) => Head(session[t].undo).cred.by <= count'.admissions
    BY <1>1, <1>2, <2>1, <2>2 DEF Inv, Admitted, Known
  <2>6. r.seen = cred' /\ r.before = session[s].before /\ ~Fresh(r)
    BY DEF Promotes, Fresh
  <2> QED BY <1>1, <2>3, <2>4, <2>5, <2>6 DEF Admitted, Known
<1>6. Guards'
  BY <1>2, PromoteGuards DEF Inv
<1>7. LockHeld'
  <2>1. session[s].pc \notin Writing /\ r.pc \notin Writing
    BY DEF Promotes, Fresh, Writing
  <2> QED BY <1>1, <2>1 DEF Inv, LockHeld
<1>8. VersionsInOrder'
  BY <1>3 DEF Inv, VersionsInOrder
<1>9. ChainNames'
  <2>1. CASE Exists(cred)
    BY <1>2, <1>3, <2>1 DEF Inv, ChainNames
  <2>2. CASE ~Exists(cred)
    <3>1. \A v \in Frozen : versions[v].by # cred'.by
      BY <1>1, <1>2, <2>2 DEF Inv, Admitted, Types, Frozen
    <3> QED BY <1>3, <3>1 DEF ChainNames
  <2> QED BY <2>1, <2>2
<1>10. \A t \in Session : session'[t].pc \notin Writing
  <2>1. \A t \in Session : lock' # t
    BY NoneAssumption DEF Promotes
  <2> QED BY <1>7, <2>1 DEF LockHeld
<1>11. HolderKnows' /\ ApproverPast'
  BY <1>10 DEF HolderKnows, ApproverPast
<1>12. r.pc \notin {"judge", "seal"}
  BY DEF Promotes
<1>13. JudgeKnows'
  BY <1>1, <1>12 DEF Inv, Knowledge, JudgeKnows, JudgeFits, At
<1>14. ApproverKnows'
  <2>1. SUFFICES ASSUME NEW t \in Session, session'[t].pc = "seal"
                 PROVE  ApproverFits(session[t])' /\ session'[t] = session[t]
    BY DEF ApproverKnows, At, ApproverFits
  <2>2. session'[t] = session[t] /\ ApproverFits(session[t])
    BY <1>1, <1>12, <2>1 DEF Inv, Knowledge, ApproverKnows, At
  <2>3. CASE Exists(cred)
    BY <1>2, <1>3, <2>2, <2>3 DEF ApproverFits
  <2>4. CASE ~Exists(cred)
    <3>1. session[t].seen.by \in Nat /\ session[t].seen.by <= count.admissions
      BY <1>1, ChainShape DEF Row, Fields, Inv, Admitted, Known
    <3>2. cred'.by # session[t].seen.by
      BY <1>1, <1>2, <2>4, <3>1
    <3> QED BY <2>2, <3>2 DEF ApproverFits, NoLaterThan
  <2> QED BY <2>3, <2>4
<1>15. Goals'
  <2>1. CASE Exists(cred)
    BY <1>2, <1>3, <2>1 DEF Inv, Goals, ApprovalFreezesOnce, SealedIsComplete, ApprovedCanResume
  <2>2. CASE ~Exists(cred)
    BY <1>2, <1>3, <2>2 DEF Inv, Goals, ApprovalFreezesOnce, SealedIsComplete, ApprovedCanResume
  <2> QED BY <2>1, <2>2
<1> QED BY <1>4, <1>5, <1>6, <1>7, <1>8, <1>9, <1>11, <1>13, <1>14, <1>15 DEF Inv, Knowledge

-----------------------------------------------------------------------------
(* Rolling a promotion back.                                               *)

\* What a session is after it has undone its last change.
Shorter(s, r) ==
  /\ session[s].pc = "undo" /\ session[s].undo # <<>>
  /\ r = IF Len(session[s].undo) > 1 THEN [session[s] EXCEPT !.undo = Tail(@)] ELSE Idle

LEMMA ShorterRow ==
  ASSUME Types, Admitted, NEW s \in Session, NEW r, Shorter(s, r)
  PROVE  /\ r \in Row /\ r.pc \in {"undo", "idle"} /\ ~Fresh(r) /\ ~Begins(r) /\ Known(r)
         /\ Kept(session[s]) = session[s].undo /\ Kept(r) = Tail(session[s].undo)
         /\ Kept(session[s]) # <<>> /\ Len(Kept(session[s])) \in Nat \ {0}
         /\ Head(session[s].undo) \in Snap /\ Head(session[s].undo) = Kept(session[s])[1]
         /\ Len(Kept(r)) = Len(Kept(session[s])) - 1
         /\ \A i \in 1 .. Len(Kept(r)) : /\ i + 1 \in 1 .. Len(Kept(session[s]))
                                         /\ Kept(r)[i] = Kept(session[s])[i + 1]
<1> DEFINE p == session[s]
<1>1. p \in Row /\ p.pc = "undo" /\ p.undo \in Seq(Snap) /\ p.undo # <<>>
  BY DEF Types, Row, Fields, Shorter
<1>2. /\ Head(p.undo) \in Snap /\ Tail(p.undo) \in Seq(Snap) /\ Head(p.undo) = p.undo[1]
      /\ Len(Tail(p.undo)) = Len(p.undo) - 1 /\ Len(p.undo) \in Nat \ {0}
      /\ \A i \in 1 .. Len(Tail(p.undo)) : Tail(p.undo)[i] = p.undo[i + 1]
  BY <1>1, HeadTailProperties, LenProperties, EmptySeq
<1>3. \A i \in 1 .. Len(Tail(p.undo)) : i + 1 \in 1 .. Len(p.undo)
  BY <1>2
<1>4. Kept(p) = p.undo
  BY <1>1 DEF Kept, Fresh
<1>5. /\ r \in Row /\ r.pc \in {"undo", "idle"} /\ r.undo = Tail(p.undo)
      /\ r.seen.by <= count.admissions /\ r.before.cred.by <= count.admissions
  <2>1. CASE Len(p.undo) > 1
    <3>1. r = [p EXCEPT !.undo = Tail(p.undo)]
      BY <2>1 DEF Shorter
    <3>2. r \in Row /\ r.pc = "undo" /\ r.undo = Tail(p.undo) /\ r.seen = p.seen /\ r.before = p.before
      BY <1>1, <1>2, <3>1 DEF Row, Fields, Fresh
    <3> QED BY <3>2 DEF Admitted, Known
  <2>2. CASE ~(Len(p.undo) > 1)
    <3>1. r = Idle
      BY <2>2 DEF Shorter
    <3>2. PICK n \in Nat \ {0} : n = Len(p.undo)
      BY <1>2
    <3>3. ~(n > 1) /\ Len(Tail(p.undo)) = n - 1
      <4> HIDE DEF p
      <4> QED BY <1>2, <2>2, <3>2
    <3>4. Len(Tail(p.undo)) = 0
      <4>1. n = 1
        BY <3>3
      <4> QED BY <3>3, <4>1
    <3>5. Tail(p.undo) = <<>>
      BY <1>2, <3>4, EmptySeq
    <3>6. 0 <= count.admissions
      BY DEF Types, CountRow
    <3> QED BY <3>1, <3>5, <3>6, IdleRow, NothingIsChain
  <2> QED BY <2>1, <2>2
<1>6. ~Fresh(r) /\ ~Begins(r) /\ Kept(r) = r.undo
  BY <1>5 DEF Fresh, Begins, Kept
<1> QED BY <1>1, <1>2, <1>3, <1>4, <1>5, <1>6 DEF Known

\* Without a credential nothing is approved and nobody can seal.
LEMMA CredentialGone ==
  ASSUME Inv, NEW s \in Session, NEW r \in Row, Set(s, r), r.pc \in {"undo", "idle"}, Known(r),
         session[s].pc = "undo", cred' = NoCred, Types', FilesOK', Guards', UNCHANGED <<lock, count>>,
         home' = "family" => home = "family" /\ Frozen' = Frozen,
         versions' = versions \/ (Frozen' = {} /\ \A v \in Version : versions'[v].by = 0)
  PROVE  Inv'
<1>1. /\ session' \in [Session -> Row] /\ session'[s] = r
      /\ \A t \in Session : t # s => session'[t] = session[t]
      /\ session \in [Session -> Row]
  BY OneSession DEF Inv, Types
<1>2. /\ ~Exists(cred') /\ cred'.by = 0 /\ count.admissions \in Nat
      /\ MaxVersion \in Nat
  BY NothingIsChain, BoundAssumption DEF Inv, Types, CountRow
<1>3. r.pc \notin Writing /\ session[s].pc \notin Writing /\ r.pc \notin {"judge", "seal"}
  BY DEF Writing
<1>4. Admitted'
  <2>1. \A v \in Version : versions'[v].by <= count'.admissions
    BY <1>2 DEF Inv, Admitted
  <2>2. \A t \in Session : Known(session[t])'
    BY <1>1 DEF Inv, Admitted, Known
  <2> QED BY <1>2, <2>1, <2>2 DEF Admitted
<1>5. LockHeld'
  BY <1>1, <1>3 DEF Inv, LockHeld
<1>6. VersionsInOrder'
  <2>1. CASE versions' = versions
    BY <2>1, SameVersions DEF Inv, VersionsInOrder
  <2>2. CASE Frozen' = {}
    <3>1. {} = 1 .. 0 /\ 0 \in 0 .. MaxVersion
      BY <1>2
    <3> QED BY <2>2, <3>1 DEF VersionsInOrder
  <2> QED BY <2>1, <2>2
<1>7. ChainNames'
  BY <1>2 DEF ChainNames
<1>8. HolderKnows'
  <2>1. SUFFICES ASSUME NEW t \in Session, session'[t].pc \in Writing
                 PROVE  HolderFits(session[t])' /\ session'[t] = session[t]
    BY DEF HolderKnows, HolderFits
  <2>2. session'[t] = session[t] /\ HolderFits(session[t])
    BY <1>1, <1>3, <2>1 DEF Inv, Knowledge, HolderKnows
  <2>3. cred' # session[t].before.cred
    BY <1>2, <2>2 DEF HolderFits
  <2>4. \A w \in Frozen' : versions'[w].by = session[t].before.cred.by => w = session[t].before.version
    BY <2>2, SameVersions DEF HolderFits
  <2> QED BY <2>2, <2>3, <2>4 DEF HolderFits
<1>9. JudgeKnows'
  BY <1>1, <1>3 DEF Inv, Knowledge, JudgeKnows, JudgeFits, At
<1>10. ApproverKnows'
  <2>1. SUFFICES ASSUME NEW t \in Session, session'[t].pc = "seal"
                 PROVE  ApproverFits(session[t])' /\ session'[t] = session[t]
    BY DEF ApproverKnows, At, ApproverFits
  <2>2. session'[t] = session[t] /\ ApproverFits(session[t]) /\ session[t].seen \in Chain
    BY <1>1, <1>3, <2>1 DEF Inv, Knowledge, ApproverKnows, At, Row, Fields
  <2>3. cred' # session[t].seen /\ cred'.by # session[t].seen.by
    BY <1>2, <2>2, ChainShape DEF ApproverFits
  <2> QED BY <2>2, <2>3 DEF ApproverFits, NoLaterThan
<1>11. ApproverPast'
  BY <1>1, <1>3 DEF Inv, Knowledge, ApproverPast, At
<1>12. Goals'
  <2>1. ApprovalFreezesOnce'
    <3>1. CASE versions' = versions
      BY <3>1, SameVersions DEF Inv, Goals, ApprovalFreezesOnce
    <3>2. CASE Frozen' = {}
      BY <3>2 DEF ApprovalFreezesOnce
    <3> QED BY <3>1, <3>2
  <2> QED BY <1>2, <2>1 DEF Goals, SealedIsComplete, ApprovedCanResume
<1> QED BY <1>4, <1>5, <1>6, <1>7, <1>8, <1>9, <1>10, <1>11, <1>12 DEF Inv, Knowledge

LEMMA UndoPromotion ==
  ASSUME Inv, NEW s \in Session, Undo(s), session[s].undo # <<>>,
         Head(session[s].undo).home # "absent"
  PROVE  Inv'
<1> DEFINE p == session[s]
           b == Head(p.undo)
           drops == p.created /\ Len(p.undo) < 2
<1>1. PICK r : Shorter(s, r) /\ Set(s, r)
  BY DEF Undo, Shorter, Done, At
<1>2. /\ r \in Row /\ r.pc \in {"undo", "idle"} /\ ~Fresh(r) /\ ~Begins(r) /\ Known(r)
      /\ Kept(p) # <<>> /\ Len(Kept(p)) \in Nat \ {0} /\ b \in Snap /\ b = Kept(p)[1]
      /\ Len(Kept(r)) = Len(Kept(p)) - 1
      /\ \A i \in 1 .. Len(Kept(r)) : i + 1 \in 1 .. Len(Kept(p)) /\ Kept(r)[i] = Kept(p)[i + 1]
  BY <1>1, ShorterRow DEF Inv
<1>3. /\ session' \in [Session -> Row] /\ session'[s] = r
      /\ \A t \in Session : t # s => session'[t] = session[t]
      /\ session \in [Session -> Row] /\ p \in Row
  BY <1>1, <1>2, OneSession DEF Inv, Types
<1>4. /\ home' = "family" /\ cred' = b.cred /\ events' = b.events
      /\ UNCHANGED <<evidence, versions, receipts, lock, count>> /\ At(s, "undo")
      /\ candidates' = [candidates EXCEPT ![p.cand] =
                          IF drops /\ p.kind = "review" THEN "absent" ELSE @]
      /\ packages' = [v \in Version |-> IF drops /\ p.kind = "freeze" /\ v = p.version
                                        THEN NoPackage ELSE packages[v]]
  BY DEF Undo, Rollback
<1>5. 1 \in 1 .. Len(Kept(p)) /\ cred' = NoCred
  BY <1>2, <1>4 DEF Inv, Guards, KeptAreNew
<1>6. home = "family"
  BY <1>2 DEF Inv, Guards, NoFamilyYet
<1>7. FilesOK'
  <2>1. NoPackage \in [cand : Candidate \cup {None}, intact : BOOLEAN]
    BY DEF NoPackage
  <2>2. p.cand \in Candidate
    BY <1>3, <1>4 DEF Row, At
  <2> HIDE DEF p, drops
  <2> QED BY <1>4, <2>1, <2>2 DEF Inv, FilesOK
<1>8. Types'
  BY <1>2, <1>3, <1>4, <1>5, NothingIsChain DEF Inv, Types, Home, Snap
<1>9. Guards'
  <2>1. KeptAreNew'
    <3>1. \A i \in 1 .. Len(Kept(r)) : Kept(r)[i].cred = NoCred /\ Kept(r)[i].home # "bare"
      BY <1>2 DEF Inv, Guards, KeptAreNew
    <3> QED BY <1>3, <3>1 DEF Inv, Guards, KeptAreNew
  <2>2. NoFamilyYet'
    BY <1>4 DEF NoFamilyYet
  <2>3. \A w \in Session : ~Wipes(session[w])
    <3>1. SUFFICES ASSUME NEW w \in Session, Wipes(session[w])  PROVE FALSE
      OBVIOUS
    <3>2. /\ Len(Kept(session[w])) = 1
          /\ \A t \in Session : t # w => Kept(session[t]) = <<>>
      BY <3>1 DEF Inv, Guards, OneWiper
    <3>3. w = s /\ Len(Kept(p)) = 1
      BY <1>2, <3>2
    <3> QED BY <1>2, <3>1, <3>3 DEF Wipes
  <2>4. ~Wipes(r)
    BY <1>2, <2>3 DEF Wipes
  <2>5. OneWiper'
    BY <1>3, <2>3, <2>4 DEF OneWiper
  <2> QED BY <2>1, <2>2, <2>5 DEF Guards
<1>10. Frozen' = Frozen
  BY <1>4, SameVersions
<1> QED BY <1>1, <1>2, <1>4, <1>5, <1>6, <1>7, <1>8, <1>9, <1>10, CredentialGone DEF At

LEMMA UndoFamily ==
  ASSUME Inv, NEW s \in Session, Undo(s), session[s].undo # <<>>,
         Head(session[s].undo).home = "absent"
  PROVE  Inv'
<1> DEFINE p == session[s]
<1>1. PICK r : Shorter(s, r) /\ Set(s, r)
  BY DEF Undo, Shorter, Done, At
<1>2. /\ r \in Row /\ r.pc \in {"undo", "idle"} /\ ~Fresh(r) /\ ~Begins(r) /\ Known(r)
      /\ Kept(p) # <<>> /\ Len(Kept(p)) \in Nat \ {0} /\ Head(p.undo) = Kept(p)[1]
      /\ Kept(r) = Tail(p.undo) /\ Kept(p) = p.undo
      /\ Len(Kept(r)) = Len(Kept(p)) - 1
  BY <1>1, ShorterRow DEF Inv
<1>3. /\ session' \in [Session -> Row] /\ session'[s] = r
      /\ \A t \in Session : t # s => session'[t] = session[t]
      /\ session \in [Session -> Row]
  BY <1>1, <1>2, OneSession DEF Inv, Types
<1>4. /\ home' = "absent" /\ cred' = NoCred /\ events' = {} /\ evidence' = {}
      /\ versions' = [v \in Version |-> NoFile]
      /\ packages' = [v \in Version |-> NoPackage]
      /\ candidates' = [c \in Candidate |-> "absent"]
      /\ UNCHANGED <<receipts, lock, count>> /\ At(s, "undo")
  BY DEF Undo, Rollback
<1>5. FilesOK' /\ Types'
  BY <1>3, <1>4, NothingIsChain DEF Inv, FilesOK, Types, Home, NoPackage, NoFile
<1>6. Frozen' = {} /\ \A v \in Version : versions'[v].by = 0
  BY <1>4 DEF Frozen, NoFile
<1>7. Guards'
  <2>1. Wipes(p)
    BY <1>2 DEF Wipes
  <2>2. Len(Kept(p)) = 1 /\ \A t \in Session : ~Begins(session[t]) /\ (t # s => Kept(session[t]) = <<>>)
    BY <2>1 DEF Inv, Guards, OneWiper
  <2>3. Kept(r) = <<>>
    <3>1. Kept(r) \in Seq(Snap)
      BY <1>2, KeptShape
    <3>2. Len(Kept(r)) = 0
      <4> HIDE DEF p
      <4> QED BY <1>2, <2>2
    <3> QED BY <3>1, <3>2, EmptySeq
  <2>4. \A t \in Session : Kept(session'[t]) = <<>> /\ ~Begins(session'[t])
    BY <1>2, <1>3, <2>2, <2>3
  <2>5. \A t \in Session : 1 .. Len(Kept(session'[t])) = {} /\ ~Wipes(session'[t])
    BY <2>4, NothingKept
  <2> QED BY <1>4, <1>6, <2>4, <2>5 DEF Guards, KeptAreNew, NoFamilyYet, OneWiper
<1> QED BY <1>1, <1>2, <1>4, <1>5, <1>6, <1>7, CredentialGone DEF At

-----------------------------------------------------------------------------
(* A freeze, under the lock.                                               *)

\* The version is written: create_frozen_version_from_credential, first file.
Takes(s, r) ==
  LET v == NextVersion IN
  /\ session[s].pc = "freeze" /\ lock = None /\ Freezable /\ lock' = s
  /\ versions' = [versions EXCEPT ![v] = [cand |-> SubmittedCandidate(cred), by |-> cred.by]]
  /\ home' = IF home = "absent" THEN "bare" ELSE home
  /\ r = [session[s] EXCEPT !.pc = "evidence",
            !.before = [version |-> v, evidence |-> evidence, events |-> events, cred |-> cred]]

\* An approval is for the next version, and that is a new one.
LEMMA VersionWritten ==
  ASSUME VersionsInOrder, Types, NEW v, v = NextVersion, v \in Version, NEW k \in Chain, Exists(k),
         NEW c \in Candidate \cup {None},
         versions' = [versions EXCEPT ![v] = [cand |-> c, by |-> k.by]]
  PROVE  /\ v \notin Frozen /\ Frozen' = Frozen \cup {v} /\ Frozen' = 1 .. v
         /\ versions' \in [Version -> [cand : Candidate \cup {None}, by : Nat]]
         /\ versions'[v] = [cand |-> c, by |-> k.by]
         /\ \A w \in Version : w # v => versions'[w] = versions[w]
<1>1. PICK n \in 0 .. MaxVersion : Frozen = 1 .. n
  BY DEF VersionsInOrder
<1>2. MaxVersion \in Nat /\ n \in Nat
  BY BoundAssumption
<1>3. v = n + 1
  BY <1>1, <1>2, NextAfter
<1>4. k.by \in Nat /\ k.by # 0
  BY ChainShape
<1>5. /\ versions' \in [Version -> [cand : Candidate \cup {None}, by : Nat]]
      /\ versions'[v] = [cand |-> c, by |-> k.by]
      /\ \A w \in Version : w # v => versions'[w] = versions[w]
  BY <1>4 DEF Types
<1>6. versions'[v] # NoFile
  BY <1>4, <1>5 DEF NoFile
<1>7. Frozen' = Frozen \cup {v}
  BY <1>5, <1>6 DEF Frozen
<1>8. v \notin Frozen /\ Frozen' = 1 .. v
  BY <1>1, <1>2, <1>3, <1>7
<1> QED BY <1>5, <1>7, <1>8

LEMMA TakeStep ==
  ASSUME Inv, NEW s \in Session, NEW r, Takes(s, r), Set(s, r),
         UNCHANGED <<cred, events, evidence, packages, candidates, receipts, count>>
  PROVE  Inv'
<1> DEFINE p == session[s]
           v == NextVersion
           c == SubmittedCandidate(cred)
<1>1. /\ p \in Row /\ session \in [Session -> Row] /\ cred \in Chain /\ p.pc = "freeze"
      /\ events \in SUBSET Version /\ evidence \in SUBSET Version
  BY DEF Inv, Types, Takes
<1>2. /\ Exists(cred) /\ Stage(cred) = "APPROVED" /\ Last(cred.seals).version = v
      /\ v \in Version /\ c \in Candidate \cup {None} /\ lock = None /\ lock' = s
      /\ cred.by \in Nat \ {0}
  <2>1. /\ Exists(cred) /\ Stage(cred) = "APPROVED" /\ Last(cred.seals).version = v
        /\ v \in Version
    BY DEF Takes, Freezable
  <2>2. c \in Candidate \cup {None}
    BY <1>1, <2>1, LastFitsSubmission, ChainShape DEF SealRow
  <2> QED BY <1>1, <2>1, <2>2, ChainShape DEF Takes
<1>3. /\ v \notin Frozen /\ Frozen' = Frozen \cup {v} /\ Frozen' = 1 .. v
      /\ versions' \in [Version -> [cand : Candidate \cup {None}, by : Nat]]
      /\ versions'[v] = [cand |-> c, by |-> cred.by]
      /\ \A w \in Version : w # v => versions'[w] = versions[w]
  <2>1. versions' = [versions EXCEPT ![v] = [cand |-> c, by |-> cred.by]]
    BY DEF Takes
  <2> HIDE DEF v, c
  <2>2. v = NextVersion
    BY DEF v
  <2> QED BY <1>1, <1>2, <2>1, <2>2, VersionWritten DEF Inv
<1>4. home = "family" /\ home' = home
  <2>1. home = "family"
    BY <1>2, NothingIsChain DEF Inv, Guards, NoFamilyYet
  <2> QED BY <2>1 DEF Takes
<1>5. /\ r \in Row /\ r.pc = "evidence" /\ r.before.version = v /\ r.before.cred = cred
      /\ r.undo = p.undo /\ r.seen = p.seen /\ p.cand \in Candidate
  <2>1. v \in Version \cup {0}
    BY <1>2
  <2> HIDE DEF v
  <2>2. PICK old \in Backup : old = [version |-> v, evidence |-> evidence, events |-> events,
                                    cred |-> cred]
    BY <1>1, <2>1 DEF Backup
  <2>3. p.cand \in Candidate
    BY <1>1 DEF Row
  <2>4. r = [p EXCEPT !.pc = "evidence", !.before = old]
    BY <2>2 DEF Takes, v
  <2>5. r.before = old /\ old.cred = cred /\ old.version = v
    BY <1>1, <2>2, <2>4 DEF Row, Fields
  <2> QED BY <1>1, <2>3, <2>4, <2>5 DEF Row, Fields, PC, Fresh
<1> HIDE DEF v, c
<1>6. /\ session' \in [Session -> Row] /\ session'[s] = r
      /\ \A t \in Session : t # s => session'[t] = session[t]
  BY <1>1, <1>5, OneSession
<1>7. Types' /\ FilesOK'
  BY <1>2, <1>3, <1>4, <1>6 DEF Inv, Types, FilesOK
<1>8. Admitted'
  <2>1. \A w \in Version : versions'[w].by <= count.admissions
    BY <1>3 DEF Inv, Admitted
  <2>2. ~Fresh(r)
    BY <1>5 DEF Fresh
  <2> QED BY <1>5, <1>6, <2>1, <2>2 DEF Inv, Admitted, Known
<1>9. Guards'
  <2>1. Kept(r) = Kept(p) /\ ~Begins(r)
    BY <1>1, <1>5 DEF Kept, Begins, Fresh
  <2> QED BY <1>1, <1>4, <1>5, <2>1, GuardsKept DEF Inv
<1>10. \A t \in Session : session[t].pc \notin Writing
  BY <1>2, NoneAssumption DEF Inv, LockHeld
<1>11. LockHeld' /\ \A t \in Session : session'[t].pc \in Writing => t = s
  <2>1. r.pc \in Writing
    BY <1>5 DEF Writing
  <2> QED BY <1>2, <1>6, <1>10, <2>1 DEF LockHeld
<1>12. VersionsInOrder'
  <2>1. v \in 0 .. MaxVersion
    BY <1>2, BoundAssumption DEF Version
  <2> QED BY <1>3, <2>1 DEF VersionsInOrder
<1>13. \A w \in Frozen : versions[w].by # cred.by
  BY <1>2, <1>3 DEF Inv, ChainNames, Approves
<1>14. \A w \in Frozen' : versions'[w].by = cred.by => w = v
  BY <1>3, <1>13 DEF Frozen
<1>15. ChainNames'
  BY <1>2, <1>14 DEF ChainNames, Approves
<1>16. HolderKnows'
  <2>1. HolderFits(r)'
    BY <1>2, <1>3, <1>5, <1>14 DEF HolderFits, c
  <2> QED BY <1>6, <1>11, <2>1 DEF HolderKnows, HolderFits
<1>17. JudgeKnows'
  BY <1>5, <1>6 DEF Inv, Knowledge, JudgeKnows, JudgeFits, At
<1>18. ASSUME NEW t \in Session, session'[t].pc = "seal"
       PROVE  /\ session'[t] = session[t] /\ ApproverFits(session[t]) /\ cred # session[t].seen
  <2>1. session'[t] = session[t] /\ ApproverFits(session[t])
    BY <1>5, <1>6, <1>18 DEF Inv, Knowledge, ApproverKnows, At
  <2> QED BY <1>2, <2>1 DEF ApproverFits
<1>19. ApproverKnows' /\ ApproverPast'
  <2>1. ApproverKnows'
    BY <1>18 DEF ApproverKnows, ApproverFits, At
  <2>2. ApproverPast'
    BY <1>5, <1>6, <1>11, <1>18 DEF ApproverPast, ApproverFits, At
  <2> QED BY <2>1, <2>2
<1>20. Goals'
  <2>1. ApprovalFreezesOnce'
    <3>1. SUFFICES ASSUME NEW a \in Frozen', NEW b \in Frozen', versions'[a].by = versions'[b].by
                   PROVE  a = b
      BY DEF ApprovalFreezesOnce
    <3>2. CASE a = v \/ b = v
      BY <1>3, <1>14, <3>1, <3>2
    <3>3. CASE a # v /\ b # v
      <4>1. a \in Frozen /\ b \in Frozen /\ versions'[a] = versions[a] /\ versions'[b] = versions[b]
        BY <1>3, <3>3 DEF Frozen
      <4> QED BY <3>1, <4>1 DEF Inv, Goals, ApprovalFreezesOnce
    <3> QED BY <3>2, <3>3
  <2>2. SealedIsComplete' /\ ApprovedCanResume'
    BY <1>2, NoneAssumption DEF SealedIsComplete, ApprovedCanResume
  <2> QED BY <2>1, <2>2 DEF Goals
<1> QED BY <1>7, <1>8, <1>9, <1>11, <1>12, <1>15, <1>16, <1>17, <1>19, <1>20 DEF Inv, Knowledge

\* The next file is written.
LEMMA HolderStep ==
  ASSUME Inv, NEW s \in Session, NEW q \in Writing, session[s].pc \in Writing,
         Goto(s, q), events' \subseteq Version, evidence' \subseteq Version,
         events \subseteq events', evidence \subseteq evidence',
         cred = session[s].before.cred =>
           /\ q \in {"lifecycle", "stamp"} => Written(s) \in evidence'
           /\ q = "stamp" => Written(s) \in events',
         UNCHANGED <<home, cred, versions, packages, candidates, receipts, lock, count>>
  PROVE  Inv'
<1> DEFINE p == session[s]
<1>1. PICK r : r = [p EXCEPT !.pc = q] /\ Set(s, r)
  BY DEF Goto
<1>2. p \in Row /\ session \in [Session -> Row] /\ p.pc # "idle"
  BY DEF Inv, Types, Writing
<1>3. p.cand \in Candidate /\ q \in PC \ {"promote", "repromote"}
  BY <1>2 DEF Row, Writing, PC
<1>4. r \in Row /\ SameBut(p, r, q)
  BY <1>1, <1>2, <1>3, PcRow
<1>5. /\ session' \in [Session -> Row] /\ session'[s] = r
      /\ \A t \in Session : t # s => session'[t] = session[t]
  BY <1>1, <1>2, <1>4, OneSession
<1>6. Frozen' = Frozen /\ NextVersion' = NextVersion
  BY SameVersions
<1>7. Types' /\ FilesOK'
  BY <1>5 DEF Inv, Types, FilesOK
<1>8. Admitted'
  BY <1>4, <1>5 DEF Inv, Admitted, Known, SameBut, Fresh, Writing
<1>9. Guards'
  <2>1. Kept(r) = Kept(p) /\ ~Begins(r)
    BY <1>4 DEF Kept, Begins, Fresh, SameBut, Writing
  <2> QED BY <1>1, <1>2, <1>4, <1>6, <2>1, GuardsKept DEF Inv
<1>10. LockHeld' /\ lock = s /\ \A t \in Session : t # s => session[t].pc \notin Writing
  BY <1>4, <1>5 DEF Inv, LockHeld, SameBut
<1>11. VersionsInOrder' /\ ChainNames'
  BY <1>6 DEF Inv, VersionsInOrder, ChainNames
<1>12. HolderKnows'
  <2>1. HolderFits(p)
    BY DEF Inv, Knowledge, HolderKnows
  <2>2. HolderFits(r)'
    BY <1>4, <1>6, <2>1 DEF HolderFits, SameBut, Written
  <2> QED BY <1>5, <1>10, <2>2 DEF HolderKnows, HolderFits
<1>13. r.pc \notin {"judge", "seal"} /\ r.before = p.before
  BY <1>4 DEF SameBut, Writing
<1>14. JudgeKnows' /\ ApproverKnows' /\ ApproverPast'
  <2>1. JudgeKnows'
    BY <1>5, <1>13 DEF Inv, Knowledge, JudgeKnows, JudgeFits, At
  <2>2. ApproverKnows'
    BY <1>5, <1>6, <1>13 DEF Inv, Knowledge, ApproverKnows, ApproverFits, At
  <2>3. ApproverPast'
    BY <1>5, <1>10, <1>13 DEF Inv, Knowledge, ApproverPast, At
  <2> QED BY <2>1, <2>2, <2>3
<1>15. Goals'
  BY <1>6 DEF Inv, Goals, ApprovalFreezesOnce, SealedIsComplete, ApprovedCanResume
<1> QED BY <1>7, <1>8, <1>9, <1>10, <1>11, <1>12, <1>14, <1>15 DEF Inv, Knowledge

\* The holder ends and gives the lock back.
LEMMA FreedStep ==
  ASSUME Inv, NEW s \in Session, NEW r \in Row, session[s].pc \in Writing, Set(s, r),
         r.pc \in {"undo", "idle"}, Known(r)', Kept(r) \in {Kept(session[s]), <<>>},
         lock' = None, home' = home, FilesOK', count' \in CountRow,
         count'.admissions = count.admissions,
         events' \subseteq Version, evidence' \subseteq Version, cred' \in Chain,
         cred'.by <= count.admissions,
         versions' \in [Version -> [cand : Candidate \cup {None}, by : Nat]],
         \A v \in Version : versions'[v].by <= count.admissions,
         Exists(cred) => Exists(cred'), home # "family" => cred' = cred /\ Frozen' = Frozen,
         VersionsInOrder', ChainNames', Goals',
         \A t \in Session : At(t, "seal") => ApproverFits(session[t])'
  PROVE  Inv'
<1>1. /\ session' \in [Session -> Row] /\ session'[s] = r /\ session \in [Session -> Row]
      /\ \A t \in Session : t # s => session'[t] = session[t]
  BY OneSession DEF Inv, Types
<1>2. ~Begins(r) /\ r.pc \notin Writing \cup {"judge", "seal"}
  BY DEF Begins, Fresh, Writing
<1>3. Types'
  BY <1>1 DEF Inv, Types
<1>4. Admitted'
  BY <1>1 DEF Inv, Admitted, Known
<1>5. Guards'
  BY <1>1, <1>2, GuardsKept DEF Inv
<1>6. \A t \in Session : session'[t].pc \notin Writing
  BY <1>1, <1>2 DEF Inv, LockHeld
<1>7. LockHeld'
  BY <1>6, NoneAssumption DEF LockHeld
<1>8. HolderKnows' /\ ApproverPast'
  BY <1>6 DEF HolderKnows, ApproverPast
<1>9. JudgeKnows'
  BY <1>1, <1>2 DEF Inv, Knowledge, JudgeKnows, JudgeFits, At
<1>10. ApproverKnows'
  <2>1. SUFFICES ASSUME NEW t \in Session, session'[t].pc = "seal"
                 PROVE  ApproverFits(session[t])'
    BY DEF ApproverKnows, At, ApproverFits
  <2>2. session[t].pc = "seal"
    BY <1>1, <1>2, <2>1
  <2> QED BY <2>2 DEF At
<1> QED BY <1>3, <1>4, <1>5, <1>7, <1>8, <1>9, <1>10 DEF Inv, Knowledge

\* Frames of a session that fails or is done.
LEMMA FailRow ==
  ASSUME Types, Admitted, NEW s \in Session, Fail(s), session[s].pc # "idle",
         ~Fresh(session[s]), count'.admissions = count.admissions
  PROVE  \E r \in Row : /\ Set(s, r) /\ r.pc = "undo" /\ Known(r) /\ Known(r)'
                        /\ Kept(r) = Kept(session[s]) /\ ~Begins(r)
<1> DEFINE p == session[s]
<1>1. p \in Row /\ p.cand \in Candidate
  BY DEF Types, Row
<1>2. PICK r : r = [p EXCEPT !.pc = "undo"] /\ Set(s, r)
  BY DEF Fail, Goto
<1>3. r \in Row /\ SameBut(p, r, "undo")
  BY <1>1, <1>2, PcRow DEF PC
<1>4. Kept(r) = Kept(p) /\ ~Begins(r)
  BY <1>3 DEF SameBut, Kept, Begins, Fresh
<1>5. Known(r) /\ Known(r)'
  BY <1>3 DEF SameBut, Admitted, Known, Fresh
<1> QED BY <1>2, <1>3, <1>4, <1>5 DEF SameBut

LEMMA DoneRow ==
  ASSUME Types, NEW s \in Session, Done(s), count'.admissions = count.admissions
  PROVE  \E r \in Row : /\ Set(s, r) /\ r.pc = "idle" /\ Known(r) /\ Known(r)'
                        /\ Kept(r) = <<>> /\ ~Begins(r)
<1>1. 0 <= count.admissions
  BY DEF Types, CountRow
<1>2. Known(Idle) /\ Known(Idle)'
  BY <1>1, IdleRow, NothingIsChain DEF Known, Fresh
<1>3. Kept(Idle) = <<>> /\ ~Begins(Idle)
  BY IdleRow DEF Kept, Begins, Fresh
<1> QED BY <1>2, <1>3, IdleRow DEF Done

LEMMA HolderShape ==
  ASSUME Inv, NEW s \in Session, session[s].pc \in Writing
  PROVE  /\ session[s] \in Row /\ session[s].pc # "idle" /\ ~Fresh(session[s])
         /\ session[s].before.cred \in Chain /\ session[s].before.events \subseteq Version
         /\ session[s].before.evidence \subseteq Version
         /\ session[s].before.cred.by <= count.admissions
         /\ HolderFits(session[s]) /\ lock = s /\ cred \in Chain
  BY DEF Inv, Types, Row, Fields, Backup, Writing, Fresh, Admitted, Known, Knowledge, HolderKnows,
         LockHeld

\* Who approves keeps what it knows when the chain becomes that of the holder.
LEMMA ApproverStays ==
  ASSUME Inv, NEW s \in Session, session[s].pc \in Writing, NEW t \in Session, At(t, "seal"),
         session'[t] = session[t],
         \/ cred' = cred /\ (cred = NoCred \/ NextVersion' = NextVersion)
         \/ cred' = session[s].before.cred
         \/ Stage(cred') = "FROZEN" /\ Exists(cred') /\ cred'.by = cred.by
            /\ Len(cred'.seals) = Len(cred.seals) + 1 /\ Len(cred.seals) \in Nat
  PROVE  ApproverFits(session[t])'
<1>1. /\ ApproverFits(session[t]) /\ HolderFits(session[s])
      /\ NoLaterThan(session[t].seen, session[s].before.cred)
      /\ session[t].seen \in Chain
  BY DEF Inv, Types, Row, Fields, Knowledge, ApproverKnows, ApproverPast, HolderKnows, At
<1>2. ~Exists(NoCred) /\ Len(session[t].seen.seals) \in Nat
  BY <1>1, NothingIsChain, ChainShape
<1>3. NoLaterThan(session[t].seen, cred')
  BY <1>1, <1>2 DEF ApproverFits, NoLaterThan
<1>4. cred' = session[t].seen => session[t].version = NextVersion'
  BY <1>1, <1>2 DEF ApproverFits, HolderFits
<1> QED BY <1>1, <1>3, <1>4 DEF ApproverFits

LEMMA HolderElsewhere ==
  ASSUME Inv, NEW s \in Session, NEW r \in Row, session[s].pc \in Writing, Set(s, r),
         NEW t \in Session, At(t, "seal")
  PROVE  session'[t] = session[t]
<1>1. t # s
  BY DEF At, Writing
<1> QED BY <1>1, OneSession DEF Inv, Types

\* A write failed and every file was put back.
LEMMA GiveUpStep ==
  ASSUME Inv, NEW s \in Session, session[s].pc \in Writing, GiveUp(s),
         count' \in CountRow, count'.admissions = count.admissions,
         UNCHANGED <<home, packages, candidates, receipts>>
  PROVE  Inv'
<1> DEFINE p == session[s]
           old == p.before.cred
           v == p.before.version
<1>1. /\ p \in Row /\ p.pc # "idle" /\ ~Fresh(p) /\ old \in Chain /\ old.by <= count.admissions
      /\ p.before.events \subseteq Version /\ p.before.evidence \subseteq Version
      /\ HolderFits(p) /\ cred \in Chain
  BY HolderShape
<1>2. PICK r \in Row : /\ Set(s, r) /\ r.pc = "undo" /\ Known(r) /\ Known(r)'
                       /\ Kept(r) = Kept(p) /\ ~Begins(r)
  BY <1>1, FailRow DEF GiveUp, Inv
<1>3. /\ versions' = [versions EXCEPT ![v] = NoFile]
      /\ evidence' = p.before.evidence /\ events' = p.before.events /\ lock' = None
      /\ cred' = IF home = "family" THEN old ELSE cred
  BY DEF GiveUp, RestoreFiles, Written
<1>4. /\ v \in Version /\ Exists(old) /\ Stage(old) = "APPROVED" /\ Last(old.seals).version = v
      /\ home = "family" => Frozen = 1 .. v
      /\ \A w \in Frozen : versions[w].by = old.by => w = v
  BY <1>1 DEF HolderFits
<1>5. home # "family" => cred = NoCred /\ Frozen = {}
  BY DEF Inv, Guards, NoFamilyYet
<1> HIDE DEF p, old, v
<1>6. versions \in [Version -> [cand : Candidate \cup {None}, by : Nat]] /\ count.admissions \in Nat
  BY DEF Inv, Types, CountRow
<1>7. /\ versions' \in [Version -> [cand : Candidate \cup {None}, by : Nat]]
      /\ versions'[v] = NoFile /\ \A w \in Version : w # v => versions'[w] = versions[w]
  BY <1>3, <1>4, <1>6 DEF NoFile
<1>8. Frozen' = Frozen \ {v}
  BY <1>7 DEF Frozen
<1>9. v \in Nat \ {0} /\ v <= MaxVersion /\ MaxVersion \in Nat
  BY <1>4, BoundAssumption DEF Version
<1>10. home = "family" => Frozen' = 1 .. v - 1 /\ NextVersion' = v
  <2>1. ASSUME home = "family"  PROVE Frozen' = 1 .. v - 1
    BY <1>4, <1>8, <1>9, <2>1
  <2>2. ASSUME Frozen' = 1 .. v - 1  PROVE NextVersion' = v
    <3>1. v - 1 \in Nat /\ Cardinality(1 .. v - 1) = v - 1
      BY <1>9, FS_Interval
    <3> QED BY <1>9, <2>2, <3>1 DEF NextVersion
  <2> QED BY <2>1, <2>2
<1>11. VersionsInOrder'
  <2>1. CASE home = "family"
    <3>1. v - 1 \in 0 .. MaxVersion
      BY <1>9
    <3> QED BY <1>10, <2>1, <3>1 DEF VersionsInOrder
  <2>2. CASE home # "family"
    <3>1. Frozen' = 1 .. 0 /\ 0 \in 0 .. MaxVersion
      BY <1>5, <1>8, <1>9, <2>2
    <3> QED BY <3>1 DEF VersionsInOrder
  <2> QED BY <2>1, <2>2
<1>12. \A w \in Version : versions'[w].by <= count.admissions
  BY <1>6, <1>7 DEF NoFile, Inv, Admitted
<1>13. /\ cred' \in Chain /\ cred'.by <= count.admissions
       /\ home # "family" => ~Exists(cred') /\ cred' = cred
       /\ home = "family" => cred' = old
  BY <1>1, <1>3, <1>5, NothingIsChain DEF Inv, Admitted
<1>14. ChainNames'
  <2>1. ASSUME home = "family", NEW w \in Frozen'  PROVE versions'[w].by # old.by
    BY <1>4, <1>7, <1>8, <2>1 DEF Frozen
  <2> QED BY <1>13, <2>1 DEF ChainNames
<1>15. Goals'
  <2>1. ApprovalFreezesOnce'
    <3>1. \A w \in Frozen' : w \in Frozen /\ versions'[w] = versions[w]
      BY <1>7, <1>8 DEF Frozen
    <3> QED BY <3>1 DEF Inv, Goals, ApprovalFreezesOnce
  <2>2. SealedIsComplete' /\ ApprovedCanResume'
    BY <1>4, <1>10, <1>13 DEF SealedIsComplete, ApprovedCanResume
  <2> QED BY <2>1, <2>2 DEF Goals
<1>16. ASSUME NEW t \in Session, At(t, "seal")  PROVE ApproverFits(session[t])'
  <2>1. session'[t] = session[t]
    BY <1>2, <1>16, HolderElsewhere
  <2>2. cred' = session[s].before.cred \/ (cred' = cred /\ cred = NoCred)
    BY <1>5, <1>13 DEF old, p
  <2> QED BY <1>16, <2>1, <2>2, ApproverStays
<1>17. FilesOK'
  BY DEF Inv, FilesOK
<1>18. /\ Exists(cred) => Exists(cred')
       /\ home # "family" => cred' = cred /\ Frozen' = Frozen
  BY <1>4, <1>5, <1>8, <1>13, NothingIsChain
<1>19. /\ events' \subseteq Version /\ evidence' \subseteq Version /\ lock' = None /\ home' = home
       /\ Kept(r) \in {Kept(session[s]), <<>>}
  BY <1>1, <1>2, <1>3 DEF p
<1> QED BY <1>2, <1>7, <1>11, <1>12, <1>13, <1>14, <1>15, <1>16, <1>17, <1>18, <1>19, FreedStep

\* The final seal.
LEMMA StampStep ==
  ASSUME Inv, NEW s \in Session, StampCredential(s)
  PROVE  Inv'
<1> DEFINE p == session[s]
           v == p.before.version
           seal == Seal("FROZEN", SubmittedCandidate(cred), v)
<1>1. p.pc = "stamp" /\ p.pc \in Writing /\ count' = count /\ count \in CountRow
  BY DEF StampCredential, At, Writing, Inv, Types
<1>2. CASE cred # p.before.cred
  <2>1. GiveUp(s) /\ UNCHANGED <<home, packages, candidates, receipts>>
    BY <1>2 DEF StampCredential
  <2> QED BY <1>1, <2>1, GiveUpStep
<1>3. CASE cred = p.before.cred
  <2>1. /\ cred' = Sealed(cred, seal) /\ lock' = None /\ (Done(s) \/ Fail(s))
        /\ UNCHANGED <<home, events, evidence, versions, packages, candidates, receipts>>
    BY <1>3 DEF StampCredential, Written
  <2>2. PICK r \in Row : /\ Set(s, r) /\ r.pc \in {"undo", "idle"} /\ Known(r) /\ Known(r)'
                         /\ Kept(r) \in {Kept(p), <<>>} /\ ~Begins(r)
    <3>1. p.pc # "idle" /\ ~Fresh(p)
      BY <1>1, HolderShape
    <3> QED BY <1>1, <2>1, <3>1, DoneRow, FailRow DEF Inv
  <2>3. /\ cred \in Chain /\ cred.by <= count.admissions
        /\ v \in Version /\ Exists(cred) /\ Stage(cred) = "APPROVED" /\ Last(cred.seals).version = v
        /\ versions[v] = [cand |-> SubmittedCandidate(cred), by |-> cred.by]
        /\ v \in evidence /\ v \in events
    BY <1>1, <1>3, HolderShape DEF HolderFits, Inv, Admitted
  <2>4. /\ SubmittedCandidate(cred) = Last(cred.seals).cand /\ Last(cred.seals) \in SealRow
        /\ Len(cred.seals) \in Nat
    BY <2>3, LastFitsSubmission, ChainShape
  <2>5. PICK x \in SealRow : x = seal /\ x.stage = "FROZEN" /\ x.cand = SubmittedCandidate(cred)
                             /\ x.version = v
    <3>1. v \in Version \cup {0} /\ SubmittedCandidate(cred) \in Candidate \cup {None}
      BY <2>3, <2>4 DEF SealRow
    <3> HIDE DEF v
    <3>2. /\ seal \in SealRow /\ seal.stage = "FROZEN" /\ seal.cand = SubmittedCandidate(cred)
          /\ seal.version = v
      BY <3>1 DEF SealRow, Seal, StageName
    <3> QED BY <3>2
  <2> HIDE DEF seal, v, p
  <2>6. /\ cred' \in Chain /\ Exists(cred') /\ cred'.by = cred.by
        /\ Len(cred'.seals) = Len(cred.seals) + 1
        /\ Stage(cred') = "FROZEN" /\ Last(cred'.seals) = x
    BY <2>1, <2>3, <2>4, <2>5, SealedChain DEF Follows
  <2>7. Frozen' = Frozen /\ NextVersion' = NextVersion
    BY <2>1, SameVersions
  <2>8. \A w \in Frozen : versions[w].by = cred.by => w = v
    BY <2>3 DEF Inv, ChainNames, Approves
  <2>9. ChainNames'
    BY <2>1, <2>5, <2>6, <2>7, <2>8 DEF ChainNames, Approves
  <2>10. Goals'
    <3>1. SealedIsComplete'
      BY <2>1, <2>3, <2>5, <2>6 DEF SealedIsComplete
    <3>2. ApprovalFreezesOnce' /\ ApprovedCanResume'
      BY <2>1, <2>6, <2>7 DEF Inv, Goals, ApprovalFreezesOnce, ApprovedCanResume
    <3> QED BY <3>1, <3>2 DEF Goals
  <2>11. ASSUME NEW t \in Session, At(t, "seal")  PROVE ApproverFits(session[t])'
    <3>1. session'[t] = session[t]
      BY <1>1, <2>2, <2>11, HolderElsewhere DEF p
    <3> QED BY <1>1, <2>4, <2>6, <2>11, <3>1, ApproverStays DEF p
  <2>12. VersionsInOrder' /\ FilesOK'
    BY <2>1, <2>7 DEF Inv, VersionsInOrder, FilesOK
  <2>13. /\ events \subseteq Version /\ evidence \subseteq Version
         /\ versions \in [Version -> [cand : Candidate \cup {None}, by : Nat]]
         /\ \A w \in Version : versions[w].by <= count.admissions
    BY DEF Inv, Types, Admitted
  <2>14. session[s].pc \in Writing /\ Kept(r) \in {Kept(session[s]), <<>>}
    BY <1>1, <2>2 DEF p
  <2>15. home = "family"
    BY <2>3, NothingIsChain DEF Inv, Guards, NoFamilyYet
  <2> QED BY <1>1, <2>1, <2>2, <2>3, <2>6, <2>7, <2>9, <2>10, <2>11, <2>12, <2>13, <2>14, <2>15, FreedStep
<1> QED BY <1>2, <1>3

\* The holder is lost between two writes: what it wrote stays.
LEMMA TornStep ==
  ASSUME Inv, NEW s \in Session, NEW r \in Row, session[s].pc \in Writing, Set(s, r),
         r.pc \in {"undo", "idle"}, Known(r)', Kept(r) \in {Kept(session[s]), <<>>}, lock' = None,
         count' \in CountRow, count'.admissions = count.admissions, count'.torn = TRUE,
         UNCHANGED <<registry, packages, candidates, receipts>>
  PROVE  Inv'
<1>1. /\ home' = home /\ cred' = cred /\ events' = events /\ evidence' = evidence
      /\ versions' = versions /\ Frozen' = Frozen /\ NextVersion' = NextVersion
  BY SameVersions DEF registry
<1>2. VersionsInOrder' /\ ChainNames' /\ FilesOK'
  BY <1>1 DEF Inv, VersionsInOrder, ChainNames, FilesOK
<1>3. Goals'
  BY <1>1 DEF Inv, Goals, ApprovalFreezesOnce, SealedIsComplete, ApprovedCanResume
<1>4. ASSUME NEW t \in Session, At(t, "seal")  PROVE ApproverFits(session[t])'
  <2>1. session'[t] = session[t]
    BY <1>4, HolderElsewhere
  <2> QED BY <1>1, <1>4, <2>1, ApproverStays
<1>5. /\ cred \in Chain /\ cred.by <= count.admissions
      /\ events \subseteq Version /\ evidence \subseteq Version
      /\ versions \in [Version -> [cand : Candidate \cup {None}, by : Nat]]
      /\ \A v \in Version : versions[v].by <= count.admissions
  BY DEF Inv, Types, Admitted
<1> QED BY <1>1, <1>2, <1>3, <1>4, <1>5, FreedStep

-----------------------------------------------------------------------------
(* Steps that leave the registry alone, one lemma per kind and action.     *)

LEMMA StillWorld ==
  ASSUME Types, UNCHANGED <<cred, events, evidence, versions, lock, count>>, FilesOK',
         home' = home \/ (home = "absent" /\ home' = "bare")
  PROVE  WorldStill
  BY DEF WorldStill, Types

LEMMA HomeMade ==
  ASSUME MakeHome
  PROVE  home' = home \/ (home = "absent" /\ home' = "bare")
  BY DEF MakeHome

LEMMA FaultWorld ==
  ASSUME Types, FilesOK, Fault, UNCHANGED <<registry, packages, candidates, receipts, lock>>
  PROVE  WorldStill
<1>1. /\ count' \in CountRow /\ count'.admissions = count.admissions /\ count'.torn = count.torn
  BY DEF Fault, Types, CountRow
<1> QED BY <1>1 DEF WorldStill, registry, FilesOK

LEMMA FailStep ==
  ASSUME Inv, NEW s \in Session, Fail(s), session[s].pc \notin Writing, session[s].pc # "idle",
         ~Fresh(session[s]), WorldStill
  PROVE  Inv'
<1>1. PICK r \in Row : /\ Set(s, r) /\ r.pc = "undo" /\ Known(r)
                       /\ Kept(r) = Kept(session[s]) /\ ~Begins(r)
  BY FailRow DEF Inv, WorldStill
<1>2. Private(s, r)
  BY <1>1 DEF Private, KeepsNoMore, Writing
<1> QED BY <1>1, <1>2, PrivateStep

LEMMA DoneStep ==
  ASSUME Inv, NEW s \in Session, Done(s), session[s].pc \notin Writing, WorldStill
  PROVE  Inv'
<1>1. PICK r \in Row : /\ Set(s, r) /\ r.pc = "idle" /\ Known(r) /\ Kept(r) = <<>> /\ ~Begins(r)
  BY DoneRow DEF Inv, WorldStill
<1>2. Private(s, r)
  BY <1>1 DEF Private, KeepsNoMore, Writing
<1> QED BY <1>1, <1>2, PrivateStep

\* A session goes on with what it knows, or with another version or chain.
Plain == {"snapshot", "resnapshot", "admit", "move", "submit", "record", "build", "place",
          "approve", "freeze", "undo"}
MovesOn(s, r) ==
  /\ r \in Fields /\ r.pc \in Plain /\ r.cand = session[s].cand /\ r.undo = session[s].undo
  /\ r.before = session[s].before /\ r.seen.by <= count.admissions

LEMMA MoveStep ==
  ASSUME Inv, NEW s \in Session, NEW r, Set(s, r), MovesOn(s, r),
         session[s].pc \in Plain, WorldStill
  PROVE  Inv'
<1>1. session[s] \in Row /\ session[s].cand \in Candidate /\ Known(session[s])
  BY DEF Inv, Types, Admitted, Row, Plain
<1>2. ~Fresh(r) /\ ~Fresh(session[s]) /\ r.pc \notin Writing \cup {"judge", "seal"}
      /\ session[s].pc \notin Writing
  BY DEF MovesOn, Plain, Fresh, Writing
<1>3. r \in Row /\ Known(r) /\ Kept(r) = Kept(session[s]) /\ ~Begins(r)
  BY <1>1, <1>2 DEF MovesOn, Row, Known, Kept, Begins
<1>4. Private(s, r)
  BY <1>2, <1>3 DEF Private, KeepsNoMore
<1> QED BY <1>4, PrivateStep

LEMMA GotoStep ==
  ASSUME Inv, NEW s \in Session, NEW q \in Plain, Goto(s, q), session[s].pc \in Plain, WorldStill
  PROVE  Inv'
<1>1. PICK r : r = [session[s] EXCEPT !.pc = q] /\ Set(s, r)
  BY DEF Goto
<1>2. session[s] \in Fields /\ session[s].seen.by <= count.admissions
  BY DEF Inv, Types, Admitted, Known, Row
<1>3. MovesOn(s, r)
  BY <1>1, <1>2 DEF MovesOn, Fields, Plain, PC
<1> QED BY <1>1, <1>3, MoveStep

\* A command begins.
LEMMA StartStep ==
  ASSUME Inv, NEW s \in Session, NEW kind \in {"review", "evaluate", "freeze"},
         NEW c \in Candidate, NEW q \in {"snapshot", "judge", "build"}, NEW seen \in Chain,
         Start(s, kind, c, q, seen), seen.by <= count.admissions,
         q = "judge" => Exists(seen) /\ Stage(seen) = "SUBMITTED" /\ SubmittedCandidate(seen) = c
  PROVE  Inv'
<1>1. PICK r : /\ Set(s, r)
               /\ r = [Idle EXCEPT !.kind = kind, !.cand = c, !.pc = q, !.seen = seen]
  BY DEF Start
<1>2. Idle \in Fields /\ Idle.undo = <<>> /\ Idle.before.cred = NoCred
  BY IdleRow DEF Row
<1>3. /\ r \in Fields /\ r.pc = q /\ r.cand = c /\ r.seen = seen /\ r.undo = <<>>
      /\ r.before.cred = NoCred
  BY <1>1, <1>2 DEF Fields, PC
<1>4. ~Fresh(r) /\ q \notin Writing /\ q # "seal"
  BY <1>3 DEF Fresh, Writing
<1>5. r \in Row /\ Kept(r) = <<>> /\ ~Begins(r)
  BY <1>3, <1>4 DEF Row, Kept, Begins
<1>6. Known(r)
  <2>1. 0 <= count.admissions
    BY DEF Inv, Types, CountRow
  <2> QED BY <1>3, <1>4, <2>1, NothingIsChain DEF Known
<1>7. session[s].pc = "idle" /\ session[s].pc \notin Writing
  BY DEF Start, At, Writing
<1>8. Private(s, r)
  BY <1>3, <1>4, <1>5, <1>6, <1>7 DEF Private, KeepsNoMore, JudgeFits
<1>9. WorldStill
  <2>1. count' = [count EXCEPT !.ops = @ + 1] /\ count \in CountRow
    BY DEF Start, Inv, Types
  <2>2. count' \in CountRow /\ count'.admissions = count.admissions /\ count'.torn = count.torn
    BY <2>1 DEF CountRow
  <2>3. UNCHANGED <<registry, packages, candidates, receipts, lock>>
    BY DEF Start
  <2> QED BY <2>2, <2>3 DEF WorldStill, registry, Inv, FilesOK
<1> QED BY <1>1, <1>8, <1>9, PrivateStep

LEMMA ReviewStep == ASSUME Inv, NEW s \in Session, Review(s)  PROVE Inv'
<1>1. PICK c \in Candidate : Start(s, "review", c, "snapshot", NoCred)
  BY DEF Review
<1>2. NoCred \in Chain /\ NoCred.by <= count.admissions
  BY NothingIsChain DEF Inv, Types, CountRow
<1> QED BY <1>1, <1>2, StartStep

LEMMA EvaluateStep == ASSUME Inv, NEW s \in Session, Evaluate(s)  PROVE Inv'
<1>1. PICK c \in Candidate : /\ Exists(cred) /\ Stage(cred) = "SUBMITTED"
                             /\ SubmittedCandidate(cred) = c
                             /\ Start(s, "evaluate", c, "judge", cred)
  BY DEF Evaluate
<1>2. cred \in Chain /\ cred.by <= count.admissions
  BY DEF Inv, Types, Admitted
<1> QED BY <1>1, <1>2, StartStep

LEMMA FreezeStep == ASSUME Inv, NEW s \in Session, Freeze(s)  PROVE Inv'
<1>1. PICK c \in Candidate : Start(s, "freeze", c, "build", NoCred)
  BY DEF Freeze
<1>2. NoCred \in Chain /\ NoCred.by <= count.admissions
  BY NothingIsChain DEF Inv, Types, CountRow
<1> QED BY <1>1, <1>2, StartStep

LEMMA Pushed ==
  ASSUME NEW x \in Snap, NEW q \in Seq(Snap)
  PROVE  /\ <<x>> \o q \in Seq(Snap) /\ <<x>> \o q # <<>>
         /\ Head(<<x>> \o q) = x /\ Tail(<<x>> \o q) = q
<1>1. <<x>> \in Seq(Snap) /\ Len(<<x>>) = 1 /\ <<x>>[1] = x
  BY SMT
<1>2. PICK w : w = <<x>> \o q
  OBVIOUS
<1>3. Len(q) \in Nat
  BY LenProperties
<1>4. /\ w \in Seq(Snap) /\ Len(w) = Len(q) + 1
      /\ \A i \in 1 .. 1 + Len(q) : w[i] = IF i <= 1 THEN x ELSE q[i - 1]
  BY <1>1, <1>2, <1>3, ConcatProperties
<1>5. w # <<>> /\ Head(w) = x
  <2>1. 1 \in 1 .. 1 + Len(q)
    BY <1>3
  <2>2. w # <<>>
    BY <1>3, <1>4, EmptySeq
  <2> QED BY <1>4, <2>1, <2>2, HeadTailProperties
<1>6. /\ Tail(w) \in Seq(Snap) /\ Len(Tail(w)) = Len(q)
      /\ \A i \in 1 .. Len(Tail(w)) : Tail(w)[i] = w[i + 1]
  BY <1>3, <1>4, <1>5, HeadTailProperties
<1>7. \A i \in 1 .. Len(q) : Tail(w)[i] = q[i]
  <2>1. ASSUME NEW i \in 1 .. Len(q)  PROVE Tail(w)[i] = q[i]
    <3>1. i + 1 \in 1 .. 1 + Len(q) /\ ~(i + 1 <= 1) /\ (i + 1) - 1 = i
      BY <1>3
    <3> QED BY <1>4, <1>6, <3>1
  <2> QED BY <2>1
<1>8. Tail(w) = q
  BY <1>6, <1>7, SeqEqual
<1> QED BY <1>2, <1>4, <1>5, <1>8

LEMMA SnapshotStep == ASSUME Inv, NEW s \in Session, Snapshot(s)  PROVE Inv'
<1> DEFINE p == session[s]
<1>1. p \in Row /\ p.pc \in {"snapshot", "resnapshot"} /\ p.cand \in Candidate /\ Known(p)
  BY DEF Snapshot, Inv, Types, Row, Admitted
<1>2. WorldStill
  BY StillWorld DEF Snapshot, registry, Inv, FilesOK
<1>3. ~Fresh(p) /\ p.pc \notin Writing /\ p.pc # "idle"
  BY <1>1 DEF Fresh, Writing
<1>4. CASE Fail(s)
  BY <1>2, <1>3, <1>4, FailStep
<1>5. CASE ~Fail(s)
  <2>1. PICK q \in {"promote", "repromote"} :
               Set(s, [p EXCEPT !.pc = q, !.undo = <<Before(s)>> \o @])
    BY <1>5 DEF Snapshot
  <2>2. PICK x \in Snap : x = Before(s) /\ x.home = home /\ x.cred = cred
    <3>1. [home |-> home, cred |-> cred, events |-> events, inner |-> At(s, "resnapshot")] \in Snap
      BY DEF Inv, Types, Snap, At
    <3> QED BY <3>1 DEF Before
  <2>3. p.undo \in Seq(Snap) /\ p \in Fields
    BY <1>1 DEF Row, Fields
  <2>4. PICK w \in Seq(Snap) : /\ w = <<x>> \o p.undo /\ w # <<>>
                               /\ Head(w) = x /\ Tail(w) = p.undo
    BY <2>3, Pushed
  <2>5. PICK r : r = [p EXCEPT !.pc = q, !.undo = w]
    OBVIOUS
  <2>6. Set(s, r)
    BY <2>1, <2>2, <2>4, <2>5
  <2> HIDE DEF p
  <2>7. /\ r \in Row /\ r.pc = q /\ r.undo = w /\ Fresh(r) /\ r.seen = p.seen
        /\ r.before = p.before
    BY <1>1, <2>3, <2>4, <2>5 DEF Row, Fields, Fresh, PC
  <2>8. Kept(r) = p.undo /\ Kept(p) = p.undo
    BY <1>3, <2>4, <2>7 DEF Kept
  <2>9. Begins(r) => home = "family" /\ ~Exists(cred)
    BY <2>2, <2>4, <2>7 DEF Begins
  <2>10. Known(r)
    BY <1>1, <2>2, <2>4, <2>7 DEF Known, Inv, Admitted
  <2>11. Private(s, r)
    BY <1>3, <2>7, <2>8, <2>9, <2>10 DEF Private, KeepsNoMore, Writing, p
  <2> QED BY <1>2, <2>6, <2>11, PrivateStep
<1> QED BY <1>4, <1>5

LEMMA PromoteActionStep == ASSUME Inv, NEW s \in Session, Promote(s)  PROVE Inv'
<1> DEFINE p == session[s]
           mine == Head(p.undo)
<1>1. /\ p \in Row /\ Fresh(p) /\ p.undo # <<>> /\ p.undo \in Seq(Snap) /\ p.cand \in Candidate
      /\ p \in Fields /\ Known(p)
  BY DEF Promote, Fresh, Inv, Types, Row, Fields, Admitted
<1>2. mine \in Snap /\ Tail(p.undo) \in Seq(Snap) /\ mine.cred \in Chain
  <2>1. mine \in Snap /\ Tail(p.undo) \in Seq(Snap)
    BY <1>1, HeadTailProperties
  <2> QED BY <2>1 DEF Snap
<1>3. Kept(p) = Tail(p.undo) /\ p.pc \notin Writing /\ mine.cred.by <= count.admissions
      /\ p.seen.by <= count.admissions /\ p.before.cred.by <= count.admissions
  BY <1>1 DEF Kept, Known, Fresh, Writing
<1>4. UNCHANGED <<events, evidence, versions, packages, candidates, receipts, lock>>
  BY DEF Promote
<1> DEFINE next == IF At(s, "promote") THEN "admit" ELSE "submit"
<1>5. next \in {"admit", "submit"}
  OBVIOUS
<1>6. CASE UNCHANGED <<home, cred, count>>
           /\ \/ Set(s, [p EXCEPT !.pc = next, !.undo = Tail(p.undo), !.seen = mine.cred])
              \/ Set(s, [p EXCEPT !.pc = "undo", !.undo = Tail(p.undo)])
  <2>0. PICK q \in {"admit", "submit", "undo"}, k \in Chain :
           /\ k.by <= count.admissions
           /\ Set(s, [p EXCEPT !.pc = q, !.undo = Tail(p.undo), !.seen = k])
    <3>1. CASE Set(s, [p EXCEPT !.pc = next, !.undo = Tail(p.undo), !.seen = mine.cred])
      BY <1>2, <1>3, <1>5, <3>1
    <3>2. CASE Set(s, [p EXCEPT !.pc = "undo", !.undo = Tail(p.undo)])
      <4>1. p.seen \in Chain
        BY <1>1 DEF Fields
      <4>2. [p EXCEPT !.pc = "undo", !.undo = Tail(p.undo)]
              = [p EXCEPT !.pc = "undo", !.undo = Tail(p.undo), !.seen = p.seen]
        <5> HIDE DEF p
        <5> QED BY <1>1 DEF Fields
      <4> QED BY <1>3, <3>2, <4>1, <4>2
    <3> QED BY <1>6, <3>1, <3>2
  <2>1. PICK r : Set(s, r) /\ r = [p EXCEPT !.pc = q, !.undo = Tail(p.undo), !.seen = k]
    BY <2>0
  <2> HIDE DEF p, mine, next
  <2>2. /\ r \in Row /\ r.pc = q /\ r.undo = Tail(p.undo) /\ r.seen = k /\ r.before = p.before
        /\ ~Fresh(r)
    BY <1>1, <1>2, <2>1 DEF Row, Fields, PC, Fresh
  <2>3. Kept(r) = Kept(p) /\ ~Begins(r) /\ Known(r)
    BY <1>3, <2>0, <2>2 DEF Kept, Begins, Known
  <2>4. q \notin Writing \cup {"judge", "seal"}
    BY DEF Writing
  <2>5. Private(s, r)
    BY <1>3, <2>2, <2>3, <2>4 DEF Private, KeepsNoMore, p
  <2>6. WorldStill
    BY <1>4, <1>6, StillWorld DEF Inv, FilesOK
  <2> QED BY <2>1, <2>5, <2>6, PrivateStep
<1>7. CASE ~Exists(mine.cred) /\ lock = None /\ home = mine.home /\ home # "bare"
           /\ cred' = (IF Exists(cred) THEN cred
                       ELSE [by |-> count.admissions + 1, seals |-> <<Seal("OPEN", None, 0)>>])
           /\ count' = (IF Exists(cred) THEN count ELSE [count EXCEPT !.admissions = @ + 1])
           /\ home' = "family" /\ Set(s, [p EXCEPT !.pc = next, !.seen = cred'])
  <2>1. cred' \in Chain
    BY <1>7, NewChain DEF Inv, Types, CountRow
  <2>2. PICK r : r = [p EXCEPT !.pc = next, !.seen = cred'] /\ Set(s, r)
    BY <1>7
  <2>3. Promotes(s, r)
    <3>1. /\ r \in Row /\ r.pc \in {"admit", "submit"} /\ r.undo = p.undo /\ r.seen = cred'
          /\ r.before = p.before
      <4> HIDE DEF p, next, mine
      <4> QED BY <1>1, <1>5, <2>1, <2>2 DEF Row, Fields, PC, Fresh
    <3> QED BY <1>1, <1>7, <3>1 DEF Promotes
  <2> QED BY <1>4, <2>2, <2>3, PromoteStep
<1> QED BY <1>6, <1>7 DEF Promote

LEMMA KillPromotionStep == ASSUME Inv, NEW s \in Session, KillPromotion(s)  PROVE Inv'
<1>1. Done(s) /\ session[s].pc \notin Writing
  BY DEF KillPromotion, At, Writing
<1>2. /\ count' \in CountRow /\ count'.admissions = count.admissions /\ count'.torn = count.torn
  BY DEF KillPromotion, Fault, Inv, Types, CountRow
<1>3. /\ UNCHANGED <<cred, events, evidence, versions, lock, packages, candidates, receipts>>
      /\ home = "absent" /\ home' \in {"bare", "family"} /\ lock = None
  BY DEF KillPromotion
<1>4. WorldStill
  BY <1>2, <1>3 DEF WorldStill, Inv, FilesOK
<1> QED BY <1>1, <1>4, DoneStep

LEMMA AdmitStep == ASSUME Inv, NEW s \in Session, Admit(s)  PROVE Inv'
<1>1. WorldStill
  BY StillWorld DEF Admit, registry, Inv, FilesOK
<1>2. /\ session[s].pc = "admit" /\ session[s].pc \in Plain /\ session[s].pc \notin Writing
      /\ session[s].pc # "idle" /\ ~Fresh(session[s])
  BY DEF Admit, At, Plain, Writing, Fresh
<1>3. Goto(s, "move") \/ Goto(s, "resnapshot") \/ Fail(s)
  BY DEF Admit
<1>4. "move" \in Plain /\ "resnapshot" \in Plain
  BY DEF Plain
<1> QED BY <1>1, <1>2, <1>3, <1>4, GotoStep, FailStep

LEMMA MoveCandidateStep == ASSUME Inv, NEW s \in Session, MoveCandidate(s)  PROVE Inv'
<1> DEFINE p == session[s]
<1>1. p.pc = "move" /\ p.pc \in Plain /\ p \in Fields /\ p.seen.by <= count.admissions
      /\ p.cand \in Candidate
  BY DEF MoveCandidate, At, Plain, Inv, Types, Admitted, Known, Row
<1>2. candidates' \in [Candidate -> {"absent", "package", "record", "reviewed"}]
  BY DEF MoveCandidate, Inv, FilesOK
<1>3. WorldStill
  BY <1>2, StillWorld, HomeMade DEF MoveCandidate, Inv, FilesOK
<1>4. PICK r : r = [p EXCEPT !.pc = "resnapshot", !.created = TRUE] /\ Set(s, r)
  BY DEF MoveCandidate
<1>5. MovesOn(s, r)
  BY <1>1, <1>4 DEF MovesOn, Fields, Plain, PC
<1> QED BY <1>1, <1>3, <1>4, <1>5, MoveStep

LEMMA RecordStep == ASSUME Inv, NEW s \in Session, Record(s)  PROVE Inv'
<1>1. Done(s) /\ session[s].pc \notin Writing
  BY DEF Record, At, Writing
<1>2. candidates' \in [Candidate -> {"absent", "package", "record", "reviewed"}]
  BY DEF Record, Inv, FilesOK
<1>3. WorldStill
  BY <1>2, StillWorld, HomeMade DEF Record, Inv, FilesOK
<1> QED BY <1>1, <1>3, DoneStep

LEMMA BuildStep == ASSUME Inv, NEW s \in Session, Build(s)  PROVE Inv'
<1> DEFINE p == session[s]
<1>1. /\ p.pc = "build" /\ p.pc \in Plain /\ p \in Fields /\ p.seen.by <= count.admissions
      /\ p.pc \notin Writing /\ p.pc # "idle" /\ ~Fresh(p) /\ NextVersion \in Version
  BY DEF Build, At, Plain, Inv, Types, Admitted, Known, Row, Writing, Fresh
<1>2. WorldStill
  BY StillWorld DEF Build, registry, Inv, FilesOK
<1>3. CASE Fail(s)
  BY <1>1, <1>2, <1>3, FailStep
<1>4. ASSUME NEW q \in {"place", "approve"}, Set(s, [p EXCEPT !.pc = q, !.version = NextVersion])
      PROVE  Inv'
  <2>1. PICK v \in Version : v = NextVersion
    BY <1>1
  <2>2. PICK r : r = [p EXCEPT !.pc = q, !.version = v] /\ Set(s, r)
    BY <1>4, <2>1
  <2>3. MovesOn(s, r)
    BY <1>1, <2>2 DEF MovesOn, Fields, Plain, PC
  <2> QED BY <1>1, <1>2, <2>2, <2>3, MoveStep
<1> QED BY <1>3, <1>4 DEF Build

LEMMA PlaceStep == ASSUME Inv, NEW s \in Session, Place(s)  PROVE Inv'
<1> DEFINE p == session[s]
<1>1. p.pc = "place" /\ p.pc \in Plain /\ p \in Fields /\ p.seen.by <= count.admissions
      /\ p.cand \in Candidate \cup {None}
  BY DEF Place, At, Plain, Inv, Types, Admitted, Known, Row, Fields
<1>2. packages' \in [Version -> [cand : Candidate \cup {None}, intact : BOOLEAN]]
  <2> HIDE DEF p
  <2>1. packages' = [packages EXCEPT ![p.version] =
                       IF @ = NoPackage THEN [cand |-> p.cand, intact |-> TRUE]
                       ELSE [@ EXCEPT !.intact = FALSE]]
    BY DEF Place, p
  <2> QED BY <1>1, <2>1 DEF Inv, FilesOK
<1>3. WorldStill
  BY <1>2, StillWorld, HomeMade DEF Place, Inv, FilesOK
<1>4. PICK r : r = [p EXCEPT !.pc = "approve", !.created = TRUE] /\ Set(s, r)
  BY DEF Place
<1>5. MovesOn(s, r)
  BY <1>1, <1>4 DEF MovesOn, Fields, Plain, PC
<1> QED BY <1>1, <1>3, <1>4, <1>5, MoveStep

LEMMA ReadCredentialStep == ASSUME Inv, NEW s \in Session, ReadCredential(s)  PROVE Inv'
<1> DEFINE p == session[s]
<1>1. /\ p.pc = "approve" /\ p.pc \in Plain /\ p \in Fields /\ p \in Row /\ Known(p)
      /\ p.pc \notin Writing /\ p.pc # "idle" /\ ~Fresh(p) /\ p.cand \in Candidate
      /\ cred \in Chain /\ cred.by <= count.admissions
  BY DEF ReadCredential, At, Plain, Inv, Types, Admitted, Row, Writing, Fresh
<1>2. WorldStill
  BY StillWorld DEF ReadCredential, registry, Inv, FilesOK
<1>3. CASE Fail(s)
  BY <1>1, <1>2, <1>3, FailStep
<1>4. CASE Done(s)
  BY <1>1, <1>2, <1>4, DoneStep
<1>5. CASE ~Fail(s) /\ ~Done(s)
  <2>1. PICK q \in {"freeze", "seal"} :
          /\ Exists(cred) /\ RuntimeHolds(s, cred) /\ Set(s, [p EXCEPT !.pc = q, !.seen = cred])
          /\ q = "seal" => Stage(cred) = "ELIGIBLE"
    BY <1>5 DEF ReadCredential
  <2>2. PICK r : r = [p EXCEPT !.pc = q, !.seen = cred] /\ Set(s, r)
    BY <2>1
  <2>3. p.version = NextVersion /\ SubmittedCandidate(cred) = p.cand
    BY <2>1 DEF RuntimeHolds
  <2> HIDE DEF p
  <2>4. /\ r \in Row /\ r.pc = q /\ r.seen = cred /\ r.cand = p.cand /\ r.version = p.version
        /\ r.undo = p.undo /\ r.before = p.before /\ ~Fresh(r)
    BY <1>1, <2>2 DEF Row, Fields, PC, Fresh
  <2>5. Kept(r) = Kept(p) /\ ~Begins(r) /\ Known(r) /\ q \notin Writing
    BY <1>1, <2>4 DEF Kept, Begins, Known, Writing
  <2>6. Len(cred.seals) \in Nat
    BY <1>1, ChainShape
  <2>7. r.pc = "seal" => r.seen = cred /\ ApproverFits(r)
    BY <2>1, <2>3, <2>4, <2>6 DEF ApproverFits, NoLaterThan
  <2>8. Private(s, r)
    BY <1>1, <2>4, <2>5, <2>7 DEF Private, KeepsNoMore, p
  <2> QED BY <1>2, <2>2, <2>8, PrivateStep
<1> QED BY <1>3, <1>4, <1>5

\* append_governance_seal, as it is called outside the freeze.
LEMMA AppendStep ==
  ASSUME Inv, NEW s \in Session, NEW seal \in SealRow, NEW q \in {"record", "idle", "freeze"},
         AppendSeal(s, seal, q), session[s].pc \in {"submit", "judge", "seal"},
         /\ Exists(cred) /\ cred = session[s].seen /\ Follows(Stage(cred), seal.stage)
           => /\ seal.stage # "SUBMITTED" => seal.cand = Last(cred.seals).cand
              /\ seal.stage # "FROZEN" /\ (seal.stage = "APPROVED" => seal.version = NextVersion),
         UNCHANGED <<home, events, evidence, versions, packages, candidates, receipts, lock, count>>
  PROVE  Inv'
<1> DEFINE p == session[s]
<1>1. /\ p \in Row /\ p \in Fields /\ p.cand \in Candidate /\ Known(p) /\ ~Fresh(p)
      /\ p.pc \notin Writing /\ p.pc # "idle"
      /\ cred \in Chain /\ cred.by <= count.admissions
  BY DEF Inv, Types, Row, Admitted, Fresh, Writing
<1>2. CASE Fail(s) /\ UNCHANGED cred
  <2>1. WorldStill
    BY <1>2, StillWorld DEF Inv, FilesOK
  <2> QED BY <1>1, <1>2, <2>1, FailStep
<1> DEFINE fits == /\ lock = None /\ Exists(cred) /\ cred = session[s].seen
                   /\ Follows(Stage(cred), seal.stage)
<1>3. CASE /\ cred' = IF fits THEN Sealed(cred, seal) ELSE cred
           /\ IF q = "idle" THEN Done(s) ELSE Set(s, [p EXCEPT !.pc = q, !.seen = cred'])
  <2>1. fits => Extends(seal)
    BY DEF Extends
  <2>2. cred' \in Chain /\ cred'.by <= count.admissions
    <3>1. CASE fits
      BY <1>1, <1>3, <2>1, <3>1, SealedChain DEF Extends
    <3>2. CASE ~fits
      BY <1>1, <1>3, <3>2
    <3> QED BY <3>1, <3>2
  <2>3. PICK r \in Row : /\ Set(s, r) /\ r.pc = q /\ Known(r) /\ Kept(r) \in {Kept(p), <<>>}
                         /\ ~Begins(r)
    <3>1. CASE q = "idle"
      BY <1>3, <3>1, DoneRow DEF Inv
    <3>2. CASE q # "idle"
      <4>1. PICK r : r = [p EXCEPT !.pc = q, !.seen = cred'] /\ Set(s, r)
        BY <1>3, <3>2
      <4> HIDE DEF p
      <4>2. /\ r \in Row /\ r.pc = q /\ r.seen = cred' /\ r.undo = p.undo
            /\ r.before = p.before /\ ~Fresh(r)
        BY <1>1, <2>2, <4>1 DEF Row, Fields, PC, Fresh
      <4>3. Kept(r) = Kept(p) /\ ~Begins(r) /\ Known(r)
        BY <1>1, <2>2, <4>2 DEF Kept, Begins, Known
      <4> QED BY <4>1, <4>2, <4>3
    <3> QED BY <3>1, <3>2
  <2>4. q \notin Writing \cup {"judge", "seal"}
    BY DEF Writing
  <2>5. CASE fits
    <3>1. cred' = Sealed(cred, seal)
      BY <1>3, <2>5
    <3> HIDE DEF fits
    <3> QED BY <1>1, <2>1, <2>3, <2>4, <2>5, <3>1, SealStep
  <2>6. CASE ~fits
    <3>1. cred' = cred
      BY <1>3, <2>6
    <3>2. WorldStill
      BY <3>1, StillWorld DEF Inv, FilesOK
    <3>3. Private(s, r)
      BY <1>1, <2>3, <2>4 DEF Private, KeepsNoMore
    <3> QED BY <2>3, <3>2, <3>3, PrivateStep
  <2> QED BY <2>5, <2>6
<1> QED BY <1>2, <1>3 DEF AppendSeal

LEMMA SealIsRow ==
  ASSUME NEW stage \in StageName, NEW c \in Candidate, NEW v \in Version \cup {0}
  PROVE  /\ Seal(stage, c, v) \in SealRow /\ Seal(stage, c, v).stage = stage
         /\ Seal(stage, c, v).cand = c /\ Seal(stage, c, v).version = v
  BY DEF Seal, SealRow

LEMMA SubmitStep == ASSUME Inv, NEW s \in Session, Submit(s)  PROVE Inv'
<1> DEFINE c == session[s].cand
<1>1. session[s].pc = "submit" /\ c \in Candidate /\ session[s].pc \in Plain
  BY DEF Submit, At, Inv, Types, Row, Plain
<1>2. UNCHANGED <<home, events, evidence, versions, packages, candidates, receipts, lock, count>>
  BY DEF Submit
<1>3. CASE Goto(s, "record") /\ UNCHANGED cred
  <2>1. WorldStill
    BY <1>2, <1>3, StillWorld DEF Inv, FilesOK
  <2>2. "record" \in Plain
    BY DEF Plain
  <2> QED BY <1>1, <1>3, <2>1, <2>2, GotoStep
<1>4. CASE AppendSeal(s, Seal("SUBMITTED", c, 0), "record")
  <2>1. Seal("SUBMITTED", c, 0) \in SealRow /\ Seal("SUBMITTED", c, 0).stage = "SUBMITTED"
    BY <1>1, SealIsRow DEF StageName
  <2>2. PICK seal \in SealRow : seal = Seal("SUBMITTED", c, 0) /\ seal.stage = "SUBMITTED"
    BY <2>1
  <2>3. AppendSeal(s, seal, "record")
    BY <1>4, <2>2
  <2> QED BY <1>1, <1>2, <2>2, <2>3, AppendStep
<1> QED BY <1>3, <1>4 DEF Submit

LEMMA JudgeStep == ASSUME Inv, NEW s \in Session, Judge(s)  PROVE Inv'
<1> DEFINE c == session[s].cand
<1>1. /\ session[s].pc = "judge" /\ c \in Candidate /\ cred \in Chain
      /\ JudgeFits(session[s])
  BY DEF Judge, At, Inv, Types, Row, Knowledge, JudgeKnows
<1>2. PICK stage \in {"ELIGIBLE", "REJECTED"} : AppendSeal(s, Seal(stage, c, 0), "idle")
  BY DEF Judge
<1>3. PICK seal \in SealRow : seal = Seal(stage, c, 0) /\ seal.stage = stage /\ seal.cand = c
  BY <1>1, SealIsRow DEF StageName
<1>4. AppendSeal(s, seal, "idle")
  BY <1>2, <1>3
<1>5. cred = session[s].seen => Last(cred.seals).cand = c
  BY <1>1, LastFitsSubmission DEF JudgeFits
<1> QED BY <1>1, <1>3, <1>4, <1>5, AppendStep DEF Judge

LEMMA ApproveStep == ASSUME Inv, NEW s \in Session, Approve(s)  PROVE Inv'
<1> DEFINE c == session[s].cand
           v == session[s].version
<1>1. /\ session[s].pc = "seal" /\ c \in Candidate /\ cred \in Chain
      /\ v \in Version \cup {0} /\ ApproverFits(session[s])
  BY DEF Approve, At, Inv, Types, Row, Fields, Knowledge, ApproverKnows
<1>2. PICK seal \in SealRow : /\ seal = Seal("APPROVED", c, v) /\ seal.stage = "APPROVED"
                              /\ seal.cand = c /\ seal.version = v
  BY <1>1, SealIsRow DEF StageName
<1>3. AppendSeal(s, seal, "freeze")
  BY <1>2 DEF Approve
<1>4. cred = session[s].seen => Last(cred.seals).cand = c /\ v = NextVersion
  BY <1>1, LastFitsSubmission DEF ApproverFits
<1> QED BY <1>1, <1>2, <1>3, <1>4, AppendStep DEF Approve

LEMMA WriteVersionStep == ASSUME Inv, NEW s \in Session, WriteVersion(s)  PROVE Inv'
<1> DEFINE p == session[s]
<1>1. /\ p.pc = "freeze" /\ p.pc \notin Writing /\ p.pc # "idle" /\ ~Fresh(p)
      /\ UNCHANGED <<cred, events, evidence, packages, candidates, receipts, count>>
  BY DEF WriteVersion, At, Writing, Fresh
<1>2. CASE UNCHANGED <<home, versions, lock>> /\ (Fail(s) \/ Done(s))
  <2>1. WorldStill
    BY <1>1, <1>2, StillWorld DEF Inv, FilesOK
  <2> QED BY <1>1, <1>2, <2>1, FailStep, DoneStep
<1>3. CASE /\ lock = None /\ Freezable /\ lock' = s /\ MakeHome
           /\ versions' = [versions EXCEPT ![NextVersion] =
                             [cand |-> SubmittedCandidate(cred), by |-> cred.by]]
           /\ Set(s, [p EXCEPT !.pc = "evidence",
                        !.before = [version |-> NextVersion, evidence |-> evidence,
                                    events |-> events, cred |-> cred]])
  <2>1. PICK r : /\ Set(s, r)
                 /\ r = [p EXCEPT !.pc = "evidence",
                           !.before = [version |-> NextVersion, evidence |-> evidence,
                                       events |-> events, cred |-> cred]]
    BY <1>3
  <2>2. Takes(s, r)
    BY <1>1, <1>3, <2>1 DEF Takes, MakeHome
  <2> QED BY <1>1, <2>1, <2>2, TakeStep
<1> QED BY <1>2, <1>3 DEF WriteVersion

LEMMA WriteEvidenceStep == ASSUME Inv, NEW s \in Session, WriteEvidence(s)  PROVE Inv'
<1>1. /\ session[s].pc = "evidence" /\ session[s].pc \in Writing
      /\ UNCHANGED <<home, packages, candidates, receipts, count>>
  BY DEF WriteEvidence, At, Writing
<1>2. CASE GiveUp(s)
  BY <1>1, <1>2, GiveUpStep DEF Inv, Types
<1>3. CASE /\ evidence' = evidence \cup {Written(s)} /\ Goto(s, "lifecycle")
           /\ UNCHANGED <<cred, events, versions, lock>>
  <2>1. Written(s) \in Version
    BY <1>1, HolderShape DEF HolderFits, Written
  <2>2. /\ events' \subseteq Version /\ evidence' \subseteq Version
        /\ events \subseteq events' /\ evidence \subseteq evidence'
        /\ Written(s) \in evidence'
    BY <1>3, <2>1 DEF Inv, Types
  <2> QED BY <1>1, <1>3, <2>2, HolderStep DEF Writing
<1> QED BY <1>2, <1>3 DEF WriteEvidence

LEMMA WriteEventStep == ASSUME Inv, NEW s \in Session, WriteEvent(s)  PROVE Inv'
<1>1. /\ session[s].pc = "lifecycle" /\ session[s].pc \in Writing
      /\ UNCHANGED <<home, packages, candidates, receipts, count>>
  BY DEF WriteEvent, At, Writing
<1>2. CASE GiveUp(s)
  BY <1>1, <1>2, GiveUpStep DEF Inv, Types
<1>3. CASE /\ events' = events \cup {Written(s)} /\ Goto(s, "stamp")
           /\ UNCHANGED <<cred, evidence, versions, lock>>
  <2>1. Written(s) \in Version /\ HolderFits(session[s])
    BY <1>1, HolderShape DEF HolderFits, Written
  <2>2. /\ events' \subseteq Version /\ evidence' \subseteq Version
        /\ events \subseteq events' /\ evidence \subseteq evidence'
        /\ Written(s) \in events'
    BY <1>3, <2>1 DEF Inv, Types
  <2>3. cred = session[s].before.cred => Written(s) \in evidence
    BY <1>1, <2>1 DEF HolderFits, Written
  <2> QED BY <1>1, <1>3, <2>2, <2>3, HolderStep DEF Writing
<1> QED BY <1>2, <1>3 DEF WriteEvent

LEMMA WriteFailsStep == ASSUME Inv, NEW s \in Session, WriteFails(s)  PROVE Inv'
<1>1. /\ session[s].pc \in Writing /\ GiveUp(s)
      /\ UNCHANGED <<home, packages, candidates, receipts>>
  BY DEF WriteFails
<1>2. count' \in CountRow /\ count'.admissions = count.admissions
  BY DEF WriteFails, Fault, Inv, Types, CountRow
<1> QED BY <1>1, <1>2, GiveUpStep

\* One more fault, after which the files are torn or not.
Damage(torn) ==
  count' = [admissions |-> count.admissions, ops |-> count.ops, faults |-> count.faults + 1,
            torn |-> torn]

LEMMA CountDamage ==
  ASSUME count \in CountRow, NEW b \in BOOLEAN, Damage(b)
  PROVE  count' \in CountRow /\ count'.admissions = count.admissions /\ count'.torn = b
<1>1. count.admissions \in Nat /\ count.ops \in Nat /\ count.faults + 1 \in Nat
  BY DEF CountRow
<1> QED BY <1>1, Zenon DEF CountRow, Damage

LEMMA RestoreFailsStep == ASSUME Inv, NEW s \in Session, RestoreFails(s)  PROVE Inv'
<1>1. /\ session[s].pc \in Writing /\ Fail(s) /\ lock' = None
      /\ UNCHANGED <<registry, packages, candidates, receipts>>
      /\ count' = [count EXCEPT !.faults = @ + 1, !.torn = TRUE] /\ count \in CountRow
  BY DEF RestoreFails, Inv, Types
<1>2. count' \in CountRow /\ count'.admissions = count.admissions /\ count'.torn = TRUE
  <2>1. Damage(TRUE)
    BY <1>1 DEF Damage, CountRow
  <2> QED BY <1>1, <2>1, CountDamage
<1>3. session[s].pc # "idle" /\ ~Fresh(session[s])
  BY <1>1, HolderShape
<1>4. PICK r \in Row : /\ Set(s, r) /\ r.pc = "undo" /\ Known(r) /\ Known(r)'
                       /\ Kept(r) = Kept(session[s]) /\ ~Begins(r)
  BY <1>1, <1>2, <1>3, FailRow DEF Inv
<1> QED BY <1>1, <1>2, <1>4, TornStep

LEMMA RaiseStep == ASSUME Inv, NEW s \in Session, Raise(s)  PROVE Inv'
<1>1. /\ Fault /\ UNCHANGED <<registry, packages, candidates, receipts, lock>>
      /\ session[s].pc \notin Writing /\ session[s].pc # "idle" /\ ~Fresh(session[s])
  BY DEF Raise, Writing, Fresh, At
<1>2. WorldStill
  BY <1>1, FaultWorld DEF Inv
<1>3. CASE Fail(s)
  BY <1>1, <1>2, <1>3, FailStep
<1>4. CASE ~Fail(s)
  <2> DEFINE p == session[s]
  <2>1. /\ p \in Row /\ p \in Fields /\ Known(p) /\ p.undo \in Seq(Snap)
        /\ p.cand \in Candidate /\ p.pc = "record"
    BY <1>1, <1>4 DEF Raise, At, Inv, Types, Row, Fields, Admitted
  <2>2. PICK u \in Seq(Snap) : /\ Set(s, [p EXCEPT !.pc = "undo", !.undo = u])
                               /\ u = p.undo \/ (p.undo # <<>> /\ u = Tail(p.undo))
    <3>1. CASE p.undo # <<>> /\ Head(p.undo).inner
      <4>1. Tail(p.undo) \in Seq(Snap)
        BY <2>1, <3>1
      <4> QED BY <1>4, <3>1, <4>1 DEF Raise
    <3>2. CASE ~(p.undo # <<>> /\ Head(p.undo).inner)
      BY <1>4, <2>1, <3>2 DEF Raise
    <3> QED BY <3>1, <3>2
  <2>3. PICK r : r = [p EXCEPT !.pc = "undo", !.undo = u] /\ Set(s, r)
    BY <2>2
  <2>4. Set(s, r)
    BY <2>3
  <2> HIDE DEF p
  <2>5. r \in Row /\ r.pc = "undo" /\ r.undo = u /\ ~Fresh(r) /\ r.seen = p.seen /\ r.before = p.before
    BY <2>1, <2>2, <2>3 DEF Row, Fields, Fresh, PC
  <2>6. Kept(r) = u /\ Kept(p) = p.undo
    BY <1>1, <2>5 DEF Kept, p
  <2>7. KeepsNoMore(p, r)
    BY <2>2, <2>6 DEF KeepsNoMore
  <2>8. Known(r)
    BY <2>1, <2>5 DEF Known
  <2>9. Private(s, r)
    BY <1>1, <2>5, <2>7, <2>8 DEF Private, Writing, Begins, p
  <2> QED BY <1>2, <2>4, <2>9, PrivateStep
<1> QED BY <1>3, <1>4

LEMMA UndoStep == ASSUME Inv, NEW s \in Session, Undo(s)  PROVE Inv'
<1>1. CASE session[s].undo # <<>>
  BY <1>1, UndoPromotion, UndoFamily
<1>2. CASE session[s].undo = <<>>
  <2> DEFINE p == session[s]
             drops == p.created /\ Len(p.undo) < 2
  <2>1. /\ p.pc = "undo" /\ p.pc \notin Writing /\ p.cand \in Candidate
    BY DEF Undo, At, Writing, Inv, Types, Row
  <2>2. /\ UNCHANGED registry /\ UNCHANGED <<receipts, lock, count>>
        /\ candidates' = [candidates EXCEPT ![p.cand] =
                            IF drops /\ p.kind = "review" THEN "absent" ELSE @]
        /\ packages' = [v \in Version |-> IF drops /\ p.kind = "freeze" /\ v = p.version
                                          THEN NoPackage ELSE packages[v]]
    BY <1>2 DEF Undo
  <2>3. Done(s)
    <3>1. ~(Len(p.undo) > 1)
      BY <1>2
    <3> QED BY <3>1 DEF Undo
  <2>4. FilesOK'
    <3>1. NoPackage \in [cand : Candidate \cup {None}, intact : BOOLEAN]
      BY DEF NoPackage
    <3> HIDE DEF p, drops
    <3> QED BY <2>1, <2>2, <3>1 DEF Inv, FilesOK
  <2>5. WorldStill
    BY <2>2, <2>4, StillWorld DEF Inv, registry
  <2> QED BY <2>1, <2>3, <2>5, DoneStep
<1> QED BY <1>1, <1>2

LEMMA KillStep == ASSUME Inv, NEW s \in Session, Kill(s)  PROVE Inv'
<1>1. /\ Done(s) /\ UNCHANGED <<registry, packages, candidates, receipts>>
      /\ count' = [count EXCEPT !.faults = @ + 1, !.torn = @ \/ session[s].pc \in Writing]
      /\ lock' = IF lock = s THEN None ELSE lock
      /\ count \in CountRow
  BY DEF Kill, Inv, Types
<1>2. CASE session[s].pc \in Writing
  <2>1. Damage(TRUE) /\ lock' = None
    BY <1>1, <1>2, HolderShape DEF Damage, CountRow
  <2>2. count' \in CountRow /\ count'.admissions = count.admissions /\ count'.torn = TRUE
    BY <1>1, <2>1, CountDamage
  <2>3. PICK r \in Row : /\ Set(s, r) /\ r.pc = "idle" /\ Known(r) /\ Known(r)'
                         /\ Kept(r) = <<>> /\ ~Begins(r)
    BY <1>1, <2>2, DoneRow DEF Inv
  <2> QED BY <1>1, <1>2, <2>1, <2>2, <2>3, TornStep
<1>3. CASE session[s].pc \notin Writing
  <2>1. lock' = lock
    BY <1>1, <1>3 DEF Inv, LockHeld
  <2>2. count.torn \in BOOLEAN /\ Damage(count.torn)
    <3>1. count.torn \in BOOLEAN /\ (count.torn \/ session[s].pc \in Writing) = count.torn
      BY <1>1, <1>3, Zenon DEF CountRow
    <3> QED BY <1>1, <3>1 DEF Damage, CountRow
  <2>3. count' \in CountRow /\ count'.admissions = count.admissions /\ count'.torn = count.torn
    BY <1>1, <2>2, CountDamage
  <2>4. WorldStill
    BY <1>1, <2>1, <2>3 DEF WorldStill, registry, Inv, FilesOK
  <2> QED BY <1>1, <1>3, <2>4, DoneStep
<1> QED BY <1>2, <1>3

\* Sessions and registry stay as they are.
LEMMA StillStep ==
  ASSUME Inv, FilesOK', UNCHANGED <<registry, lock, session, count>>
  PROVE  Inv'
<1>1. /\ home' = home /\ cred' = cred /\ events' = events /\ evidence' = evidence
      /\ versions' = versions /\ lock' = lock /\ session' = session /\ count' = count
      /\ Frozen' = Frozen /\ NextVersion' = NextVersion
  BY SameVersions DEF registry
<1>2. Types' /\ Admitted'
  BY <1>1 DEF Inv, Types, Admitted, Known
<1>3. Guards'
  BY <1>1 DEF Inv, Guards, KeptAreNew, NoFamilyYet, OneWiper
<1>4. LockHeld' /\ VersionsInOrder' /\ ChainNames'
  BY <1>1 DEF Inv, LockHeld, VersionsInOrder, ChainNames
<1>5. HolderKnows' /\ JudgeKnows'
  BY <1>1 DEF Inv, Knowledge, HolderKnows, HolderFits, JudgeKnows, JudgeFits, At
<1>6. ApproverKnows' /\ ApproverPast'
  BY <1>1 DEF Inv, Knowledge, ApproverKnows, ApproverFits, ApproverPast, At
<1>7. Goals'
  BY <1>1 DEF Inv, Goals, ApprovalFreezesOnce, SealedIsComplete, ApprovedCanResume
<1> QED BY <1>2, <1>3, <1>4, <1>5, <1>6, <1>7 DEF Inv, Knowledge

LEMMA DeployStep == ASSUME Inv, Deploy  PROVE Inv'
<1>1. FilesOK' /\ UNCHANGED <<registry, lock, session, count>>
  BY DEF Deploy, Inv, FilesOK
<1> QED BY <1>1, StillStep

-----------------------------------------------------------------------------
(* The theorems.                                                           *)

LEMMA InitInv == Init => Inv
<1> SUFFICES ASSUME Init  PROVE Inv
  OBVIOUS
<1>1. FilesOK
  BY DEF Init, FilesOK, NoPackage
<1>2. \A s \in Session : session[s] = Idle
  BY DEF Init
<1>3. Types
  BY NothingIsChain, IdleRow DEF Init, Types, Home, NoFile, CountRow
<1>4. Frozen = {} /\ NoCred = cred /\ ~Exists(cred)
  BY NothingIsChain DEF Init, Frozen
<1>5. ~Fresh(Idle) /\ Kept(Idle) = <<>> /\ ~Begins(Idle) /\ Idle.pc \notin Writing
  BY IdleRow DEF Fresh, Kept, Begins, Writing
<1>6. Admitted
  BY <1>2, <1>5, NothingIsChain, IdleRow DEF Init, Admitted, Known, NoFile
<1>7. Guards
  <2>1. \A s \in Session : /\ Kept(session[s]) = <<>> /\ ~Begins(session[s])
                           /\ ~Wipes(session[s]) /\ 1 .. Len(Kept(session[s])) = {}
    BY <1>2, <1>5, NothingKept
  <2> QED BY <1>4, <2>1 DEF Guards, KeptAreNew, NoFamilyYet, OneWiper
<1>8. LockHeld
  BY <1>2, <1>5, NoneAssumption DEF Init, LockHeld
<1>9. VersionsInOrder
  <2>1. Frozen = 1 .. 0 /\ 0 \in 0 .. MaxVersion
    BY <1>4, BoundAssumption
  <2> QED BY <2>1 DEF VersionsInOrder
<1>10. ChainNames /\ Goals
  BY <1>4 DEF ChainNames, Goals, ApprovalFreezesOnce, SealedIsComplete, ApprovedCanResume
<1>11. Knowledge
  BY <1>2, <1>5, IdleRow DEF Knowledge, HolderKnows, JudgeKnows, ApproverKnows, ApproverPast, At
<1> QED BY <1>1, <1>3, <1>6, <1>7, <1>8, <1>9, <1>10, <1>11 DEF Inv

LEMMA Step == Inv /\ [Next]_vars => Inv'
<1> SUFFICES ASSUME Inv, [Next]_vars  PROVE Inv'
  OBVIOUS
<1>1. ASSUME NEW s \in Session,
             \/ Review(s) \/ Snapshot(s) \/ Promote(s) \/ KillPromotion(s) \/ Admit(s)
             \/ MoveCandidate(s) \/ Submit(s) \/ Record(s) \/ Evaluate(s) \/ Judge(s)
      PROVE  Inv'
  BY <1>1, ReviewStep, SnapshotStep, PromoteActionStep, KillPromotionStep, AdmitStep,
     MoveCandidateStep, SubmitStep, RecordStep, EvaluateStep, JudgeStep
<1>2. ASSUME NEW s \in Session,
             \/ Freeze(s) \/ Build(s) \/ Place(s) \/ ReadCredential(s) \/ Approve(s)
             \/ WriteVersion(s) \/ WriteEvidence(s) \/ WriteEvent(s) \/ StampCredential(s)
             \/ WriteFails(s) \/ RestoreFails(s) \/ Raise(s) \/ Undo(s) \/ Kill(s)
      PROVE  Inv'
  BY <1>2, FreezeStep, BuildStep, PlaceStep, ReadCredentialStep, ApproveStep, WriteVersionStep,
     WriteEvidenceStep, WriteEventStep, StampStep, WriteFailsStep, RestoreFailsStep, RaiseStep,
     UndoStep, KillStep
<1>3. CASE Deploy
  BY <1>3, DeployStep
<1>4. CASE UNCHANGED vars
  <2>1. FilesOK' /\ UNCHANGED <<registry, lock, session, count>>
    BY <1>4 DEF vars, registry, Inv, FilesOK
  <2> QED BY <2>1, StillStep
<1> QED BY <1>1, <1>2, <1>3, <1>4 DEF Next

\* Whatever any number of sessions do to the files of a family, in any order,
\* with failing writes, failing restores and killed commands.
THEOREM GovernanceInvariant == Spec => []Inv
<1> QED BY InitInv, Step, PTL DEF Spec

\* The files keep the values the commands write, and the seals of the
\* credential follow _validate_governance_transition.
THEOREM GovernanceTypes == Spec => []TypeOK
<1>1. Inv => TypeOK
  <2> SUFFICES ASSUME Inv  PROVE TypeOK
    OBVIOUS
  <2>1. cred \in Chain
    BY DEF Inv, Types
  <2>2. SealRow \subseteq Seals
    <3>1. SUFFICES ASSUME NEW x \in SealRow  PROVE x \in Seals
      OBVIOUS
    <3>2. /\ x.stage \in StageName /\ x = Seal(x.stage, x.cand, x.version)
          /\ x.cand \in Candidate \cup {None} /\ x.version \in Version \cup {0}
      BY DEF SealRow, Seal
    <3> QED BY <3>2 DEF Seals, StageName
  <2>3. cred.by \in Nat /\ ToSet(cred.seals) \subseteq Seals
    BY <2>1, <2>2, ChainShape, ElementOfSeq DEF ToSet
  <2>4. \A i \in 2 .. Len(cred.seals) : Follows(cred.seals[i - 1].stage, cred.seals[i].stage)
    BY <2>1 DEF Chain, WellFormed
  <2> QED BY <2>3, <2>4 DEF Inv, Types, FilesOK, TypeOK, Home
<1> QED BY <1>1, GovernanceInvariant, PTL

\* Every seal is about the candidate of the submission it follows, however
\* long an evaluation or a freeze takes and whatever is sealed meanwhile.
THEOREM SealsAreAboutTheirSubmission == Spec => []SealsFitSubmission
<1>1. Inv => SealsFitSubmission
  BY DEF Inv, Types, Chain, WellFormed, SealsFitSubmission
<1> QED BY <1>1, GovernanceInvariant, PTL

\* One approval never freezes two versions, also when a freeze was torn.
THEOREM ApprovalsAreUsedOnce == Spec => []ApprovalFreezesOnce
<1>1. Inv => ApprovalFreezesOnce
  BY DEF Inv, Goals
<1> QED BY <1>1, GovernanceInvariant, PTL

\* A credential with a final seal has its version, evidence and event.
THEOREM FinalSealIsLast == Spec => []SealedIsComplete
<1>1. Inv => SealedIsComplete
  BY DEF Inv, Goals
<1> QED BY <1>1, GovernanceInvariant, PTL

\* An approval whose freeze failed and was undone is still for the next version.
THEOREM ApprovalsCanResume == Spec => []ApprovedCanResume
<1>1. Inv => ApprovedCanResume
  BY DEF Inv, Goals
<1> QED BY <1>1, GovernanceInvariant, PTL
=============================================================================
