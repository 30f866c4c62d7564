------------------------ MODULE AdapterSessionProofs ------------------------
(***************************************************************************)
(* Theorems about AdapterSession.  Whatever times out, and however late    *)
(* the engine's answers and sweeps are, no trace is drawn on another axis  *)
(* than the one last echoed.  As long as every call was acknowledged, what *)
(* the adapter echoes is what is in force, and the averaging is kept.      *)
(***************************************************************************)
EXTENDS AdapterSession, FiniteSetTheorems, SequenceTheorems, WellFoundedInduction,
        TLAPS

-----------------------------------------------------------------------------
(* Minima and maxima.                                                      *)

LEMMA LeastNatural ==
  ASSUME NEW T \in SUBSET Nat, T # {} PROVE \E x \in T : \A y \in T : x <= y
<1>1. PICK R : IsWellFoundedOn(R, Nat) /\ \A x, y \in Nat : <<y, x>> \in R <=> y < x
  <2>1. \A x, y \in Nat : <<y, x>> \in OpToRel(<, Nat) <=> y < x BY DEF OpToRel
  <2>. QED BY <2>1, NatLessThanWellFounded
<1>2. PICK x \in T : \A y \in T : <<y, x>> \notin R BY <1>1, WFMin
<1>3. ASSUME NEW y \in T PROVE x <= y
  <2>1. x \in Nat /\ y \in Nat OBVIOUS
  <2>2. ~(y < x) BY <1>1, <1>2, <2>1
  <2>. QED BY <2>1, <2>2
<1>. QED BY <1>3

LEMMA MaxInSet ==
  ASSUME NEW n \in Nat, NEW S \in SUBSET (1 .. n), S # {}
  PROVE  Max(S) \in S /\ \A j \in S : j <= Max(S)
<1> DEFINE T == {n - i : i \in S}
<1>1. T \in SUBSET Nat /\ T # {}
  <2>1. \A i \in S : i \in 1 .. n /\ n - i \in Nat OBVIOUS
  <2>. QED BY <2>1
<1>2. PICK x \in T : \A y \in T : x <= y BY <1>1, LeastNatural
<1>3. PICK m \in S : x = n - m BY DEF T
<1>4. \A j \in S : m >= j
  <2>1. TAKE j \in S
  <2>2. n - j \in T OBVIOUS
  <2>. QED BY <1>2, <1>3, <2>2
<1>5. \E m_1 \in S : \A j \in S : m_1 >= j BY <1>4
<1>. QED BY <1>5 DEF Max

-----------------------------------------------------------------------------
(* The nearest averaging.                                                  *)

LEMMA ProductGrows ==
  ASSUME NEW x \in Nat, NEW y \in Nat, NEW z \in Nat, x <= y
  PROVE  x * z <= y * z
OBVIOUS

\* With r and q for the squares of the bandwidths.
NearerRatio(r, q, a, b) == IF a > b THEN r > a * b * q ELSE r <= a * b * q

LEMMA NearerTransitive ==
  ASSUME NEW r \in Nat, NEW q \in Nat, NEW a \in Nat, NEW b \in Nat, NEW c \in Nat,
         a # b, b # c, a # c, NearerRatio(r, q, a, b), NearerRatio(r, q, b, c)
  PROVE  NearerRatio(r, q, a, c)
<1> DEFINE ab == a * b * q
           bc == b * c * q
           ac == a * c * q
<1>1. ab \in Nat /\ bc \in Nat /\ ac \in Nat OBVIOUS
<1>2. ab = a * (b * q) /\ ab = b * (a * q) OBVIOUS
<1>3. bc = b * (c * q) /\ bc = c * (b * q) OBVIOUS
<1>4. ac = a * (c * q) /\ ac = c * (a * q) OBVIOUS
<1>5. b * q \in Nat /\ a * q \in Nat /\ c * q \in Nat OBVIOUS
<1>6. a <= c => ab <= bc BY <1>2, <1>3, <1>5, ProductGrows
<1>7. c <= a => bc <= ab BY <1>2, <1>3, <1>5, ProductGrows
<1>8. b <= c => ab <= ac BY <1>2, <1>4, <1>5, ProductGrows
<1>9. c <= b => ac <= ab BY <1>2, <1>4, <1>5, ProductGrows
<1>10. a <= b => ac <= bc BY <1>3, <1>4, <1>5, ProductGrows
<1>11. b <= a => bc <= ac BY <1>3, <1>4, <1>5, ProductGrows
<1>12. (IF a > b THEN r > ab ELSE r <= ab) /\ (IF b > c THEN r > bc ELSE r <= bc)
  BY DEF NearerRatio
<1>13. IF a > c THEN r > ac ELSE r <= ac
  <2> HIDE DEF ab, bc, ac
  <2>. QED BY <1>1, <1>6, <1>7, <1>8, <1>9, <1>10, <1>11, <1>12
<1>. QED BY <1>13 DEF NearerRatio

LEMMA CloserIsNearer ==
  ASSUME NEW p, p.rbw \in Nat, p.vbw \in Nat, NEW a \in Nat, NEW b \in Nat
  PROVE  Closer(p, a, b) <=> NearerRatio(p.rbw * p.rbw, p.vbw * p.vbw, a, b)
BY DEF Closer, NearerRatio

\* There is a nearest averaging: the choices are finitely many, and of two
\* one is nearer.
LEMMA NearestExists ==
  ASSUME NEW p, p.rbw \in Nat, p.vbw \in Nat
  PROVE  AveragingId(p) \in Ratios
<1> DEFINE Best(a, S) == \A b \in S \ {a} : Closer(p, a, b)
           T == {S \in SUBSET Ratios : S # {} /\ ~ \E a \in S : Best(a, S)}
<1>1. Ratios \subseteq Nat /\ Ratios # {} /\ IsFiniteSet(Ratios)
  BY SessionAssumption DEF Positive
<1>2. CASE T # {}
  <2>1. IsWellFoundedOn(StrictSubsetOrdering(Ratios), SUBSET Ratios)
    BY <1>1, FS_StrictSubsetOrderingWellFounded, FS_FiniteSubsetsOfFinite
  <2>2. T \subseteq SUBSET Ratios OBVIOUS
  <2>3. PICK S \in T : \A R \in T : <<R, S>> \notin StrictSubsetOrdering(Ratios)
    <3> HIDE DEF T
    <3>. QED BY <1>2, <2>1, <2>2, WFMin
  <2>4. PICK x \in S : TRUE OBVIOUS
  <2>5. S \ {x} \notin T
    <3>1. S \ {x} \subseteq S /\ S \ {x} # S /\ S \in SUBSET Ratios /\ S \ {x} \in SUBSET Ratios
      BY <2>4
    <3>2. <<S \ {x}, S>> \in StrictSubsetOrdering(Ratios)
      BY <3>1 DEF StrictSubsetOrdering
    <3>. QED BY <2>3, <3>2
  <2>6. CASE S = {x} BY <2>4, <2>6
  <2>7. CASE S # {x}
    <3>1. PICK a \in S \ {x} : Best(a, S \ {x}) BY <2>4, <2>5, <2>7
    <3>2. a \in Nat /\ x \in Nat /\ a # x BY <1>1, <2>4, <3>1
    <3>3. CASE Closer(p, a, x)
      <4>1. Best(a, S) BY <3>1, <3>3
      <4>. QED BY <3>1, <4>1
    <3>4. CASE ~Closer(p, a, x)
      <4> DEFINE r == p.rbw * p.rbw
                 q == p.vbw * p.vbw
      <4>1. r \in Nat /\ q \in Nat OBVIOUS
      <4>2. NearerRatio(r, q, x, a)
        <5>1. ~NearerRatio(r, q, a, x) BY <3>2, <3>4, CloserIsNearer
        <5>2. a * x * q = x * a * q /\ a * x * q \in Nat BY <3>2, <4>1
        <5> HIDE DEF r, q
        <5>. QED BY <3>2, <4>1, <5>1, <5>2 DEF NearerRatio
      <4>3. ASSUME NEW b \in S \ {x} PROVE Closer(p, x, b)
        <5>1. b \in Nat BY <1>1
        <5>2. CASE b = a BY <3>2, <4>2, <5>2, CloserIsNearer
        <5>3. CASE b # a
          <6>1. NearerRatio(r, q, a, b) BY <3>1, <3>2, <5>1, <5>3, CloserIsNearer
          <6>2. NearerRatio(r, q, x, b)
            <7> HIDE DEF r, q
            <7>. QED BY <3>2, <4>1, <4>2, <5>1, <5>3, <6>1, NearerTransitive
          <6>. QED BY <3>2, <5>1, <6>2, CloserIsNearer
        <5>. QED BY <5>2, <5>3
      <4>. QED BY <2>4, <4>3
    <3>. QED BY <3>3, <3>4
  <2>. QED BY <2>6, <2>7
<1>3. CASE T = {}
  <2>1. \E a \in Ratios : Best(a, Ratios) BY <1>1, <1>3
  <2>. QED BY <2>1 DEF AveragingId
<1>. QED BY <1>2, <1>3

\* A video bandwidth that was made from a choice gives the choice back.
LEMMA NearestOwn ==
  ASSUME NEW p, NEW a \in Ratios, p.vbw \in Positive, p.rbw = a * p.vbw
  PROVE  AveragingId(p) = a
<1> DEFINE v == p.vbw
<1>1. Ratios \subseteq Nat /\ v \in Nat /\ v # 0 /\ a \in Nat /\ a # 0
  BY SessionAssumption DEF Positive
<1>2. ASSUME NEW b \in Nat, b # a, b # 0
      PROVE  Closer(p, a, b) /\ ~Closer(p, b, a)
  <2> DEFINE w == (a * v) * v
  <2>1. w \in Nat /\ w > 0 BY <1>1
  <2>2. p.rbw * p.rbw = a * w BY <1>1
  <2>3. a * b * p.vbw * p.vbw = b * w /\ b * a * p.vbw * p.vbw = b * w BY <1>1, <1>2
  <2>4. a > b => a * w > b * w
    <3> HIDE DEF w
    <3>. QED BY <1>1, <2>1
  <2>5. a < b => a * w < b * w
    <3> HIDE DEF w
    <3>. QED BY <1>1, <2>1
  <2>6. a * w \in Nat /\ b * w \in Nat BY <1>1, <2>1
  <2> HIDE DEF w
  <2>. QED BY <1>1, <1>2, <2>2, <2>3, <2>4, <2>5, <2>6 DEF Closer
<1>3. \A b \in Ratios \ {a} : Closer(p, a, b) /\ ~Closer(p, b, a)
  BY <1>1, <1>2, SessionAssumption DEF Positive
<1>. QED BY <1>3 DEF AveragingId
-----------------------------------------------------------------------------
(* The inductive invariant.                                                *)

Spans == {Default.span} \cup {c.span : c \in {r \in Requests : Has(r, "span")}}
Values == Spans \cup Nat \cup BOOLEAN

Patches == {p \in UNION {[D -> Values] : D \in SUBSET Fields} : IsPatch(p)}
Plans == {p \in [Fields -> Values] : IsPlan(p)}
Limits == {p \in Plans : p.vbw <= p.rbw}

Lines == [cmd : {"start", "stop"}] \cup [cmd : {"setPlan"}, patch : Patches]
Grids == Values \X Values
Answer(f) == f.type = "applied"
Frames == {f \in [type : {"applied"}, requested : Plans, applied : Limits] :
             f.applied = Limited(f.requested)}
          \cup [type : {"sweep"}, grid : Grids]

SessionTyped ==
  /\ plan \in Limits /\ force \in Limits
  /\ controls.avg \in Ratios /\ controls.img \in BOOLEAN
  /\ call \in {"idle", "waiting", "answered"}
  /\ call # "idle" => asked \in Requests /\ sent = PlanFor(asked)
  /\ call = "answered" => reply \in Limits
  /\ calls \in 0 .. MaxCalls
  /\ commands \in Seq(Lines) /\ Len(commands) <= MaxLines + 1
  /\ early \in Seq(Lines)
  /\ frames \in Seq(Frames) /\ unsent \in Grids \cup {None}
  /\ starting \in BOOLEAN
  /\ kind = "real" => ~starting
  /\ ~starting => early = <<>>

\* The patch changes nothing of a plan that is in force.
Absorbs(p, patch) ==
  \A f \in DOMAIN patch :
    p[f] = IF f = "vbw" /\ patch[f] > p.rbw THEN p.rbw ELSE patch[f]

SetsPlan(line) == line.cmd = "setPlan"

\* The lines under way change nothing ...
Settled(p, lines) ==
  \A i \in DOMAIN lines : SetsPlan(lines[i]) => Absorbs(p, lines[i].patch)

NoPlans(lines) == \A i \in DOMAIN lines : ~SetsPlan(lines[i])

\* ... but the last of them, which is the call's.
SettledButLast(p, s, lines) ==
  \A i \in DOMAIN lines :
    SetsPlan(lines[i]) =>
      \/ Absorbs(p, lines[i].patch)
      \/ /\ lines[i].patch = s
         /\ \A j \in DOMAIN lines : j > i => ~SetsPlan(lines[j])

\* Nothing is under way that would change what the adapter holds.
Quiet == /\ Settled(force, early) /\ Settled(force, commands)
         /\ \A i \in DOMAIN frames : Answer(frames[i]) => frames[i].applied = force

\* A call waits: only its line may change the engine's plan, and whatever
\* passes for its answer is of the plan that will be in force.
Waits ==
  /\ \/ Settled(force, early) /\ SettledButLast(force, sent, commands)
     \/ SettledButLast(force, sent, early) /\ NoPlans(commands)
  /\ \A i \in DOMAIN frames, j \in DOMAIN frames :
       (/\ Answer(frames[i]) /\ Answers(frames[i].requested, sent)
        /\ i <= j /\ Answer(frames[j]))
         => frames[j].applied = force
  /\ ~Has(asked, "rbw") =>
       /\ force.rbw = plan.rbw
       /\ \A i \in DOMAIN frames :
            Answer(frames[i]) => frames[i].applied.rbw = plan.rbw

CallInv ==
  /\ call = "idle" => Quiet /\ plan = force
  /\ call = "waiting" => Waits
  /\ call = "answered" => /\ Quiet /\ reply = force
                          /\ Absorbs(reply, sent)
                          /\ reply.rbw = RbwFor(asked)

SessionInv == SessionTyped /\ (~failed => CallInv)
-----------------------------------------------------------------------------
(* Plans laid over plans.                                                  *)

LEMMA PlanFields ==
  ASSUME NEW p \in Plans
  PROVE  /\ IsRbw(p.rbw) /\ p.rbw \in Nat /\ p.vbw \in Nat /\ p.img \in BOOLEAN
         /\ p.vbw \in Positive /\ p.span \in Values
BY DEF Plans, IsPlan, IsPatch, Fields, IsRbw, Positive

LEMMA PatchFields ==
  ASSUME NEW q \in Patches
  PROVE  /\ DOMAIN q \subseteq Fields
         /\ Has(q, "rbw") => IsRbw(q.rbw)
         /\ Has(q, "vbw") => q.vbw \in Positive
         /\ Has(q, "img") => q.img \in BOOLEAN
         /\ \A f \in DOMAIN q : q[f] \in Values
BY DEF Patches, IsPatch, Has

LEMMA MakePlan ==
  ASSUME NEW p \in [Fields -> Values], IsRbw(p.rbw), p.vbw \in Positive, p.img \in BOOLEAN
  PROVE  p \in Plans
BY DEF Plans, IsPlan, IsPatch

LEMMA LimitedIsLimit ==
  ASSUME NEW p \in Plans
  PROVE  /\ Limited(p) \in Limits
         /\ \A f \in Fields \ {"vbw"} : Limited(p)[f] = p[f]
         /\ Limited(p).vbw = IF p.vbw > p.rbw THEN p.rbw ELSE p.vbw
<1>1. p \in [Fields -> Values] BY DEF Plans
<1>2. /\ IsRbw(p.rbw) /\ p.rbw \in Nat /\ p.vbw \in Nat /\ p.img \in BOOLEAN
      /\ p.vbw \in Positive
  BY PlanFields
<1>3. /\ \A f \in Fields \ {"vbw"} : Limited(p)[f] = p[f]
      /\ Limited(p).vbw = IF p.vbw > p.rbw THEN p.rbw ELSE p.vbw
  BY <1>1 DEF Limited, Fields
<1>4. p.rbw \in Positive BY <1>2 DEF IsRbw
<1>5. Limited(p) \in [Fields -> Values]
  BY <1>1, <1>2 DEF Limited, Values, Fields
<1>6. Limited(p).rbw = p.rbw /\ Limited(p).img = p.img BY <1>3 DEF Fields
<1>7. Limited(p) \in Plans BY <1>2, <1>3, <1>4, <1>5, <1>6, MakePlan
<1>8. Limited(p).vbw <= Limited(p).rbw BY <1>2, <1>3, <1>6
<1>. QED BY <1>3, <1>7, <1>8 DEF Limits

LEMMA LimitedOfLimit ==
  ASSUME NEW p \in Limits PROVE Limited(p) = p
<1>1. p \in [Fields -> Values] /\ p.vbw \in Nat /\ p.rbw \in Nat /\ p.vbw <= p.rbw
  BY PlanFields DEF Limits, Plans
<1>. QED BY <1>1 DEF Limited

LEMMA SamePlan ==
  ASSUME NEW p \in Plans, NEW q \in Plans, \A f \in Fields : p[f] = q[f]
  PROVE  p = q
BY DEF Plans

\* What an answer echoes, it absorbs: the video bandwidth as it was limited.
LEMMA AnsweredAbsorbs ==
  ASSUME NEW r \in Plans, NEW q \in Patches, Answers(r, q)
  PROVE  Absorbs(Limited(r), q)
<1>1. DOMAIN q \subseteq Fields BY PatchFields
<1>2. Limited(r).rbw = r.rbw BY LimitedIsLimit DEF Fields
<1>. QED BY <1>1, <1>2, LimitedIsLimit DEF Absorbs, Answers

LEMMA LastSetter ==
  ASSUME NEW lines \in Seq(Lines), NEW f, Setters(lines, f) # {}
  PROVE  LET m == Max(Setters(lines, f)) IN
         /\ m \in DOMAIN lines /\ SetsPlan(lines[m])
         /\ lines[m].patch \in Patches /\ f \in DOMAIN lines[m].patch
         /\ \A j \in Setters(lines, f) : j <= m
<1>1. DOMAIN lines = 1 .. Len(lines) /\ Len(lines) \in Nat OBVIOUS
<1>2. Setters(lines, f) \in SUBSET (1 .. Len(lines)) BY <1>1 DEF Setters
<1>3. PICK m : /\ m = Max(Setters(lines, f))
               /\ m \in Setters(lines, f)
               /\ \A j \in Setters(lines, f) : j <= m
  BY <1>1, <1>2, MaxInSet
<1>4. lines[m] \in Lines BY <1>1, <1>2, <1>3
<1>5. lines[m].patch \in Patches BY <1>3, <1>4 DEF Lines, Setters
<1>. QED BY <1>3, <1>5 DEF Setters, SetsPlan, Has

LEMMA LaidIsPlan ==
  ASSUME NEW p \in Plans, NEW lines \in Seq(Lines)
  PROVE  Laid(p, lines) \in Plans
<1>1. p \in [Fields -> Values] BY DEF Plans
<1>2. ASSUME NEW f \in Fields
      PROVE  /\ Laid(p, lines)[f] \in Values
             /\ f = "rbw" => IsRbw(Laid(p, lines)[f])
             /\ f = "vbw" => Laid(p, lines)[f] \in Positive
             /\ f = "img" => Laid(p, lines)[f] \in BOOLEAN
  <2>1. CASE Setters(lines, f) = {} BY <1>1, <2>1, PlanFields DEF Laid
  <2>2. CASE Setters(lines, f) # {}
    <3>1. PICK q \in Patches : f \in DOMAIN q /\ Laid(p, lines)[f] = q[f]
      BY <2>2, LastSetter DEF Laid
    <3>. QED BY <3>1, PatchFields DEF Has
  <2>. QED BY <2>1, <2>2
<1>3. Laid(p, lines) \in [Fields -> Values] BY <1>2 DEF Laid
<1>. QED BY <1>2, <1>3, MakePlan DEF Fields

LEMMA LaidSettled ==
  ASSUME force \in Limits, NEW lines \in Seq(Lines), Settled(force, lines)
  PROVE  Limited(Laid(force, lines)) = force
<1>1. force \in Plans /\ force.vbw <= force.rbw BY DEF Limits
<1>2. Laid(force, lines) \in Plans BY <1>1, LaidIsPlan
<1>3. ASSUME NEW f \in Fields
      PROVE  \/ Laid(force, lines)[f] = force[f]
             \/ f = "vbw" /\ Laid(force, lines)[f] > force.rbw /\ force.vbw = force.rbw
  <2>1. CASE Setters(lines, f) = {} BY <2>1 DEF Laid
  <2>2. CASE Setters(lines, f) # {}
    <3>1. PICK m \in DOMAIN lines : /\ SetsPlan(lines[m])
                                    /\ f \in DOMAIN lines[m].patch
                                    /\ Laid(force, lines)[f] = lines[m].patch[f]
      BY <2>2, LastSetter DEF Laid
    <3>2. force[f] = IF f = "vbw" /\ lines[m].patch[f] > force.rbw THEN force.rbw
                     ELSE lines[m].patch[f]
      BY <3>1 DEF Settled, Absorbs
    <3>. QED BY <3>1, <3>2
  <2>. QED BY <2>1, <2>2
<1>4. Laid(force, lines).rbw = force.rbw BY <1>3 DEF Fields
<1>5. /\ Laid(force, lines).vbw \in Nat /\ force.vbw \in Nat /\ force.rbw \in Nat
  BY <1>1, <1>2, PlanFields
<1>6. Limited(Laid(force, lines)).vbw = force.vbw
  BY <1>1, <1>2, <1>3, <1>4, <1>5, LimitedIsLimit DEF Fields
<1>7. \A f \in Fields : Limited(Laid(force, lines))[f] = force[f]
  BY <1>2, <1>3, <1>6, LimitedIsLimit
<1>. QED BY <1>1, <1>2, <1>7, LimitedIsLimit, SamePlan DEF Limits

\* Lines of which the last is the call's: either nothing changes, or the call
\* is answered.
LEMMA LaidLast ==
  ASSUME force \in Limits, NEW lines \in Seq(Lines), SettledButLast(force, sent, lines)
  PROVE  \/ Settled(force, lines)
         \/ /\ Answers(Laid(force, lines), sent)
            /\ ~Has(sent, "rbw") => Laid(force, lines).rbw = force.rbw
<1>1. SUFFICES ASSUME ~Settled(force, lines)
               PROVE  /\ Answers(Laid(force, lines), sent)
                      /\ ~Has(sent, "rbw") => Laid(force, lines).rbw = force.rbw
  OBVIOUS
<1>2. PICK i \in DOMAIN lines : /\ SetsPlan(lines[i])
                                /\ ~Absorbs(force, lines[i].patch)
  BY <1>1 DEF Settled
<1>3. /\ lines[i].patch = sent
      /\ \A j \in DOMAIN lines : j > i => ~SetsPlan(lines[j])
  BY <1>2 DEF SettledButLast
<1>4. DOMAIN lines = 1 .. Len(lines) /\ Len(lines) \in Nat OBVIOUS
<1>5. sent \in Patches
  <2>1. lines[i] \in Lines BY <1>4
  <2>. QED BY <1>2, <1>3, <2>1 DEF Lines, SetsPlan
<1>6. ASSUME NEW f \in DOMAIN sent PROVE Laid(force, lines)[f] = sent[f]
  <2>1. i \in Setters(lines, f) BY <1>2, <1>3 DEF Setters, SetsPlan, Has
  <2>2. PICK m \in DOMAIN lines : /\ SetsPlan(lines[m]) /\ i <= m
                                  /\ m = Max(Setters(lines, f))
    BY <2>1, LastSetter
  <2>3. m = i BY <1>3, <1>4, <2>2
  <2>4. f \in Fields BY <1>5, PatchFields
  <2>. QED BY <1>3, <2>1, <2>2, <2>3, <2>4 DEF Laid
<1>7. ASSUME ~Has(sent, "rbw") PROVE Laid(force, lines).rbw = force.rbw
  <2>1. CASE Setters(lines, "rbw") = {} BY <2>1 DEF Laid, Fields
  <2>2. CASE Setters(lines, "rbw") # {}
    <3>1. PICK m \in DOMAIN lines : /\ SetsPlan(lines[m])
                                    /\ "rbw" \in DOMAIN lines[m].patch
                                    /\ Laid(force, lines)["rbw"] = lines[m].patch["rbw"]
      BY <2>2, LastSetter DEF Laid, Fields
    <3>2. lines[m].patch # sent BY <1>7, <3>1 DEF Has
    <3>3. Absorbs(force, lines[m].patch) BY <3>1, <3>2 DEF SettledButLast
    <3>. QED BY <3>1, <3>3 DEF Absorbs
  <2>. QED BY <2>1, <2>2
<1>. QED BY <1>6, <1>7 DEF Answers

\* The plan to send.
LEMMA PlanForIsPatch ==
  ASSUME NEW cfg \in Requests, plan \in Plans, controls.avg \in Ratios,
         controls.img \in BOOLEAN
  PROVE  /\ PlanFor(cfg) \in Patches
         /\ Has(PlanFor(cfg), "rbw") <=> Has(cfg, "rbw")
         /\ Has(cfg, "rbw") => PlanFor(cfg).rbw = cfg.rbw
         /\ IsRbw(RbwFor(cfg))
         /\ \A a : Averaging(cfg) = {a} =>
              /\ a \in Ratios
              /\ Has(PlanFor(cfg), "vbw")
              /\ PlanFor(cfg).vbw \in Positive
              /\ RbwFor(cfg) = a * PlanFor(cfg).vbw
<1> DEFINE own == [f \in DOMAIN cfg \cap Fields |-> cfg[f]]
           q == PlanFor(cfg)
<1>1. /\ DOMAIN cfg \subseteq Fields \cup {"avg"}
      /\ IsPatch(own)
      /\ "avg" \in DOMAIN cfg => cfg.avg \in Ratios
  BY SessionAssumption
<1>2. \A f \in DOMAIN cfg \cap Fields : own[f] = cfg[f] OBVIOUS
<1>3. DOMAIN own = DOMAIN cfg \cap Fields OBVIOUS
<1>4. /\ Has(cfg, "rbw") => IsRbw(cfg.rbw)
      /\ Has(cfg, "vbw") => cfg.vbw \in Positive
      /\ Has(cfg, "img") => cfg.img \in BOOLEAN
      /\ Has(cfg, "span") => cfg.span \in Spans
  <2>1. Has(cfg, "span") => cfg.span \in Spans BY DEF Spans
  <2> HIDE DEF own
  <2>. QED BY <1>1, <1>2, <1>3, <2>1 DEF IsPatch, Has, Fields
<1>5. IsRbw(RbwFor(cfg)) BY <1>4, PlanFields DEF RbwFor
<1>6. Averaging(cfg) = {} \/ \E a \in Ratios : Averaging(cfg) = {a}
  BY <1>1 DEF Averaging, Has
<1>7. ASSUME NEW a, Averaging(cfg) = {a}
      PROVE  /\ a \in Ratios /\ (CHOOSE x \in Averaging(cfg) : TRUE) = a
             /\ RbwFor(cfg) \div a \in Positive
             /\ RbwFor(cfg) = a * (RbwFor(cfg) \div a)
  <2>1. a \in Ratios BY <1>6, <1>7
  <2>2. a \in Nat /\ a > 0 BY <2>1, SessionAssumption DEF Positive
  <2>3. RbwFor(cfg) \in Nat /\ RbwFor(cfg) > 0 /\ RbwFor(cfg) % a = 0
    BY <1>5, <2>1 DEF IsRbw, Positive
  <2>4. \A x \in Nat, y \in Nat : y > 0 => x = y * (x \div y) + (x % y) /\ x \div y \in Int
    OBVIOUS
  <2>5. /\ RbwFor(cfg) = a * (RbwFor(cfg) \div a) + (RbwFor(cfg) % a)
        /\ RbwFor(cfg) \div a \in Int
    BY <2>2, <2>3, <2>4
  <2>6. RbwFor(cfg) = a * (RbwFor(cfg) \div a) BY <2>2, <2>3, <2>5
  <2>7. RbwFor(cfg) \div a \in Positive
    <3> DEFINE d == RbwFor(cfg) \div a
    <3>1. a * d > 0 /\ d \in Int BY <2>3, <2>5, <2>6
    <3> HIDE DEF d
    <3>2. d > 0 BY <2>2, <3>1
    <3>. QED BY <3>1, <3>2 DEF Positive, d
  <2>. QED BY <1>7, <2>1, <2>6, <2>7
<1>8. DOMAIN q = (DOMAIN cfg \cap Fields) \cup {v \in {"vbw"} : Averaging(cfg) # {}}
                   \cup {i \in {"img"} : Policy(cfg)}
  BY DEF PlanFor
<1>9. \A f \in DOMAIN q :
        q[f] = IF f = "vbw" /\ Averaging(cfg) # {}
               THEN RbwFor(cfg) \div (CHOOSE a \in Averaging(cfg) : TRUE)
               ELSE IF f = "img" /\ Policy(cfg) THEN controls.img ELSE cfg[f]
  BY DEF PlanFor
<1>10. q = [f \in DOMAIN q |-> q[f]] BY DEF PlanFor
<1> HIDE DEF q, own
<1>11. DOMAIN q \subseteq Fields BY <1>8 DEF Fields
<1>12. /\ Has(q, "rbw") <=> Has(cfg, "rbw")
       /\ Has(cfg, "rbw") => q.rbw = cfg.rbw
  BY <1>8, <1>9 DEF Has, Fields
<1>13. \A a : Averaging(cfg) = {a} => /\ Has(q, "vbw") /\ q.vbw = RbwFor(cfg) \div a
  BY <1>7, <1>8, <1>9 DEF Has
<1>14. Has(q, "vbw") => q.vbw \in Positive
  <2>1. CASE Averaging(cfg) = {} BY <1>4, <1>8, <1>9, <2>1 DEF Has, Fields
  <2>2. CASE Averaging(cfg) # {} BY <1>6, <1>7, <1>13, <2>2
  <2>. QED BY <2>1, <2>2
<1>15. Has(q, "img") => q.img \in BOOLEAN BY <1>4, <1>8, <1>9 DEF Has, Fields, Policy
<1>16. Has(q, "span") => q.span \in Spans BY <1>4, <1>8, <1>9 DEF Has, Fields
<1>17. IsPatch(q) BY <1>4, <1>10, <1>11, <1>12, <1>14, <1>15 DEF IsPatch, Has
<1>18. \A f \in DOMAIN q : q[f] \in Values
  BY <1>4, <1>11, <1>12, <1>14, <1>15, <1>16 DEF Has, Fields, Values, IsRbw, Positive
<1>19. q \in [DOMAIN q -> Values] /\ DOMAIN q \in SUBSET Fields BY <1>10, <1>11, <1>18
<1>20. q \in Patches BY <1>17, <1>19 DEF Patches
<1>. QED BY <1>5, <1>7, <1>12, <1>13, <1>20 DEF q
-----------------------------------------------------------------------------
(* Types.                                                                  *)

LEMMA DefaultIsLimit == Default \in Limits
<1>1. Default.span \in Values BY DEF Values, Spans
<1>2. /\ Default = [f \in Fields |-> Default[f]] /\ IsPlan(Default)
      /\ IsRbw(Default.rbw) /\ Default.vbw \in Positive /\ Default.img \in BOOLEAN
      /\ Default.vbw <= Default.rbw
  BY SessionAssumption DEF IsPlan, IsPatch, Fields
<1>3. \A f \in Fields : Default[f] \in Values
  BY <1>1, <1>2 DEF Fields, Values, IsRbw, Positive
<1>4. Default \in [Fields -> Values] BY <1>2, <1>3
<1>. QED BY <1>2, <1>4 DEF Limits, Plans

LEMMA NothingIsPatch == Nothing \in Patches /\ DOMAIN Nothing = {}
<1>1. DOMAIN Nothing = {} /\ Nothing = [f \in {} |-> Nothing[f]] BY DEF Nothing
<1>2. Nothing \in [{} -> Values] BY <1>1
<1>. QED BY <1>1, <1>2 DEF Patches, IsPatch

LEMMA AppliedIsFrame ==
  ASSUME NEW p \in Plans PROVE Applied(p) \in Frames /\ Answer(Applied(p))
BY LimitedIsLimit DEF Applied, Frames, Answer

LEMMA GridOfPlan == ASSUME NEW p \in Plans PROVE Grid(p) \in Grids
BY PlanFields, SessionAssumption DEF Grid, Grids, Values, Positive

LEMMA SweepIsFrame ==
  ASSUME NEW grid \in Grids
  PROVE  SweepFrame(grid) \in Frames /\ ~Answer(SweepFrame(grid))
BY DEF SweepFrame, Frames, Answer

LEMMA AnswerFields ==
  ASSUME NEW f \in Frames
  PROVE  /\ Answer(f) => /\ f.requested \in Plans /\ f.applied \in Limits
                         /\ f.applied = Limited(f.requested)
         /\ f.type = "applied" <=> Answer(f)
BY DEF Frames, Answer

LEMMA LimitIsPlan == ASSUME NEW p \in Limits PROVE p \in Plans
BY DEF Limits

LEMMA InitTyped == Init => SessionTyped
<1>. SUFFICES ASSUME Init PROVE SessionTyped OBVIOUS
<1>1. Default \in Limits BY DefaultIsLimit
<1>2. Default.rbw \in Nat /\ Default.vbw \in Nat BY <1>1, LimitIsPlan, PlanFields
<1>3. AveragingId(Default) \in Ratios BY <1>2, NearestExists
<1>4. commands \in Seq(Lines) /\ Len(commands) <= MaxLines + 1
  <2>1. [cmd |-> "setPlan", patch |-> Nothing] \in Lines BY NothingIsPatch DEF Lines
  <2>2. MaxLines \in Nat BY SessionAssumption
  <2>. QED BY <2>1, <2>2 DEF Init
<1>5. early \in Seq(Lines) /\ frames \in Seq(Frames) BY DEF Init
<1>6. 0 \in 0 .. MaxCalls BY SessionAssumption
<1>. QED BY <1>1, <1>3, <1>4, <1>5, <1>6, SessionAssumption DEF Init, SessionTyped

\* What the adapter's call holds is not changed.
LEMMA TypedCall ==
  ASSUME SessionTyped, UNCHANGED <<plan, controls, calls>>,
         call' \in {"idle", "waiting", "answered"},
         call' # "idle" => call # "idle" /\ UNCHANGED <<asked, sent>>,
         call' = "answered" => reply' \in Limits
  PROVE  /\ plan' \in Limits
         /\ (controls.avg)' \in Ratios /\ (controls.img)' \in BOOLEAN
         /\ (call \in {"idle", "waiting", "answered"})'
         /\ (call # "idle" => asked \in Requests /\ sent = PlanFor(asked))'
         /\ (call = "answered" => reply \in Limits)'
         /\ (calls \in 0 .. MaxCalls)'
<1>1. PlanFor(asked)' = PlanFor(asked') BY DEF PlanFor, Averaging, Policy, RbwFor
<1>2. \A c : (PlanFor(c))' = PlanFor(c)
  BY DEF PlanFor, Averaging, Policy, RbwFor
<1>. QED BY <1>2 DEF SessionTyped

LEMMA LimitedIsTyped ==
  ASSUME force \in Limits, NEW lines \in Seq(Lines)
  PROVE  /\ Laid(force, lines) \in Plans /\ Limited(Laid(force, lines)) \in Limits
         /\ Applied(Laid(force, lines)) \in Frames
BY LimitIsPlan, LaidIsPlan, LimitedIsLimit, AppliedIsFrame

LEMMA NextTyped == SessionTyped /\ [Next]_vars => SessionTyped'
<1>. SUFFICES ASSUME SessionTyped, [Next]_vars PROVE SessionTyped' OBVIOUS
<1>1. /\ plan \in Limits /\ force \in Limits /\ plan \in Plans /\ force \in Plans
      /\ MaxLines \in Nat /\ MaxCalls \in Nat
  BY LimitIsPlan, SessionAssumption DEF SessionTyped
<1>2. ASSUME NEW cfg \in Requests, ApplyConfig(cfg) PROVE SessionTyped'
  <2>1. PlanFor(cfg) \in Patches BY <1>1, PlanForIsPatch DEF SessionTyped
  <2>2. [cmd |-> "setPlan", patch |-> sent'] \in Lines
    BY <1>2, <2>1 DEF ApplyConfig, Lines
  <2>3. (PlanFor(asked))' = PlanFor(cfg)
    BY <1>2 DEF ApplyConfig, PlanFor, Averaging, Policy, RbwFor
  <2>4. commands' \in Seq(Lines) /\ Len(commands') <= MaxLines + 1
    BY <1>1, <1>2, <2>2 DEF ApplyConfig, SessionTyped
  <2>5. calls' \in 0 .. MaxCalls BY <1>1, <1>2 DEF ApplyConfig, SessionTyped
  <2>. QED BY <1>2, <2>3, <2>4, <2>5 DEF ApplyConfig, SessionTyped, engine
<1>3. CASE Echo
  <2>1. AveragingId(reply) \in Ratios /\ reply.img \in BOOLEAN /\ reply \in Limits
    BY <1>3, LimitIsPlan, PlanFields, NearestExists DEF Echo, SessionTyped
  <2>. QED BY <1>3, <2>1 DEF Echo, SessionTyped, engine
<1>4. CASE PlanTimesOut
  BY <1>4, TypedCall DEF PlanTimesOut, SessionTyped, engine
<1>5. CASE StartSweep \/ StopSweep
  <2>1. [cmd |-> "start"] \in Lines /\ [cmd |-> "stop"] \in Lines BY DEF Lines
  <2>2. PICK c \in Lines : commands' = Append(commands, c) /\ Len(commands) < MaxLines
    BY <1>5, <2>1 DEF StartSweep, StopSweep
  <2>3. commands' \in Seq(Lines) /\ Len(commands') <= MaxLines + 1
    BY <1>1, <2>2 DEF SessionTyped
  <2>. QED BY <1>5, <2>3, TypedCall DEF StartSweep, StopSweep, SessionTyped, session, engine
<1>6. CASE Deliver
  <2>1. frames' \in Seq(Frames) /\ Head(frames) \in Frames
    BY <1>6 DEF Deliver, SessionTyped
  <2>2. call' = "answered" => reply' \in Limits
    BY <1>6, <2>1, AnswerFields DEF Deliver, SessionTyped
  <2>. QED BY <1>6, <2>1, <2>2, TypedCall DEF Deliver, SessionTyped, engine
<1>7. CASE FakeTakes
  <2>1. /\ commands' \in Seq(Lines) /\ Len(commands') <= MaxLines + 1
        /\ Head(commands) \in Lines
    BY <1>1, <1>7 DEF FakeTakes, SessionTyped
  <2>2. <<Head(commands)>> \in Seq(Lines) BY <2>1
  <2>3. early' \in Seq(Lines) /\ (~starting => early' = <<>>)
    <3>1. early' = early \/ (starting /\ early' = Append(early, Head(commands)))
      BY <1>7 DEF FakeTakes
    <3>2. early \in Seq(Lines) /\ (~starting => early = <<>>) BY DEF SessionTyped
    <3>. QED BY <2>1, <3>1, <3>2
  <2>4. force' \in Limits /\ frames' \in Seq(Frames)
    <3> DEFINE laid == Laid(force, <<Head(commands)>>)
    <3>1. /\ force' = force \/ force' = Limited(laid)
          /\ frames' = frames \/ frames' = Append(frames, Applied(laid))
      BY <1>7 DEF FakeTakes, FakeApplies
    <3>2. Limited(laid) \in Limits /\ Applied(laid) \in Frames
      BY <1>1, <2>2, LimitedIsTyped
    <3>3. frames \in Seq(Frames) BY DEF SessionTyped
    <3> HIDE DEF laid
    <3>. QED BY <1>1, <3>1, <3>2, <3>3
  <2>. QED BY <1>7, <2>1, <2>3, <2>4, TypedCall DEF FakeTakes, SessionTyped, adapter, session
<1>8. CASE FakeAnnounces
  <2>1. early \in Seq(Lines) BY DEF SessionTyped
  <2>2. force' \in Limits BY <1>1, <1>8, <2>1, LimitedIsTyped DEF FakeAnnounces
  <2>3. frames' \in Seq(Frames)
    <3>1. Applied(force) \in Frames /\ Applied(Laid(force, early)) \in Frames
      BY <1>1, <2>1, AppliedIsFrame, LimitedIsTyped
    <3>2. frames \in Seq(Frames) BY DEF SessionTyped
    <3>3. PICK tail \in Seq(Frames) : frames' = (frames \o <<Applied(force)>>) \o tail
      <4>1. <<>> \in Seq(Frames) /\ <<Applied(Laid(force, early))>> \in Seq(Frames)
        BY <3>1
      <4>. QED BY <1>8, <4>1 DEF FakeAnnounces
    <3>4. <<Applied(force)>> \in Seq(Frames) BY <3>1
    <3>5. frames \o <<Applied(force)>> \in Seq(Frames) BY <3>2, <3>4, ConcatProperties
    <3>6. (frames \o <<Applied(force)>>) \o tail \in Seq(Frames)
      BY <3>3, <3>5, ConcatProperties
    <3>. QED BY <3>3, <3>6
  <2>4. /\ early' = <<>> /\ early' \in Seq(Lines) /\ starting' = FALSE
        /\ UNCHANGED <<plan, controls, call, asked, sent, reply, calls, commands, kind,
                       unsent>>
    BY <1>8 DEF FakeAnnounces, adapter, session
  <2>. QED BY <2>2, <2>3, <2>4, TypedCall DEF SessionTyped
<1>9. CASE FakeSweeps \/ RealSends
  <2>1. frames' \in Seq(Frames)
    <3>1. frames \in Seq(Frames) BY DEF SessionTyped
    <3>2. PICK grid \in Grids : frames' = Append(frames, SweepFrame(grid))
      BY <1>1, <1>9, GridOfPlan DEF FakeSweeps, RealSends, SessionTyped
    <3>. QED BY <3>1, <3>2, SweepIsFrame
  <2>2. unsent' \in Grids \cup {None}
    BY <1>9 DEF FakeSweeps, RealSends, SessionTyped, engine
  <2>. QED BY <1>9, <2>1, <2>2, TypedCall
       DEF FakeSweeps, RealSends, SessionTyped, adapter, session, engine
<1>12. CASE RealSweepEnds
  <2>1. unsent' \in Grids \cup {None} BY <1>1, <1>12, GridOfPlan DEF RealSweepEnds
  <2>. QED BY <1>12, <2>1, TypedCall
       DEF RealSweepEnds, SessionTyped, adapter, session
<1>10. CASE RealLoop
  <2>1. commands \in Seq(Lines) /\ frames \in Seq(Frames) BY DEF SessionTyped
  <2>2. force' \in Limits /\ frames' \in Seq(Frames)
    <3>1. \/ force' = force /\ frames' = frames
          \/ force' = Limited(Batch) /\ frames' = Append(frames, Applied(Batch))
      BY <1>10 DEF RealLoop
    <3>2. Limited(Batch) \in Limits /\ Applied(Batch) \in Frames
      BY <1>1, <2>1, LimitedIsTyped DEF Batch
    <3>. QED BY <1>1, <2>1, <3>1, <3>2
  <2>3. commands' \in Seq(Lines) /\ Len(commands') = 0 BY <1>10 DEF RealLoop
  <2>. QED BY <1>1, <1>10, <2>2, <2>3, TypedCall DEF RealLoop, SessionTyped, adapter, session
<1>11. CASE UNCHANGED vars
  BY <1>11, TypedCall DEF vars, adapter, session, engine, SessionTyped
<1>. QED BY <1>2, <1>3, <1>4, <1>5, <1>6, <1>7, <1>8, <1>9, <1>10, <1>11, <1>12
        DEF Next
-----------------------------------------------------------------------------
(* What is under way.                                                      *)

LEMMA SettledPart ==
  ASSUME NEW p, NEW s, NEW lines \in Seq(Lines), lines # <<>>
  PROVE  /\ Settled(p, lines) => /\ Settled(p, Tail(lines)) /\ Settled(p, <<Head(lines)>>)
         /\ SettledButLast(p, s, lines) =>
              /\ SettledButLast(p, s, Tail(lines)) /\ SettledButLast(p, s, <<Head(lines)>>)
              /\ Settled(p, <<Head(lines)>>) \/ NoPlans(Tail(lines))
         /\ NoPlans(lines) => /\ NoPlans(Tail(lines)) /\ ~SetsPlan(Head(lines))
<1>1. /\ Len(lines) \in Nat /\ Len(lines) >= 1 /\ DOMAIN lines = 1 .. Len(lines)
      /\ Tail(lines) \in Seq(Lines) /\ DOMAIN Tail(lines) = 1 .. Len(lines) - 1
      /\ Head(lines) = lines[1]
      /\ \A i \in 1 .. Len(lines) - 1 : Tail(lines)[i] = lines[i + 1]
  OBVIOUS
<1>2. DOMAIN <<Head(lines)>> = {1} /\ <<Head(lines)>>[1] = lines[1] BY <1>1
<1>3. \A i \in DOMAIN Tail(lines) : i + 1 \in DOMAIN lines /\ Tail(lines)[i] = lines[i + 1]
  BY <1>1
<1>4. 1 \in DOMAIN lines BY <1>1
<1>5. Settled(p, lines) => Settled(p, Tail(lines)) /\ Settled(p, <<Head(lines)>>)
  BY <1>2, <1>3, <1>4 DEF Settled
<1>6. NoPlans(lines) => NoPlans(Tail(lines)) /\ ~SetsPlan(Head(lines))
  BY <1>1, <1>3, <1>4 DEF NoPlans
<1>7. ASSUME SettledButLast(p, s, lines)
      PROVE  /\ SettledButLast(p, s, Tail(lines)) /\ SettledButLast(p, s, <<Head(lines)>>)
             /\ Settled(p, <<Head(lines)>>) \/ NoPlans(Tail(lines))
  <2>1. SettledButLast(p, s, Tail(lines))
    <3>1. SUFFICES ASSUME NEW i \in DOMAIN Tail(lines), SetsPlan(Tail(lines)[i]),
                          ~Absorbs(p, Tail(lines)[i].patch)
                   PROVE  /\ Tail(lines)[i].patch = s
                          /\ \A j \in DOMAIN Tail(lines) : j > i => ~SetsPlan(Tail(lines)[j])
      BY DEF SettledButLast
    <3>2. /\ lines[i + 1].patch = s
          /\ \A j \in DOMAIN lines : j > i + 1 => ~SetsPlan(lines[j])
      BY <1>3, <1>7, <3>1 DEF SettledButLast
    <3>. QED BY <1>1, <1>3, <3>2
  <2>2. SettledButLast(p, s, <<Head(lines)>>) BY <1>2, <1>4, <1>7 DEF SettledButLast
  <2>3. ASSUME ~Settled(p, <<Head(lines)>>) PROVE NoPlans(Tail(lines))
    <3>1. SetsPlan(lines[1]) /\ ~Absorbs(p, lines[1].patch)
      BY <1>2, <2>3 DEF Settled
    <3>2. \A j \in DOMAIN lines : j > 1 => ~SetsPlan(lines[j])
      BY <1>4, <1>7, <3>1 DEF SettledButLast
    <3>. QED BY <1>1, <1>3, <3>2 DEF NoPlans
  <2>. QED BY <2>1, <2>2, <2>3
<1>. QED BY <1>5, <1>6, <1>7

LEMMA SettledMore ==
  ASSUME NEW p, NEW s, NEW lines \in Seq(Lines), NEW c \in Lines
  PROVE  /\ Settled(p, lines) /\ (SetsPlan(c) => Absorbs(p, c.patch))
              => Settled(p, Append(lines, c))
         /\ Settled(p, lines) /\ (SetsPlan(c) => c.patch = s)
              => SettledButLast(p, s, Append(lines, c))
         /\ SettledButLast(p, s, lines) /\ ~SetsPlan(c) => SettledButLast(p, s, Append(lines, c))
         /\ NoPlans(lines) /\ ~SetsPlan(c) => NoPlans(Append(lines, c))
<1>1. /\ Len(lines) \in Nat /\ DOMAIN lines = 1 .. Len(lines)
      /\ DOMAIN Append(lines, c) = 1 .. Len(lines) + 1
      /\ \A i \in 1 .. Len(lines) : Append(lines, c)[i] = lines[i]
      /\ Append(lines, c)[Len(lines) + 1] = c
  OBVIOUS
<1>2. \A i \in DOMAIN Append(lines, c) :
        \/ i \in DOMAIN lines /\ Append(lines, c)[i] = lines[i]
        \/ i = Len(lines) + 1 /\ Append(lines, c)[i] = c
  BY <1>1
<1>3. \A i \in DOMAIN lines : i < Len(lines) + 1 BY <1>1
<1>4. Settled(p, lines) /\ (SetsPlan(c) => Absorbs(p, c.patch)) => Settled(p, Append(lines, c))
  BY <1>2 DEF Settled
<1>5. NoPlans(lines) /\ ~SetsPlan(c) => NoPlans(Append(lines, c))
  BY <1>2 DEF NoPlans
<1>6. ASSUME Settled(p, lines), SetsPlan(c) => c.patch = s
      PROVE  SettledButLast(p, s, Append(lines, c))
  <2>1. \A j \in DOMAIN Append(lines, c) : ~(j > Len(lines) + 1) BY <1>1
  <2>. QED BY <1>2, <1>6, <2>1 DEF Settled, SettledButLast
<1>7. ASSUME SettledButLast(p, s, lines), ~SetsPlan(c) PROVE SettledButLast(p, s, Append(lines, c))
  BY <1>2, <1>7 DEF SettledButLast
<1>. QED BY <1>4, <1>5, <1>6, <1>7

LEMMA NoPlansSettled ==
  ASSUME NEW p, NEW s, NEW lines, NoPlans(lines) PROVE Settled(p, lines) /\ SettledButLast(p, s, lines)
BY DEF NoPlans, Settled, SettledButLast

LEMMA SettledIsButLast ==
  ASSUME NEW p, NEW s, NEW lines, Settled(p, lines) PROVE SettledButLast(p, s, lines)
BY DEF Settled, SettledButLast

\* Before the call's line is taken nothing passes for its answer that is not.
LEMMA EarlyAnswerSettles ==
  ASSUME NEW p, NEW s, NEW lines \in Seq(Lines), SettledButLast(p, s, lines), Absorbs(p, s)
  PROVE  Settled(p, lines)
BY DEF SettledButLast, Settled
-----------------------------------------------------------------------------
(* An engine that takes lines.                                             *)

\* Frames are only added at the end, and what is announced is the plan as it
\* was or as it is with the lines laid over it, in this order.
Announces(lines) ==
  /\ Len(frames') \in Nat /\ Len(frames) <= Len(frames')
  /\ \A i \in DOMAIN frames : i \in DOMAIN frames' /\ frames'[i] = frames[i]
  /\ \A i \in DOMAIN frames' :
       Answer(frames'[i]) =>
         \/ i \in DOMAIN frames
         \/ frames'[i] = Applied(Laid(force, lines))
         \/ /\ frames'[i] = Applied(force)
            /\ \A j \in DOMAIN frames' :
                 j <= i => j \in DOMAIN frames \/ frames'[j] = Applied(force)

\* With nothing under way the plan stays and is announced again.
LEMMA QuietApplies ==
  ASSUME force \in Limits, NEW lines \in Seq(Lines), Settled(force, lines),
         force' = Limited(Laid(force, lines)), Announces(lines),
         \A i \in DOMAIN frames : Answer(frames[i]) => frames[i].applied = force
  PROVE  /\ force' = force
         /\ \A i \in DOMAIN frames' : Answer(frames'[i]) => frames'[i].applied = force
<1>1. force' = force BY LaidSettled
<1>2. Applied(Laid(force, lines)).applied = force BY LaidSettled DEF Applied
<1>3. Applied(force).applied = force BY LimitedOfLimit DEF Applied
<1>. QED BY <1>1, <1>2, <1>3 DEF Announces

\* With a call waiting whatever answers it is of the plan as it now is.
LEMMA WaitsApplies ==
  ASSUME SessionTyped, call = "waiting", Waits,
         NEW lines \in Seq(Lines), SettledButLast(force, sent, lines),
         force' = Limited(Laid(force, lines)), Announces(lines),
         UNCHANGED <<plan, asked, sent>>
  PROVE  /\ Settled(force, lines) => force' = force
         /\ \A i \in DOMAIN frames', j \in DOMAIN frames' :
              (/\ Answer(frames'[i]) /\ Answers(frames'[i].requested, sent')
               /\ i <= j /\ Answer(frames'[j]))
                => frames'[j].applied = force'
         /\ ~Has(asked', "rbw") =>
              /\ force'.rbw = plan'.rbw
              /\ \A i \in DOMAIN frames' :
                   Answer(frames'[i]) => frames'[i].applied.rbw = plan'.rbw
<1>1. /\ force \in Limits /\ force \in Plans /\ plan \in Plans /\ frames \in Seq(Frames)
      /\ asked \in Requests /\ sent = PlanFor(asked) /\ sent \in Patches
      /\ Has(sent, "rbw") <=> Has(asked, "rbw")
  BY LimitIsPlan, PlanForIsPatch DEF SessionTyped
<1>2. /\ Laid(force, lines) \in Plans
      /\ force'.rbw = Laid(force, lines).rbw
  BY <1>1, LaidIsPlan, LimitedIsLimit DEF Fields
<1>3. Settled(force, lines) => force' = force BY <1>1, LaidSettled
<1>4. /\ Applied(force).applied = force /\ Applied(force).requested = force
      /\ Applied(Laid(force, lines)).applied = force'
      /\ Applied(Laid(force, lines)).requested = Laid(force, lines)
  BY <1>1, LimitedOfLimit DEF Applied
<1>5. DOMAIN frames = 1 .. Len(frames) /\ Len(frames) \in Nat BY <1>1
<1>6. ASSUME NEW i \in DOMAIN frames,
             Answer(frames[i]), Answers(frames[i].requested, sent)
      PROVE  force' = force
  <2>1. frames[i] \in Frames BY <1>1, <1>5
  <2>2. frames[i].requested \in Plans /\ frames[i].applied = Limited(frames[i].requested)
    BY <1>6, <2>1, AnswerFields
  <2>3. frames[i].applied = force BY <1>5, <1>6 DEF Waits
  <2>4. Absorbs(force, sent) BY <1>1, <1>6, <2>2, <2>3, AnsweredAbsorbs
  <2>. QED BY <1>3, <2>4, EarlyAnswerSettles
<1>7. Answers(force, sent) => force' = force
  <2>1. ASSUME Answers(force, sent) PROVE Absorbs(force, sent)
    BY <1>1, <2>1, AnsweredAbsorbs, LimitedOfLimit
  <2>. QED BY <1>3, <2>1, EarlyAnswerSettles
<1>8. ASSUME NEW i \in DOMAIN frames', NEW j \in DOMAIN frames',
             Answer(frames'[i]), Answers(frames'[i].requested, sent),
             i <= j, Answer(frames'[j])
      PROVE  frames'[j].applied = force'
  <2>1. CASE j \in DOMAIN frames
    <3>1. i \in DOMAIN frames
      <4>1. i \in DOMAIN frames \/ ~(i \in 1 .. Len(frames)) BY <1>5
      <4>2. DOMAIN frames' = 1 .. Len(frames') \/ i \in DOMAIN frames
        BY DEF Announces
      <4>. QED BY <1>5, <2>1, <1>8, <4>2 DEF Announces
    <3>2. frames'[i] = frames[i] /\ frames'[j] = frames[j] BY <2>1, <3>1 DEF Announces
    <3>3. frames[j].applied = force BY <1>8, <2>1, <3>1, <3>2 DEF Waits
    <3>. QED BY <1>6, <1>8, <3>1, <3>2, <3>3
  <2>2. CASE frames'[j] = Applied(Laid(force, lines)) BY <1>4, <2>2
  <2>3. CASE /\ frames'[j] = Applied(force)
             /\ i \in DOMAIN frames \/ frames'[i] = Applied(force)
    <3>1. force' = force
      <4>1. CASE i \in DOMAIN frames
        <5>1. frames'[i] = frames[i] BY <4>1 DEF Announces
        <5>. QED BY <1>6, <1>8, <4>1, <5>1
      <4>2. CASE frames'[i] = Applied(force) BY <1>4, <1>7, <1>8, <4>2
      <4>. QED BY <2>3, <4>1, <4>2
    <3>. QED BY <1>4, <2>3, <3>1
  <2>. QED BY <1>8, <2>1, <2>2, <2>3 DEF Announces
<1>9. ASSUME ~Has(asked, "rbw")
      PROVE  /\ force'.rbw = plan.rbw
             /\ \A i \in DOMAIN frames' :
                  Answer(frames'[i]) => frames'[i].applied.rbw = plan.rbw
  <2>1. force.rbw = plan.rbw BY <1>9 DEF Waits
  <2>2. force'.rbw = force.rbw
    <3>1. CASE Settled(force, lines) BY <1>3, <3>1
    <3>2. CASE ~Settled(force, lines) BY <1>1, <1>2, <1>9, <3>2, LaidLast
    <3>. QED BY <3>1, <3>2
  <2>3. ASSUME NEW i \in DOMAIN frames', Answer(frames'[i])
        PROVE  frames'[i].applied.rbw = plan.rbw
    <3>1. CASE i \in DOMAIN frames
      <4>1. frames'[i] = frames[i] BY <3>1 DEF Announces
      <4>. QED BY <1>9, <2>3, <3>1, <4>1 DEF Waits
    <3>2. CASE frames'[i] = Applied(Laid(force, lines)) BY <1>4, <2>1, <2>2, <3>2
    <3>3. CASE frames'[i] = Applied(force) BY <1>4, <2>1, <3>3
    <3>. QED BY <2>3, <3>1, <3>2, <3>3 DEF Announces
  <2>. QED BY <2>1, <2>2, <2>3
<1>. QED BY <1>3, <1>8, <1>9
-----------------------------------------------------------------------------
(* Every step of the adapter and of the engine.                            *)

LEMMA FrameAppended ==
  ASSUME frames \in Seq(Frames), NEW f \in Frames, frames' = Append(frames, f)
  PROVE  /\ Len(frames) \in Nat /\ Len(frames') = Len(frames) + 1
         /\ DOMAIN frames = 1 .. Len(frames) /\ DOMAIN frames' = 1 .. Len(frames')
         /\ \A i \in DOMAIN frames : i \in DOMAIN frames' /\ frames'[i] = frames[i]
         /\ \A i \in DOMAIN frames' :
              i \in DOMAIN frames \/ (i = Len(frames') /\ frames'[i] = f)
<1>1. Append(frames, f) \in Seq(Frames) BY AppendProperties
<1>2. frames' \in Seq(Frames) BY <1>1
<1>3. /\ Len(frames) \in Nat /\ Len(frames') = Len(frames) + 1
      /\ DOMAIN frames = 1 .. Len(frames) /\ DOMAIN frames' = 1 .. Len(frames')
  BY <1>2
<1>4. /\ \A i \in 1 .. Len(frames) : frames'[i] = frames[i]
      /\ frames'[Len(frames) + 1] = f
  BY <1>3
<1>. QED BY <1>3, <1>4

\* A sweep that is sent settles nothing and unsettles nothing.
LEMMA SweepKeeps ==
  ASSUME SessionTyped, CallInv, NEW grid \in Grids,
         frames' = Append(frames, SweepFrame(grid)),
         UNCHANGED <<adapter, commands, force, early>>
  PROVE  CallInv'
<1>1. /\ \A i \in DOMAIN frames : i \in DOMAIN frames' /\ frames'[i] = frames[i]
      /\ \A i \in DOMAIN frames' : Answer(frames'[i]) => i \in DOMAIN frames
  BY FrameAppended, SweepIsFrame, LimitIsPlan DEF SessionTyped
<1>2. Quiet => Quiet' BY <1>1 DEF Quiet, Settled
<1>3. Waits => Waits'
  <2>1. UNCHANGED <<asked, sent, plan>> BY DEF adapter, session
  <2>. QED BY <1>1, <2>1 DEF Waits, Settled, SettledButLast, NoPlans
<1>. QED BY <1>2, <1>3 DEF CallInv, adapter, session, RbwFor, Absorbs

LEMMA OneAnnounced ==
  ASSUME SessionTyped, NEW lines \in Seq(Lines),
         frames' = Append(frames, Applied(Laid(force, lines)))
  PROVE  Announces(lines)
<1>1. Applied(Laid(force, lines)) \in Frames
  BY LimitedIsTyped, AppliedIsFrame DEF SessionTyped
<1>. QED BY <1>1, FrameAppended DEF Announces, SessionTyped

LEMMA TwoAnnounced ==
  ASSUME SessionTyped, NEW lines \in Seq(Lines),
         frames' = frames \o <<Applied(force)>>
                     \o (IF lines = <<>> THEN <<>> ELSE <<Applied(Laid(force, lines))>>)
  PROVE  Announces(lines)
<1> DEFINE a == Applied(force)
           b == Applied(Laid(force, lines))
<1>1. a \in Frames /\ b \in Frames
  BY LimitedIsTyped, AppliedIsFrame, LimitIsPlan DEF SessionTyped
<1>2. frames \in Seq(Frames) /\ Len(frames) \in Nat /\ DOMAIN frames = 1 .. Len(frames)
  BY DEF SessionTyped
<1> HIDE DEF a, b
<1>3. CASE lines = <<>>
  <2>1. frames' = Append(frames, a) BY <1>1, <1>2, <1>3 DEF a
  <2>. QED BY <1>1, <1>2, <2>1, FrameAppended DEF Announces, a
<1>4. CASE lines # <<>>
  <2>1. frames' = frames \o <<a>> \o <<b>> BY <1>4 DEF a, b
  <2> DEFINE g == frames \o <<a>>
  <2>2. /\ g \in Seq(Frames) /\ Len(g) = Len(frames) + 1
        /\ \A i \in 1 .. Len(frames) : g[i] = frames[i]
        /\ g[Len(frames) + 1] = a
    BY <1>1, <1>2
  <2>3. /\ Len(frames') = Len(frames) + 2 /\ DOMAIN frames' = 1 .. Len(frames) + 2
        /\ \A i \in 1 .. Len(frames) : frames'[i] = frames[i]
        /\ frames'[Len(frames) + 1] = a /\ frames'[Len(frames) + 2] = b
    <3>1. frames' = g \o <<b>> BY <2>1
    <3>. HIDE DEF g
    <3>2. /\ Len(g \o <<b>>) = Len(g) + 1 /\ DOMAIN (g \o <<b>>) = 1 .. Len(g) + 1
          /\ \A i \in 1 .. Len(g) : (g \o <<b>>)[i] = g[i]
          /\ (g \o <<b>>)[Len(g) + 1] = b
      BY <1>1, <2>2
    <3>3. /\ Len(frames') = Len(frames) + 2 /\ DOMAIN frames' = 1 .. Len(frames) + 2
          /\ frames'[Len(frames) + 2] = b
      BY <1>2, <2>2, <3>1, <3>2
    <3>4. \A i \in 1 .. Len(frames) + 1 : frames'[i] = g[i] BY <2>2, <3>1, <3>2
    <3>5. \A i \in 1 .. Len(frames) : i \in 1 .. Len(frames) + 1 BY <1>2
    <3>6. Len(frames) + 1 \in 1 .. Len(frames) + 1 BY <1>2
    <3>. QED BY <2>2, <3>3, <3>4, <3>5, <3>6
  <2>4. ASSUME NEW i \in DOMAIN frames'
        PROVE  \/ i \in DOMAIN frames
               \/ i = Len(frames) + 1 /\ \A j \in DOMAIN frames' :
                                          j <= i => j \in DOMAIN frames \/ j = Len(frames) + 1
               \/ i = Len(frames) + 2
    <3>1. DOMAIN frames' = 1 .. Len(frames) + 2 BY <2>3
    <3>2. i \in 1 .. Len(frames) \/ i = Len(frames) + 1 \/ i = Len(frames) + 2
      BY <1>2, <2>4, <3>1
    <3>3. \A j \in 1 .. Len(frames) + 2 :
            j <= Len(frames) + 1 => j \in 1 .. Len(frames) \/ j = Len(frames) + 1
      BY <1>2
    <3>. QED BY <1>2, <3>1, <3>2, <3>3
  <2>5. Len(frames') \in Nat /\ Len(frames) <= Len(frames') BY <1>2, <2>3
  <2>6. \A i \in DOMAIN frames : i \in DOMAIN frames' /\ frames'[i] = frames[i]
    BY <1>2, <2>3
  <2>7. \A i \in DOMAIN frames' :
          Answer(frames'[i]) =>
            \/ i \in DOMAIN frames
            \/ frames'[i] = b
            \/ /\ frames'[i] = a
               /\ \A j \in DOMAIN frames' :
                    j <= i => j \in DOMAIN frames \/ frames'[j] = a
    BY <2>3, <2>4
  <2>. QED BY <2>5, <2>6, <2>7 DEF Announces, a, b
<1>. QED BY <1>3, <1>4

\* An engine that lays some lines over its plan, `rest` being what then is to
\* come: the call's line is among the ones or in the other.
LEMMA EngineApplies ==
  ASSUME SessionTyped, CallInv, UNCHANGED adapter,
         NEW lines \in Seq(Lines), force' = Limited(Laid(force, lines)), Announces(lines),
         early' = <<>>,
         Quiet => Settled(force, lines) /\ Settled(force, commands'),
         Waits => /\ SettledButLast(force, sent, lines)
                  /\ \/ Settled(force, lines) /\ SettledButLast(force, sent, commands')
                     \/ NoPlans(commands')
  PROVE  CallInv'
<1>1. UNCHANGED <<plan, asked, sent, call, reply>> BY DEF adapter, session
<1>2. Settled(force', <<>>) BY DEF Settled
<1>3. ASSUME Quiet PROVE Quiet' /\ force' = force
  <2>1. /\ force' = force
        /\ \A i \in DOMAIN frames' : Answer(frames'[i]) => frames'[i].applied = force
    BY <1>3, QuietApplies DEF Quiet, SessionTyped
  <2>. QED BY <1>2, <1>3, <2>1 DEF Quiet
<1>4. ASSUME Waits, call = "waiting" PROVE Waits'
  <2>1. /\ Settled(force, lines) => force' = force
        /\ \A i \in DOMAIN frames', j \in DOMAIN frames' :
             (/\ Answer(frames'[i]) /\ Answers(frames'[i].requested, sent')
              /\ i <= j /\ Answer(frames'[j]))
               => frames'[j].applied = force'
        /\ ~Has(asked', "rbw") =>
             /\ force'.rbw = plan'.rbw
             /\ \A i \in DOMAIN frames' :
                  Answer(frames'[i]) => frames'[i].applied.rbw = plan'.rbw
    BY <1>1, <1>4, WaitsApplies
  <2>2. SettledButLast(force', sent', commands')
    <3>1. CASE Settled(force, lines) /\ SettledButLast(force, sent, commands')
      BY <1>1, <2>1, <3>1
    <3>2. CASE NoPlans(commands') BY <3>2, NoPlansSettled
    <3>. QED BY <1>4, <3>1, <3>2
  <2>3. Settled(force', early') BY <1>2
  <2>4. \/ Settled(force', early') /\ SettledButLast(force', sent', commands')
        \/ SettledButLast(force', sent', early') /\ NoPlans(commands')
    BY <2>2, <2>3
  <2>. QED BY <2>1, <2>4 DEF Waits
<1>. QED BY <1>1, <1>3, <1>4 DEF CallInv, RbwFor

LEMMA FakeTakesCall ==
  ASSUME SessionTyped, CallInv, FakeTakes PROVE CallInv'
<1> DEFINE c == Head(commands)
<1>1. /\ commands \in Seq(Lines) /\ commands # <<>> /\ commands' = Tail(commands)
      /\ early \in Seq(Lines) /\ c \in Lines /\ UNCHANGED adapter
  BY HeadTailProperties DEF SessionTyped, FakeTakes
<1>2. UNCHANGED <<plan, asked, sent, call, reply>> BY <1>1 DEF adapter, session
<1>3. /\ Settled(force, commands) => Settled(force, commands') /\ Settled(force, <<c>>)
      /\ SettledButLast(force, sent, commands) =>
           /\ SettledButLast(force, sent, commands') /\ SettledButLast(force, sent, <<c>>)
           /\ Settled(force, <<c>>) \/ NoPlans(commands')
      /\ NoPlans(commands) => NoPlans(commands') /\ ~SetsPlan(c)
  BY <1>1, SettledPart
<1>4. /\ Settled(force, <<c>>) /\ SetsPlan(c) => Absorbs(force, c.patch)
      /\ SettledButLast(force, sent, <<c>>) /\ SetsPlan(c) =>
           Absorbs(force, c.patch) \/ c.patch = sent
      /\ ~SetsPlan(c) => Settled(force, <<c>>)
  <2>1. DOMAIN <<c>> = {1} /\ <<c>>[1] = c OBVIOUS
  <2>. HIDE DEF c
  <2>. QED BY <2>1 DEF Settled, SettledButLast
<1> HIDE DEF c
<1>5. CASE c.cmd = "setPlan" /\ starting
  <2>1. early' = Append(early, c) /\ UNCHANGED <<force, frames>>
    BY <1>5 DEF FakeTakes, c
  <2>2. ASSUME Quiet PROVE Quiet'
    <3>1. Settled(force, early') BY <1>1, <1>3, <1>4, <1>5, <2>1, <2>2, SettledMore DEF Quiet, SetsPlan
    <3>. QED BY <1>3, <2>1, <2>2, <3>1 DEF Quiet
  <2>3. ASSUME Waits PROVE Waits'
    <3>1. SetsPlan(c) BY <1>5 DEF SetsPlan
    <3>2. Settled(force, early) /\ SettledButLast(force, sent, commands)
      BY <1>3, <2>3, <3>1 DEF Waits
    <3>3. \/ Settled(force, early') /\ SettledButLast(force, sent, commands')
          \/ SettledButLast(force, sent, early') /\ NoPlans(commands')
      <4>1. CASE Settled(force, <<c>>)
        BY <1>1, <1>3, <1>4, <2>1, <3>1, <3>2, <4>1, SettledMore
      <4>2. CASE ~Settled(force, <<c>>)
        <5>1. NoPlans(commands') BY <1>3, <3>2, <4>2
        <5>2. ~Absorbs(force, c.patch)
          <6>1. DOMAIN <<c>> = {1} /\ <<c>>[1] = c OBVIOUS
          <6>. QED BY <4>2, <6>1 DEF Settled
        <5>3. c.patch = sent BY <1>3, <1>4, <3>1, <3>2, <5>2
        <5>. QED BY <1>1, <2>1, <3>2, <5>1, <5>3, SettledMore
      <4>. QED BY <4>1, <4>2
    <3>4. \/ Settled(force', early') /\ SettledButLast(force', sent', commands')
          \/ SettledButLast(force', sent', early') /\ NoPlans(commands')
      BY <1>2, <2>1, <3>3
    <3>. QED BY <1>2, <2>1, <2>3, <3>4 DEF Waits
  <2>. QED BY <1>2, <2>1, <2>2, <2>3 DEF CallInv, RbwFor
<1>6. CASE c.cmd = "setPlan" /\ ~starting
  <2>1. /\ early' = <<>> /\ force' = Limited(Laid(force, <<c>>)) /\ early = <<>>
        /\ frames' = Append(frames, Applied(Laid(force, <<c>>)))
    BY <1>6 DEF FakeTakes, FakeApplies, c, SessionTyped
  <2>2. <<c>> \in Seq(Lines) BY <1>1
  <2>3. Announces(<<c>>) BY <2>1, <2>2, OneAnnounced
  <2>4. Waits => SettledButLast(force, sent, commands)
    BY NoPlansSettled DEF Waits
  <2>. QED BY <1>1, <1>3, <2>1, <2>2, <2>3, <2>4, EngineApplies DEF Quiet
<1>7. CASE c.cmd # "setPlan"
  <2>1. UNCHANGED <<early, force, frames>> BY <1>7 DEF FakeTakes, c
  <2>2. Quiet => Quiet' BY <1>3, <2>1 DEF Quiet
  <2>3. ASSUME Waits PROVE Waits'
    <3>1. \/ Settled(force', early') /\ SettledButLast(force', sent', commands')
          \/ SettledButLast(force', sent', early') /\ NoPlans(commands')
      BY <1>2, <1>3, <2>1, <2>3 DEF Waits
    <3>. QED BY <1>2, <2>1, <2>3, <3>1 DEF Waits
  <2>. QED BY <1>2, <2>1, <2>2, <2>3 DEF CallInv, RbwFor
<1>. QED BY <1>5, <1>6, <1>7

LEMMA FakeAnnouncesCall ==
  ASSUME SessionTyped, CallInv, FakeAnnounces PROVE CallInv'
<1>1. /\ early \in Seq(Lines) /\ early' = <<>> /\ UNCHANGED <<adapter, commands>>
      /\ force' = Limited(Laid(force, early))
      /\ frames' = frames \o <<Applied(force)>>
                     \o (IF early = <<>> THEN <<>> ELSE <<Applied(Laid(force, early))>>)
  BY DEF SessionTyped, FakeAnnounces
<1>2. Announces(early) BY <1>1, TwoAnnounced
<1>3. Quiet => Settled(force, early) /\ Settled(force, commands') BY <1>1 DEF Quiet
<1>4. Waits => /\ SettledButLast(force, sent, early)
               /\ \/ Settled(force, early) /\ SettledButLast(force, sent, commands')
                  \/ NoPlans(commands')
  BY <1>1, SettledIsButLast DEF Waits
<1>. QED BY <1>1, <1>2, <1>3, <1>4, EngineApplies

LEMMA RealLoopCall ==
  ASSUME SessionTyped, CallInv, RealLoop PROVE CallInv'
<1>1. /\ commands \in Seq(Lines) /\ commands' = <<>> /\ UNCHANGED <<adapter, early>>
      /\ early = <<>> /\ Len(commands) \in Nat /\ DOMAIN commands = 1 .. Len(commands)
  BY DEF SessionTyped, RealLoop
<1>2. UNCHANGED <<plan, asked, sent, call, reply>> BY <1>1 DEF adapter, session
<1>3. Settled(force, <<>>) /\ SettledButLast(force, sent, <<>>) /\ NoPlans(<<>>)
  BY DEF Settled, SettledButLast, NoPlans
<1>4. CASE \E i \in 1 .. Len(commands) : commands[i].cmd = "setPlan"
  <2>1. /\ force' = Limited(Laid(force, commands))
        /\ frames' = Append(frames, Applied(Laid(force, commands)))
    BY <1>4 DEF RealLoop, Batch
  <2>2. Announces(commands) BY <1>1, <2>1, OneAnnounced
  <2>3. Quiet => Settled(force, commands) /\ Settled(force, commands')
    BY <1>1, <1>3 DEF Quiet
  <2>4. Waits => /\ SettledButLast(force, sent, commands)
                 /\ \/ Settled(force, commands) /\ SettledButLast(force, sent, commands')
                    \/ NoPlans(commands')
    BY <1>1, <1>3, NoPlansSettled DEF Waits
  <2>. QED BY <1>1, <2>1, <2>2, <2>3, <2>4, EngineApplies
<1>5. CASE ~\E i \in 1 .. Len(commands) : commands[i].cmd = "setPlan"
  <2>1. UNCHANGED <<force, frames>> BY <1>5 DEF RealLoop
  <2>2. Quiet => Quiet' BY <1>1, <1>3, <2>1 DEF Quiet
  <2>3. ASSUME Waits PROVE Waits'
    <3>1. Settled(force', early') /\ SettledButLast(force', sent', commands')
      BY <1>1, <1>3, <2>1 DEF Settled, SettledButLast
    <3>. QED BY <1>2, <2>1, <2>3, <3>1 DEF Waits
  <2>. QED BY <1>2, <2>1, <2>2, <2>3 DEF CallInv, RbwFor
<1>. QED BY <1>4, <1>5

LEMMA ApplyConfigCall ==
  ASSUME SessionTyped, CallInv, NEW cfg \in Requests, ApplyConfig(cfg) PROVE CallInv'
<1>1. /\ call = "idle" /\ call' = "waiting" /\ asked' = cfg /\ sent' = PlanFor(cfg)
      /\ commands' = Append(commands, [cmd |-> "setPlan", patch |-> sent'])
      /\ UNCHANGED <<plan, frames, force, early>>
  BY DEF ApplyConfig, engine
<1>2. Quiet /\ plan = force /\ commands \in Seq(Lines) BY <1>1 DEF CallInv, SessionTyped
<1>3. PlanFor(cfg) \in Patches BY PlanForIsPatch, LimitIsPlan DEF SessionTyped
<1> DEFINE c == [cmd |-> "setPlan", patch |-> sent']
<1>4. c \in Lines /\ c.patch = sent' BY <1>1, <1>3 DEF Lines
<1> HIDE DEF c
<1>5. SettledButLast(force', sent', commands')
  <2>1. commands' = Append(commands, c) BY <1>1 DEF c
  <2>2. Settled(force, commands) BY <1>2 DEF Quiet
  <2>. QED BY <1>1, <1>2, <1>4, <2>1, <2>2, SettledMore
<1>6. Settled(force', early') BY <1>1, <1>2 DEF Quiet
<1>7. \A i \in DOMAIN frames' : Answer(frames'[i]) => frames'[i].applied = force'
  BY <1>1, <1>2 DEF Quiet
<1>8. Waits' BY <1>1, <1>2, <1>5, <1>6, <1>7 DEF Waits
<1>. QED BY <1>1, <1>8 DEF CallInv

LEMMA OtherLineCall ==
  ASSUME SessionTyped, CallInv, StartSweep \/ StopSweep PROVE CallInv'
<1>1. PICK c \in Lines : ~SetsPlan(c) /\ commands' = Append(commands, c)
  <2>1. \A c \in {[cmd |-> "start"], [cmd |-> "stop"]} : c \in Lines /\ ~SetsPlan(c)
    BY DEF Lines, SetsPlan
  <2>. QED BY <2>1 DEF StartSweep, StopSweep
<1>2. /\ UNCHANGED <<plan, asked, sent, call, reply, frames, force, early>>
      /\ commands \in Seq(Lines)
  BY DEF StartSweep, StopSweep, session, engine, SessionTyped
<1>3. Quiet => Quiet' BY <1>1, <1>2, SettledMore DEF Quiet
<1>4. ASSUME Waits PROVE Waits'
  <2>1. \/ Settled(force, early) /\ SettledButLast(force, sent, commands')
        \/ SettledButLast(force, sent, early) /\ NoPlans(commands')
    BY <1>1, <1>2, <1>4, SettledMore DEF Waits
  <2>. QED BY <1>2, <1>4, <2>1 DEF Waits
<1>. QED BY <1>2, <1>3, <1>4 DEF CallInv, RbwFor

LEMMA DeliverCall ==
  ASSUME SessionTyped, CallInv, Deliver PROVE CallInv'
<1>1. /\ frames \in Seq(Frames) /\ frames # <<>> /\ frames' = Tail(frames)
      /\ UNCHANGED <<plan, asked, sent, commands, force, early>>
  BY DEF Deliver, SessionTyped, engine
<1>2. /\ Len(frames) \in Nat /\ DOMAIN frames = 1 .. Len(frames) /\ 1 \in DOMAIN frames
      /\ DOMAIN frames' = 1 .. Len(frames) - 1 /\ Head(frames) = frames[1]
      /\ \A i \in DOMAIN frames' : i + 1 \in DOMAIN frames /\ frames'[i] = frames[i + 1]
  BY <1>1
<1>3. Quiet => Quiet' BY <1>1, <1>2 DEF Quiet
<1>4. ASSUME Waits PROVE Waits'
  <2>1. \A i, j \in DOMAIN frames' : i <= j => i + 1 <= j + 1 BY <1>2
  <2>2. \A i \in DOMAIN frames', j \in DOMAIN frames' :
          (/\ Answer(frames'[i]) /\ Answers(frames'[i].requested, sent')
           /\ i <= j /\ Answer(frames'[j]))
            => frames'[j].applied = force'
    BY <1>1, <1>2, <1>4, <2>1 DEF Waits
  <2>3. ~Has(asked', "rbw") =>
          /\ force'.rbw = plan'.rbw
          /\ \A i \in DOMAIN frames' :
               Answer(frames'[i]) => frames'[i].applied.rbw = plan'.rbw
    BY <1>1, <1>2, <1>4 DEF Waits
  <2>. QED BY <1>1, <1>4, <2>2, <2>3 DEF Waits
<1>5. CASE UNCHANGED <<call, reply>>
  BY <1>1, <1>3, <1>4, <1>5 DEF CallInv, RbwFor
<1>6. CASE ~UNCHANGED <<call, reply>>
  <2>1. /\ call = "waiting" /\ call' = "answered" /\ Answer(frames[1])
        /\ Answers(frames[1].requested, sent) /\ reply' = frames[1].applied
    BY <1>2, <1>6 DEF Deliver, Answer
  <2>2. Waits BY <2>1 DEF CallInv
  <2>3. frames[1] \in Frames BY <1>1, <1>2
  <2>4. /\ frames[1].requested \in Plans
        /\ frames[1].applied = Limited(frames[1].requested)
    BY <2>1, <2>3, AnswerFields
  <2>5. /\ asked \in Requests /\ sent = PlanFor(asked) /\ sent \in Patches
        /\ Has(asked, "rbw") => "rbw" \in DOMAIN sent /\ sent.rbw = asked.rbw
    <3>1. asked \in Requests /\ sent = PlanFor(asked) BY <2>1 DEF SessionTyped
    <3>2. sent \in Patches BY <3>1, PlanForIsPatch, LimitIsPlan DEF SessionTyped
    <3>3. Has(asked, "rbw") => "rbw" \in DOMAIN sent /\ sent.rbw = asked.rbw
      BY <3>1 DEF PlanFor, Has, Fields
    <3>. QED BY <3>1, <3>2, <3>3
  <2>6. reply' = force
    BY <1>2, <2>1, <2>2 DEF Waits
  <2>7. Absorbs(force, sent) BY <2>1, <2>4, <2>5, <2>6, AnsweredAbsorbs
  <2>8. Quiet'
    <3>1. Settled(force, early) /\ Settled(force, commands)
      <4>1. /\ SettledButLast(force, sent, early) \/ Settled(force, early)
            /\ SettledButLast(force, sent, commands) \/ Settled(force, commands)
        BY <2>2, NoPlansSettled DEF Waits
      <4>. QED BY <2>7, <4>1, EarlyAnswerSettles DEF SessionTyped
    <3>2. \A j \in DOMAIN frames : Answer(frames[j]) => frames[j].applied = force
      <4>1. \A j \in DOMAIN frames : 1 <= j BY <1>2
      <4>. QED BY <1>2, <2>1, <2>2, <4>1 DEF Waits
    <3>. QED BY <1>1, <1>2, <3>1, <3>2 DEF Quiet
  <2>9. force.rbw = RbwFor(asked)
    <3>1. CASE Has(asked, "rbw")
      BY <2>5, <2>7, <3>1 DEF Absorbs, RbwFor
    <3>2. CASE ~Has(asked, "rbw") BY <2>2, <3>2 DEF Waits, RbwFor
    <3>. QED BY <3>1, <3>2
  <2>10. reply'.rbw = RbwFor(asked)' BY <1>1, <2>6, <2>9 DEF RbwFor
  <2>11. Absorbs(reply', sent') BY <1>1, <2>6, <2>7
  <2>. QED BY <1>1, <2>1, <2>6, <2>8, <2>10, <2>11 DEF CallInv
<1>. QED BY <1>5, <1>6

LEMMA InitSession == Init => SessionInv
<1> SUFFICES ASSUME Init PROVE SessionInv OBVIOUS
<1>1. SessionTyped BY InitTyped
<1>2. Settled(force, <<>>) BY DEF Settled
<1>3. Settled(force, commands)
  <2>1. CASE kind = "fake" BY <1>2, <2>1 DEF Init
  <2>2. CASE kind # "fake"
    <3>1. DOMAIN commands = {1} /\ commands[1].patch = Nothing BY <2>2 DEF Init
    <3>. QED BY <3>1, NothingIsPatch DEF Settled, Absorbs
  <2>. QED BY <2>1, <2>2
<1>. QED BY <1>1, <1>2, <1>3 DEF Init, SessionInv, CallInv, Quiet

LEMMA NextSession == SessionInv /\ [Next]_vars => SessionInv'
<1> SUFFICES ASSUME SessionInv, [Next]_vars PROVE SessionInv' OBVIOUS
<1>1. SessionTyped /\ SessionTyped' BY NextTyped DEF SessionInv
<1> SUFFICES ASSUME ~failed' PROVE CallInv' BY <1>1 DEF SessionInv
<1>2. ~failed
  BY DEF Next, ApplyConfig, Echo, PlanTimesOut, StartSweep, StopSweep, Deliver, FakeTakes,
         FakeAnnounces, FakeSweeps, RealLoop, RealSweepEnds, RealSends, vars, adapter,
         session
<1>3. CallInv BY <1>2 DEF SessionInv
<1>4. CASE \E cfg \in Requests : ApplyConfig(cfg) BY <1>1, <1>3, <1>4, ApplyConfigCall
<1>5. CASE Echo
  <2>1. /\ call = "answered" /\ call' = "idle" /\ plan' = reply
        /\ UNCHANGED <<commands, frames, force, early>>
    BY <1>5 DEF Echo, engine
  <2>. QED BY <1>3, <2>1 DEF CallInv, Quiet
<1>6. CASE PlanTimesOut BY <1>6 DEF PlanTimesOut
<1>7. CASE StartSweep \/ StopSweep BY <1>1, <1>3, <1>7, OtherLineCall
<1>8. CASE Deliver BY <1>1, <1>3, <1>8, DeliverCall
<1>9. CASE FakeTakes BY <1>1, <1>3, <1>9, FakeTakesCall
<1>10. CASE FakeAnnounces BY <1>1, <1>3, <1>10, FakeAnnouncesCall
<1>11. CASE FakeSweeps \/ RealSends
  <2>1. PICK grid \in Grids : frames' = Append(frames, SweepFrame(grid))
    BY <1>1, <1>11, GridOfPlan, LimitIsPlan DEF FakeSweeps, RealSends, SessionTyped
  <2>2. UNCHANGED <<adapter, commands, force, early>>
    BY <1>11 DEF FakeSweeps, RealSends, engine
  <2>. QED BY <1>1, <1>3, <2>1, <2>2, SweepKeeps
<1>12. CASE RealLoop BY <1>1, <1>3, <1>12, RealLoopCall
<1>13. CASE RealSweepEnds \/ UNCHANGED vars
  <2>1. UNCHANGED <<plan, call, asked, sent, reply, commands, frames, force, early>>
    BY <1>13 DEF RealSweepEnds, vars, adapter, session, engine
  <2>. QED BY <1>3, <2>1 DEF CallInv, Quiet, Waits, Settled, SettledButLast, NoPlans, RbwFor
<1>. QED BY <1>4, <1>5, <1>6, <1>7, <1>8, <1>9, <1>10, <1>11, <1>12, <1>13 DEF Next

LEMMA SessionAlways == Spec => []SessionInv
BY InitSession, NextSession, PTL DEF Spec

-----------------------------------------------------------------------------
(* What follows.                                                           *)

\* The adapter and the engine only ever hold plans whose video bandwidth is
\* positive and at most the RBW, for any requests; the averaging is a ratio.
THEOREM SessionTypeCorrect == Spec => []TypeOK
<1>1. ASSUME SessionInv PROVE TypeOK
  <2>1. SessionTyped BY <1>1 DEF SessionInv
  <2>2. \A p \in Limits : p.vbw \in 1 .. p.rbw
    <3> SUFFICES ASSUME NEW p \in Limits PROVE p.vbw \in 1 .. p.rbw OBVIOUS
    <3>1. p \in Plans /\ p.vbw <= p.rbw BY DEF Limits
    <3>2. p.rbw \in Nat /\ p.vbw \in Nat /\ p.vbw # 0
      BY <3>1, PlanFields DEF Plans, IsPlan, IsPatch, Positive
    <3>. QED BY <3>1, <3>2
  <2>3. \A i \in 1 .. Len(frames) : frames[i].type \in {"applied", "sweep"}
    <3>1. \A f \in Frames : f.type \in {"applied", "sweep"} BY DEF Frames
    <3>2. \A i \in 1 .. Len(frames) : frames[i] \in Frames BY <2>1 DEF SessionTyped
    <3>. QED BY <3>1, <3>2
  <2>. QED BY <2>1, <2>2, <2>3 DEF SessionTyped, TypeOK
<1>. QED BY <1>1, SessionAlways, PTL

\* When everything under way has arrived, and every call was acknowledged, the
\* plan the adapter holds is the one the engine works with, for any sequence of
\* requests, any engine and any timing of its announcements.
THEOREM EchoAlwaysInForce == Spec => []EchoIsInForce
<1>1. SessionInv => EchoIsInForce BY DEF SessionInv, CallInv, EchoIsInForce
<1>. QED BY <1>1, SessionAlways, PTL

\* A call that names the averaging gets it, and one that changes only the RBW
\* keeps it, for any set of averaging ratios and any bandwidths.
THEOREM AveragingAlwaysKept == Spec => AveragingIsKept
<1> DEFINE Kept == (call = "answered" /\ call' = "idle" /\ ~failed) =>
              /\ Has(asked, "avg") => controls'.avg = asked.avg
              /\ (Has(asked, "rbw") /\ ~Has(asked, "vbw") /\ ~Has(asked, "avg"))
                   => controls'.avg = controls.avg
<1>1. ASSUME SessionInv, [Next]_vars PROVE Kept
  <2> SUFFICES ASSUME call = "answered", call' = "idle", ~failed,
                      NEW a \in Averaging(asked), Averaging(asked) = {a}
               PROVE  controls'.avg = a
    <3>1. Has(asked, "avg") => Averaging(asked) = {asked.avg} BY DEF Averaging
    <3>2. (Has(asked, "rbw") /\ ~Has(asked, "vbw") /\ ~Has(asked, "avg"))
            => Averaging(asked) = {controls.avg}
      BY DEF Averaging
    <3>. QED BY <3>1, <3>2
  <2>1. SessionTyped /\ CallInv BY <1>1 DEF SessionInv
  <2>2. controls'.avg = AveragingId(reply)
    <3>1. Echo
      BY <1>1 DEF Next, ApplyConfig, PlanTimesOut, StartSweep, StopSweep, Deliver, FakeTakes,
                  FakeAnnounces, FakeSweeps, RealLoop, RealSweepEnds, RealSends, vars,
                  adapter, session
    <3>. QED BY <3>1 DEF Echo
  <2>3. /\ asked \in Requests /\ sent = PlanFor(asked) /\ reply \in Limits
        /\ Absorbs(reply, sent) /\ reply.rbw = RbwFor(asked)
    BY <2>1 DEF SessionTyped, CallInv
  <2>4. /\ a \in Ratios /\ "vbw" \in DOMAIN sent /\ sent.vbw \in Positive
        /\ RbwFor(asked) = a * sent.vbw
    BY <2>1, <2>3, PlanForIsPatch, LimitIsPlan DEF SessionTyped, Has
  <2>5. ~(sent.vbw > reply.rbw)
    <3>1. \A x, y \in Positive : ~(y > x * y)
      <4>1. \A x, y \in Positive : x - 1 \in Nat /\ y \in Nat /\ x * y = (x - 1) * y + y
        BY DEF Positive
      <4>2. \A x, y \in Nat : x * y \in Nat OBVIOUS
      <4>. QED BY <4>1, <4>2
    <3>2. a \in Positive BY <2>4, SessionAssumption
    <3>. QED BY <2>3, <2>4, <3>1, <3>2
  <2>6. reply.vbw = sent.vbw BY <2>3, <2>4, <2>5 DEF Absorbs
  <2>. QED BY <2>2, <2>3, <2>4, <2>6, NearestOwn
<1>2. Spec => [][Kept]_vars
  BY <1>1, SessionAlways, PTL DEF Spec
<1>. QED BY <1>2 DEF AveragingIsKept

-----------------------------------------------------------------------------
(* The axis.                                                               *)

\* TraceOnEchoedAxis is not inductive by itself: the sweep is compared with
\* this.geometry, which is the grid of the plan that was echoed.
AxisInv == /\ geometry # None => geometry = Grid(plan)
           /\ TraceOnEchoedAxis

LEMMA InitAxis == Init => AxisInv
BY DEF Init, AxisInv, TraceOnEchoedAxis

LEMMA NextAxis == AxisInv /\ [Next]_vars => AxisInv'
<1>. SUFFICES ASSUME AxisInv, [Next]_vars PROVE AxisInv' OBVIOUS
<1>1. CASE UNCHANGED <<plan, geometry, drawn>>
  BY <1>1 DEF AxisInv, TraceOnEchoedAxis, Grid
<1>2. CASE Echo
  BY <1>2 DEF Echo, AxisInv, TraceOnEchoedAxis, Grid
<1>3. CASE Deliver
  <2>1. UNCHANGED <<plan, geometry>> BY <1>3 DEF Deliver
  <2>2. drawn' = drawn \/ (geometry # None /\ drawn' = geometry)
    BY <1>3 DEF Deliver, SameGrid
  <2>. QED BY <2>1, <2>2 DEF AxisInv, TraceOnEchoedAxis, Grid
<1>4. UNCHANGED <<plan, geometry, drawn>> \/ Echo \/ Deliver
  BY DEF Next, ApplyConfig, PlanTimesOut, StartSweep, StopSweep, FakeTakes,
         FakeAnnounces, FakeSweeps, RealLoop, RealSweepEnds, RealSends, vars, adapter,
         session
<1>. QED BY <1>1, <1>2, <1>3, <1>4

\* The shell is never handed a trace on another axis than the last echo's, for
\* any plans and grids, also behind a setPlan() that was not acknowledged.
THEOREM TracesOnAxis == Spec => []TraceOnEchoedAxis
<1>1. AxisInv /\ [Next]_vars => AxisInv' BY NextAxis
<1>2. AxisInv => TraceOnEchoedAxis BY DEF AxisInv
<1>. QED BY InitAxis, <1>1, <1>2, PTL DEF Spec
=============================================================================
