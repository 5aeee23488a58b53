------------------------- MODULE CustomizerProofs -------------------------
(***************************************************************************)
(* Theorems about Customizer, for every set of versions, keys and patches,   *)
(* and however often the user edits and the process dies: what an update     *)
(* says is true.                                                            *)
(***************************************************************************)
EXTENDS Customizer, TLAPS, WellFoundedInduction

\* A file that was copied, and customized at most once, as a whole.
Whole(file) ==
  \E v \in Versions :
    IF file.applied = Missing THEN file = Fresh(v)
    ELSE /\ file.applied \in Customization /\ Applies(file.applied)
         /\ file = Customized(Fresh(v), file.applied, file.applied)

\* A file that was copied, and customized since, as far as its version and its
\* customization tell.
Marked(file) ==
  \E v \in Versions :
    IF file.applied = Missing THEN file.version = v
    ELSE /\ file.applied \in Customization /\ file.version = v \o << CUSTOM >>
         /\ \A k \in DOMAIN file.applied :
              k \in DOMAIN file.values /\ file.values[k] = file.applied[k]

\* Nothing but copies and whole customizations has happened to a file without
\* flaws; and one that was patched half-way does not say so.
CopyInv ==
  ~ same_file /\ Readable(dest) =>
    /\ flaws = {} => Whole(dest)
    /\ flaws \subseteq {"half-way"} => Marked(dest)

\* If w goes on where v ends, it goes on with a piece above 0. (1.0.0 does not:
\* CompareVersionString finds it older than 1.0.custom, not than 1.0.)
GoesOnBehind(w, v) ==
  Len(v) < Len(w) /\ (\A i \in 1 .. Len(v) : w[i] = v[i]) => w[Len(v) + 1] > CUSTOM
NoPieceZeroAdded == \A v, w \in Versions : GoesOnBehind(w, v)

\* What is about to be patched has no customization, and is not older than what
\* is distributed.
PatchInv ==
  step = "patch" => AppliedOf(dest) = Missing /\ ~ Redistribute(VersionOf(dest))

IInv == TypeOK /\ CopyInv /\ PatchInv /\ UpdatedIsUpToDate /\ FailsForAReason

-----------------------------------------------------------------------------
(* Versions                                                                 *)

\* A set of natural numbers has a least element, and only one.
LEMMA Least ==
  ASSUME NEW S, S \subseteq Nat, S # {}
  PROVE  \E m \in S : \A k \in S : m <= k
<1>1. PICK m \in S : \A k \in S : ~ (<< k, m >> \in OpToRel(<, Nat))
  BY NatLessThanWellFounded, WFMin, Zenon
<1>2. ASSUME NEW k \in S PROVE m <= k
  <2>1. k \in Nat /\ m \in Nat /\ << k, m >> \in Nat \X Nat
    OBVIOUS
  <2>2. ~ (k < m)
    BY <1>1, <2>1 DEF OpToRel
  <2> QED BY <2>1, <2>2
<1> QED BY <1>2

\* where two versions differ, the first difference decides
LEMMA FirstDifference ==
  ASSUME NEW x \in Seq(Nat), NEW y \in Seq(Nat),
         NEW i \in Common(x, y), x[i] # y[i],
         \A k \in Common(x, y) : x[k] # y[k] => i <= k
  PROVE  CompareVersionString(x, y) = x[i] - y[i]
<1> DEFINE differ == {k \in Common(x, y) : x[k] # y[k]}
           first == CHOOSE j \in differ : \A k \in differ : j <= k
<1>1. i \in differ /\ \A k \in differ : i <= k
  OBVIOUS
<1>2. first \in differ /\ \A k \in differ : first <= k
  BY <1>1
<1>3. first = i
  BY SMTT(20), <1>1, <1>2 DEF Common
<1> QED BY <1>1, <1>3 DEF CompareVersionString

\* and nothing is newer than itself with a customization, unless it was before.
LEMMA CompareCustom ==
  ASSUME NEW x \in Seq(Nat), NEW y \in Seq(Nat), CompareVersionString(x, y) <= 0
  PROVE  CompareVersionString(x, y \o << CUSTOM >>) <= 0
<1> DEFINE z == y \o << CUSTOM >>
           differ == {k \in Common(x, y) : x[k] # y[k]}
<1>1. /\ z \in Seq(Nat) /\ Len(z) = Len(y) + 1 /\ Len(x) \in Nat /\ Len(y) \in Nat
      /\ \A k \in 1 .. Len(y) : z[k] = y[k]
  BY DEF CUSTOM
<1> HIDE DEF z
<1>2. CASE differ = {}
  <2>1. Len(x) <= Len(y)
    BY <1>1, <1>2 DEF CompareVersionString
  <2>2. ASSUME NEW k \in Common(x, z) PROVE x[k] = z[k]
    <3>1. k \in Common(x, y) /\ z[k] = y[k]
      BY SMTT(20), <1>1, <2>1 DEF Common
    <3> QED BY <1>2, <3>1
  <2>3. CompareVersionString(x, z) = Len(x) - Len(z)
    BY <2>2 DEF CompareVersionString
  <2> QED BY <1>1, <2>1, <2>3 DEF z
<1>3. CASE differ # {}
  <2>1. differ \subseteq Nat
    BY DEF Common
  <2>2. PICK i \in differ : \A k \in differ : i <= k
    BY <1>3, <2>1, Least
  <2>3. i \in Common(x, y) /\ x[i] # y[i] /\ \A k \in Common(x, y) : x[k] # y[k] => i <= k
    BY <2>2
  <2>4. CompareVersionString(x, y) = x[i] - y[i]
    BY <2>3, FirstDifference
  <2>5. i \in Common(x, z) /\ z[i] = y[i]
    BY SMTT(20), <1>1, <2>3 DEF Common
  <2>6. \A k \in Common(x, z) : x[k] # z[k] => i <= k
    <3> SUFFICES ASSUME NEW k \in Common(x, z), x[k] # z[k] PROVE i <= k
      OBVIOUS
    <3>1. CASE k \in Common(x, y)
      <4>1. z[k] = y[k]
        BY <1>1, <3>1 DEF Common
      <4> QED BY <2>3, <3>1, <4>1
    <3>2. CASE k \notin Common(x, y)
      BY <1>1, <2>3, <3>2 DEF Common
    <3> QED BY <3>1, <3>2
  <2>7. CompareVersionString(x, z) = x[i] - z[i]
    BY <1>1, <2>3, <2>5, <2>6, FirstDifference
  <2> QED BY <2>4, <2>5, <2>7 DEF z
<1> QED BY <1>2, <1>3

\* What is not newer by the comparison of the code is not newer: also with a
\* customization, unless a release goes on with a piece 0 where another ends.
LEMMA NotNewer ==
  ASSUME NEW w \in Seq(Nat), NEW v \in Seq(Nat)
  PROVE  /\ CompareVersionString(w, v) <= 0 => ~ Newer(w, v)
         /\ CompareVersionString(w, v \o << CUSTOM >>) <= 0 /\ GoesOnBehind(w, v) =>
              ~ Newer(w, v)
<1> SUFFICES ASSUME Newer(w, v)
             PROVE  /\ ~ (CompareVersionString(w, v) <= 0)
                    /\ GoesOnBehind(w, v) =>
                         ~ (CompareVersionString(w, v \o << CUSTOM >>) <= 0)
  OBVIOUS
<1> DEFINE z == v \o << CUSTOM >>
<1>1. /\ z \in Seq(Nat) /\ Len(z) = Len(v) + 1 /\ Len(w) \in Nat /\ Len(v) \in Nat
      /\ z[Len(v) + 1] = CUSTOM /\ \A k \in 1 .. Len(v) : z[k] = v[k]
  BY DEF CUSTOM
<1> HIDE DEF z
<1>2. PICK i \in 1 .. Len(w) :
        /\ \A j \in 1 .. i - 1 : j <= Len(v) /\ w[j] = v[j]
        /\ i <= Len(v) => w[i] > v[i]
  BY DEF Newer
<1>3. CASE i <= Len(v)
  <2>1. /\ i \in Common(w, v) /\ w[i] # v[i] /\ w[i] \in Nat /\ v[i] \in Nat
        /\ \A k \in Common(w, v) : w[k] # v[k] => i <= k
    BY SMTT(20), <1>1, <1>2, <1>3 DEF Common
  <2>2. CompareVersionString(w, v) = w[i] - v[i]
    BY <2>1, FirstDifference
  <2>3. /\ i \in Common(w, z) /\ w[i] # z[i] /\ z[i] = v[i]
        /\ \A k \in Common(w, z) : w[k] # z[k] => i <= k
    BY SMTT(20), <1>1, <1>2, <1>3 DEF Common
  <2>4. CompareVersionString(w, z) = w[i] - z[i]
    BY <1>1, <2>3, FirstDifference
  <2> QED BY <1>2, <1>3, <2>1, <2>2, <2>3, <2>4 DEF z
<1>4. CASE ~ (i <= Len(v))
  <2>1. i = Len(v) + 1
    <3>1. CASE i = 1
      BY <1>1, <1>4, <3>1
    <3>2. CASE i # 1
      <4>1. i - 1 \in 1 .. i - 1
        BY <3>2
      <4> QED BY <1>1, <1>2, <1>4, <4>1
    <3> QED BY <3>1, <3>2
  <2>2. \A k \in 1 .. Len(v) : w[k] = v[k]
    BY <1>1, <1>2, <2>1
  <2>3. CompareVersionString(w, v) = Len(w) - Len(v)
    <3>1. {k \in Common(w, v) : w[k] # v[k]} = {}
      BY SMTT(20), <1>1, <1>2, <2>1, <2>2 DEF Common
    <3> QED BY <3>1 DEF CompareVersionString
  <2>4. ASSUME GoesOnBehind(w, v) PROVE CompareVersionString(w, z) = w[i] - CUSTOM /\ w[i] > CUSTOM
    <3>1. w[i] > CUSTOM
      BY <1>1, <1>2, <2>1, <2>2, <2>4 DEF GoesOnBehind
    <3>2. w[i] \in Nat /\ z[i] = CUSTOM /\ CUSTOM \in Nat
      BY <1>1, <1>2, <2>1 DEF CUSTOM
    <3>3. Common(w, z) \subseteq 1 .. i /\ i \in Common(w, z)
      BY SMTT(20), <1>1, <2>1 DEF Common
    <3>4. \A k \in 1 .. i : k # i => k \in 1 .. Len(v)
      BY <1>1, <2>1
    <3>5. \A k \in 1 .. i : k # i => w[k] = z[k]
      BY Zenon, <1>1, <2>2, <3>4
    <3>6. w[i] # z[i] /\ \A k \in Common(w, z) : w[k] # z[k] => i <= k
      BY <3>1, <3>2, <3>3, <3>5
    <3>7. CompareVersionString(w, z) = w[i] - z[i]
      BY <1>1, <3>3, <3>6, FirstDifference
    <3> QED BY <3>1, <3>2, <3>7
  <2>5. i \in Nat /\ i <= Len(w) /\ w[i] \in Nat /\ CUSTOM \in Nat
    BY <1>2 DEF CUSTOM
  <2> QED BY <1>1, <2>1, <2>3, <2>4, <2>5 DEF z
<1> QED BY <1>3, <1>4

\* The comparison is an integer,
LEMMA CompareInt ==
  ASSUME NEW x \in Seq(Nat), NEW y \in Seq(Nat)
  PROVE  CompareVersionString(x, y) \in Int
<1> DEFINE differ == {k \in Common(x, y) : x[k] # y[k]}
<1>1. CASE differ = {}
  BY <1>1 DEF CompareVersionString
<1>2. CASE differ # {}
  <2>1. differ \subseteq Nat
    BY DEF Common
  <2>2. PICK i \in differ : \A k \in differ : i <= k
    BY <1>2, <2>1, Least
  <2>3. CompareVersionString(x, y) = x[i] - y[i]
    BY <2>2, FirstDifference
  <2>4. x[i] \in Nat /\ y[i] \in Nat
    BY SMTT(20), <2>2 DEF Common
  <2> QED BY <2>3, <2>4
<1> QED BY <1>1, <1>2

\* and nothing is newer than itself, and everything newer than nothing.
LEMMA CompareSame ==
  ASSUME NEW x \in Seq(Nat) PROVE CompareVersionString(x, x) <= 0
<1>1. {k \in Common(x, x) : x[k] # x[k]} = {}
  OBVIOUS
<1>2. CompareVersionString(x, x) = Len(x) - Len(x)
  BY <1>1 DEF CompareVersionString
<1> QED BY <1>2

LEMMA CompareNothing ==
  ASSUME NEW x \in Seq(Nat), x # << >> PROVE CompareVersionString(x, << >>) > 0
<1>1. {k \in Common(x, << >>) : x[k] # << >>[k]} = {}
  BY DEF Common
<1>2. CompareVersionString(x, << >>) = Len(x) - Len(<< >>)
  BY <1>1 DEF CompareVersionString
<1> QED BY <1>2

-----------------------------------------------------------------------------
(* Files                                                                    *)

\* A customization goes from some of the keys to values.
LEMMA CustomizationOf ==
  /\ \A p : p \in Customization <=> \E ks \in SUBSET Keys : p \in [ks -> Values]
  /\ [k \in {} |-> 0] \in Customization
BY DEF Customization

\* The values of a file that is distributed, and of one that is patched.
LEMMA PatchedType ==
  ASSUME NEW values, NEW ks \in SUBSET (Keys \ Blocked),
         values \in [ks -> Versions \cup Values], NEW patch \in Customization
  PROVE  \E all \in SUBSET (Keys \ Blocked) :
           Patched(values, patch) \in [all -> Versions \cup Values]
<1>1. PICK ps \in SUBSET Keys : patch \in [ps -> Values]
  BY CustomizationOf
<1> DEFINE reached == Reached(patch)
<1>2. reached \subseteq ps /\ reached \subseteq Keys
  BY <1>1 DEF Reached
<1>3. reached \cap Blocked = {}
  <2> SUFFICES ASSUME NEW k \in reached, k \in Blocked PROVE FALSE
    OBVIOUS
  <2>1. PICK j \in 1 .. Len(KeyOrder) : k = KeyOrder[j] /\ \A f \in Failing(patch) : j < f
    BY DEF Reached
  <2>2. j \in Failing(patch)
    BY <1>1, <1>2, <2>1 DEF Failing
  <2>3. j < j
    BY <2>1, <2>2
  <2> QED BY <2>1, <2>3
<1> HIDE DEF reached
<1>4. Patched(values, patch) =
        [k \in ks \cup reached |-> IF k \in reached THEN patch[k] ELSE values[k]]
  BY DEF Patched, reached
<1>5. Patched(values, patch) \in [ks \cup reached -> Versions \cup Values]
  BY <1>1, <1>2, <1>4
<1>6. ks \cup reached \in SUBSET (Keys \ Blocked)
  BY <1>2, <1>3
<1> QED BY <1>5, <1>6

\* Files are files, which the model can read.
LEMMA FileReadable ==
  ASSUME NEW file \in File
  PROVE  /\ Readable(file) /\ VersionOf(file) = file.version
         /\ AppliedOf(file) = file.applied /\ file.version \in Seq(Nat)
         /\ file.applied \in NoFile \cup Customization
<1>1. Readable(file)
  BY NoFileAssumption DEF Readable
<1> QED BY <1>1 DEF VersionOf, AppliedOf, File

LEMMA FileMembers ==
  ASSUME NEW v \in Seq(Nat), NEW a \in NoFile \cup Customization,
         NEW ks \in SUBSET (Keys \ Blocked), NEW values \in [ks -> Versions \cup Values]
  PROVE  [version |-> v, applied |-> a, values |-> values] \in File
BY DEF File

LEMMA FreshType ==
  ASSUME NEW v \in Versions
  PROVE  /\ Fresh(v) \in File /\ Fresh(v).version = v /\ Fresh(v).applied = Missing
         /\ Fresh(v).values = Preset(v) /\ Whole(Fresh(v))
<1>1. Keys \ Blocked \in SUBSET (Keys \ Blocked) /\ Preset(v) \in [Keys \ Blocked -> Versions \cup Values]
  BY DEF Preset
<1>2. v \in Seq(Nat) /\ Missing \in NoFile \cup Customization
  BY FileAssumption DEF NoFile
<1>3. Fresh(v) \in File
  BY <1>1, <1>2, FileMembers DEF Fresh
<1> QED BY <1>3 DEF Fresh, Whole

\* What a customization leaves of a file.
LEMMA CustomizedType ==
  ASSUME NEW file \in File, NEW patch \in Customization,
         NEW checksum \in NoFile \cup Customization
  PROVE  /\ Customized(file, patch, checksum) \in File
         /\ Applies(patch) =>
              /\ Customized(file, patch, checksum).version = file.version \o << CUSTOM >>
              /\ Customized(file, patch, checksum).applied = checksum
              /\ Customized(file, patch, checksum).values = Patched(file.values, patch)
         /\ ~ Applies(patch) =>
              /\ Customized(file, patch, checksum).version = file.version
              /\ Customized(file, patch, checksum).applied = file.applied
<1> DEFINE values == Patched(file.values, patch)
           done == [version |-> file.version \o << CUSTOM >>, applied |-> checksum,
                    values |-> values]
           half == [file EXCEPT !.values = values]
<1>1. PICK ks \in SUBSET (Keys \ Blocked) : file.values \in [ks -> Versions \cup Values]
  BY DEF File
<1>2. PICK all \in SUBSET (Keys \ Blocked) : values \in [all -> Versions \cup Values]
  BY <1>1, PatchedType
<1>3. Customized(file, patch, checksum) = IF Applies(patch) THEN done ELSE half
  BY DEF Customized
<1>4. file.version \o << CUSTOM >> \in Seq(Nat)
  BY DEF CUSTOM, File
<1> HIDE DEF values
<1>5. done \in File
  BY <1>2, <1>4, FileMembers
<1>6. /\ half \in File /\ half.version = file.version /\ half.applied = file.applied
  BY <1>2 DEF File
<1> QED BY <1>3, <1>5, <1>6 DEF values

\* What a crash leaves of a file.
LEMMA CutType ==
  ASSUME NEW file \in File, NEW cut \in Cuts(file)
  PROVE  cut \in File
<1>1. PICK ks \in SUBSET (Keys \ Blocked) : file.values \in [ks -> Versions \cup Values]
  BY DEF File
<1>2. PICK v \in {file.version, << >>}, a \in {file.applied, Missing},
           some \in SUBSET DOMAIN file.values :
        cut = [version |-> v, applied |-> a, values |-> [k \in some |-> file.values[k]]]
  BY DEF Cuts
<1>3. v \in Seq(Nat) /\ a \in NoFile \cup Customization
  <2>1. file.version \in Seq(Nat) /\ file.applied \in NoFile \cup Customization
    BY FileReadable
  <2>2. << >> \in Seq(Nat) /\ Missing \in NoFile
    BY DEF NoFile
  <2> QED BY <2>1, <2>2
<1>4. /\ some \in SUBSET (Keys \ Blocked)
      /\ [k \in some |-> file.values[k]] \in [some -> Versions \cup Values]
  BY <1>1
<1> QED BY <1>2, <1>3, <1>4, FileMembers

\* A whole file that has no customization is as it was copied.
LEMMA WholeFile ==
  ASSUME NEW file \in File, Whole(file)
  PROVE  \E v \in Versions :
           /\ file.version \in {v, v \o << CUSTOM >>}
           /\ file.applied = Missing => file = Fresh(v)
           /\ file.applied # Missing =>
                /\ file.applied \in Customization
                /\ file.values = Patched(Preset(v), file.applied)
           /\ file.applied = Missing => file.values = Preset(v)
<1>1. PICK v \in Versions :
        IF file.applied = Missing THEN file = Fresh(v)
        ELSE /\ file.applied \in Customization /\ Applies(file.applied)
             /\ file = Customized(Fresh(v), file.applied, file.applied)
  BY DEF Whole
<1>2. /\ Fresh(v) \in File /\ Fresh(v).version = v /\ Fresh(v).values = Preset(v)
  BY FreshType
<1>3. CASE file.applied = Missing
  BY <1>1, <1>2, <1>3
<1>4. CASE file.applied # Missing
  <2>1. PICK a \in Customization : a = file.applied
    BY <1>1, <1>4
  <2>2. /\ file.version = v \o << CUSTOM >> /\ file.values = Patched(Preset(v), a)
    BY <1>1, <1>2, <1>4, <2>1, CustomizedType
  <2> QED BY <1>1, <1>4, <2>1, <2>2
<1> QED BY <1>3, <1>4

\* A patch that applies is reached to its end.
LEMMA PatchedHas ==
  ASSUME NEW values, NEW patch \in Customization, Applies(patch)
  PROVE  \A k \in DOMAIN patch :
           k \in DOMAIN Patched(values, patch) /\ Patched(values, patch)[k] = patch[k]
<1> SUFFICES ASSUME NEW k \in DOMAIN patch
             PROVE  k \in DOMAIN Patched(values, patch) /\ Patched(values, patch)[k] = patch[k]
  OBVIOUS
<1>1. PICK i \in 1 .. Len(KeyOrder) : k = KeyOrder[i]
  BY CustomizationOf DEF Keys
<1>2. k \in Reached(patch)
  BY <1>1 DEF Applies, Reached
<1> QED BY <1>2 DEF Patched

\* A whole file is marked as what it is.
LEMMA WholeIsMarked ==
  ASSUME NEW file \in File, Whole(file)
  PROVE  Marked(file)
<1>1. PICK v \in Versions :
        IF file.applied = Missing THEN file = Fresh(v)
        ELSE /\ file.applied \in Customization /\ Applies(file.applied)
             /\ file = Customized(Fresh(v), file.applied, file.applied)
  BY DEF Whole
<1>2. Fresh(v) \in File /\ Fresh(v).version = v
  BY FreshType
<1>3. CASE file.applied = Missing
  BY <1>1, <1>2, <1>3 DEF Marked
<1>4. CASE file.applied # Missing
  <2>1. PICK a \in Customization : a = file.applied /\ Applies(a)
    BY <1>1, <1>4
  <2>2. /\ file.version = v \o << CUSTOM >>
        /\ file.values = Patched(Fresh(v).values, a)
    BY <1>1, <1>2, <1>4, <2>1 DEF Customized
  <2>3. \A k \in DOMAIN a : k \in DOMAIN file.values /\ file.values[k] = a[k]
    BY <2>1, <2>2, PatchedHas
  <2> QED BY <1>4, <2>1, <2>2, <2>3 DEF Marked
<1> QED BY <1>3, <1>4

-----------------------------------------------------------------------------
(* The type                                                                 *)

LEMMA InitType ==
  ASSUME Init PROVE TypeOK
<1>1. dest \in NoFile \cup File
  BY FreshType DEF Init, NoFile
<1>2. custom \in NoFile \cup Customization /\ memory \in NoFile
  BY FileAssumption DEF Init, NoFile
<1>3. budget \in [edits : 0 .. Edits, crashes : 0 .. Crashes]
  BY BoundAssumption DEF Init
<1> QED BY <1>1, <1>2, <1>3 DEF Init, TypeOK

\* The bounds are spent one at a time.
LEMMA SpendType ==
  ASSUME TypeOK, NEW item \in {"edits", "crashes"}, Spend(item)
  PROVE  budget' \in [edits : 0 .. Edits, crashes : 0 .. Crashes]
<1>1. /\ budget \in [edits : 0 .. Edits, crashes : 0 .. Crashes]
      /\ budget[item] > 0 /\ budget' = [budget EXCEPT ![item] = @ - 1]
  BY DEF TypeOK, Spend
<1>2. CASE item = "edits"
  <2>1. budget.edits - 1 \in 0 .. Edits
    BY <1>1, <1>2, BoundAssumption
  <2>2. budget' = [budget EXCEPT !.edits = budget.edits - 1]
    BY <1>1, <1>2
  <2> QED BY <1>1, <2>1, <2>2
<1>3. CASE item = "crashes"
  <2>1. budget.crashes - 1 \in 0 .. Crashes
    BY <1>1, <1>3, BoundAssumption
  <2>2. budget' = [budget EXCEPT !.crashes = budget.crashes - 1]
    BY <1>1, <1>3
  <2> QED BY <1>1, <2>1, <2>2
<1> QED BY <1>2, <1>3

LEMMA StepType ==
  ASSUME TypeOK, [Next]_vars PROVE TypeOK'
<1> USE DEF TypeOK, files, history
<1>1. CASE Begin
  BY <1>1 DEF Begin
<1>2. CASE Copy
  <2>1. dest' \in NoFile \cup File
    BY <1>2, FreshType DEF Copy, NoFile
  <2> QED BY <1>2, <2>1 DEF Copy
<1>3. CASE CopyOnly
  BY <1>3 DEF CopyOnly
<1>4. CASE PatchFails
  BY <1>4 DEF PatchFails
<1>5. CASE Patch
  <2>1. dest \in File /\ custom \in Customization
    BY <1>5 DEF Patch, CanPatch, Readable
  <2>2. dest' \in File
    BY <1>5, <2>1, CustomizedType DEF Patch
  <2>3. flaws' \subseteq {"half-way", "raced", "cut"}
    BY <1>5 DEF Patch, FlawsOfPatch
  <2> QED BY <1>5, <2>2, <2>3 DEF Patch
<1>6. CASE Crash
  <2>1. dest' \in NoFile \cup File
    <3>1. CASE dest' \in {dest, Unreadable}
      BY <3>1 DEF NoFile
    <3>2. CASE dest' \in Cuts(Fresh(source))
      BY <3>2, FreshType, CutType
    <3>3. CASE CanPatch /\ dest' \in Cuts(Customized(dest, custom, memory))
      <4>1. dest \in File /\ custom \in Customization
        BY <3>3 DEF CanPatch, Readable
      <4> QED BY <3>3, <4>1, CustomizedType, CutType
    <3> QED BY <1>6, <3>1, <3>2, <3>3 DEF Crash
  <2>2. budget' \in [edits : 0 .. Edits, crashes : 0 .. Crashes]
    BY <1>6, SpendType DEF Crash
  <2>3. flaws' \subseteq {"half-way", "raced", "cut"}
    BY <1>6 DEF Crash, FlawsOfPatch
  <2> QED BY <1>6, <2>1, <2>2, <2>3 DEF Crash
<1>7. CASE Install
  <2>1. budget' \in [edits : 0 .. Edits, crashes : 0 .. Crashes]
    BY <1>7, SpendType DEF Install
  <2> QED BY <1>7, <2>1 DEF Install
<1>8. CASE EditCustom
  <2>1. budget' \in [edits : 0 .. Edits, crashes : 0 .. Crashes]
    BY <1>8, SpendType DEF EditCustom
  <2>2. custom' \in NoFile \cup Customization
    BY <1>8, FileAssumption DEF EditCustom
  <2> QED BY <1>8, <2>1, <2>2 DEF EditCustom
<1>9. CASE OpenDialog
  <2>1. dialog' \in [patch : Customization, modified : BOOLEAN]
    BY <1>9, CustomizationOf DEF OpenDialog, Readable
  <2> QED BY <1>9, <2>1 DEF OpenDialog
<1>10. CASE Customize
  <2>1. PICK choice \in Chosen :
          dialog' = [modified |-> TRUE, patch |->
            [k \in DOMAIN dialog.patch \cup DOMAIN choice |->
               IF k \in DOMAIN choice THEN choice[k] ELSE dialog.patch[k]]]
    BY <1>10 DEF Customize
  <2>2. dialog.patch \in Customization /\ choice \in Customization
    BY <1>10, FileAssumption DEF Customize
  <2>3. PICK ks \in SUBSET Keys, cs \in SUBSET Keys :
          dialog.patch \in [ks -> Values] /\ choice \in [cs -> Values]
    BY <2>2, CustomizationOf
  <2> DEFINE new == [k \in ks \cup cs |-> IF k \in cs THEN choice[k] ELSE dialog.patch[k]]
  <2>4. new \in [ks \cup cs -> Values] /\ ks \cup cs \in SUBSET Keys
    BY <2>3
  <2>5. new \in Customization
    BY <2>4, CustomizationOf
  <2>6. dialog' = [modified |-> TRUE, patch |-> new]
    BY <2>1, <2>3
  <2> HIDE DEF new
  <2>7. dialog' \in [patch : Customization, modified : BOOLEAN]
    BY <2>5, <2>6
  <2> QED BY <1>10, <2>7 DEF Customize
<1>11. CASE CloseDialog
  <2>1. CASE dialog.modified
    <3>1. budget' \in [edits : 0 .. Edits, crashes : 0 .. Crashes]
      BY <1>11, <2>1, SpendType DEF CloseDialog
    <3> QED BY <1>11, <2>1, <3>1 DEF CloseDialog
  <2>2. CASE ~ dialog.modified
    BY <1>11, <2>2 DEF CloseDialog
  <2> QED BY <2>1, <2>2
<1>12. CASE UNCHANGED vars
  BY <1>12 DEF vars
<1> QED
  BY <1>1, <1>2, <1>3, <1>4, <1>5, <1>6, <1>7, <1>8, <1>9, <1>10, <1>11, <1>12
     DEF Next, Update

-----------------------------------------------------------------------------
(* The invariant                                                            *)

LEMMA InitInv ==
  ASSUME Init PROVE IInv
<1>1. TypeOK
  BY InitType
<1>2. Readable(dest) => Whole(dest) /\ Marked(dest)
  BY FreshType, WholeIsMarked DEF Init, Readable, NoFile
<1>3. step = "idle" /\ last = "edited"
  BY DEF Init
<1> QED
  BY <1>1, <1>2, <1>3
     DEF IInv, CopyInv, PatchInv, UpdatedIsUpToDate, FailsForAReason, Updated, Checked

\* What is up to date can be read.
LEMMA CurrentReadable ==
  ASSUME TypeOK, ~ same_file, ~ Redistribute(VersionOf(dest))
  PROVE  dest \in File
<1>1. source \in Seq(Nat) /\ source # << >>
  BY FileAssumption DEF TypeOK
<1>2. ASSUME ~ Readable(dest) PROVE FALSE
  <2>1. VersionOf(dest) = << >>
    BY <1>2 DEF VersionOf
  <2> QED BY <1>1, <2>1, CompareNothing DEF Redistribute
<1> QED BY <1>2 DEF TypeOK, Readable

\* What control passes over when it begins: nothing to do, a fresh copy, or a
\* copy that has no customization yet.
LEMMA BeginStep ==
  ASSUME IInv, Begin PROVE CopyInv' /\ PatchInv' /\ UpdatedIsUpToDate' /\ FailsForAReason'
<1>1. UNCHANGED << files, flaws >> /\ memory' = custom /\ step = "idle"
  BY DEF Begin
<1>2. CopyInv'
  BY <1>1 DEF IInv, CopyInv, files, Readable, Whole, Marked
<1>3. CASE ~ NeedUpdate /\ last' = "up to date" /\ UNCHANGED step
  BY <1>1, <1>2, <1>3
     DEF PatchInv, UpdatedIsUpToDate, FailsForAReason, NeedUpdate, Redistribute,
         files, Checked, Updated
<1>4. CASE /\ NeedUpdate
           /\ step' = IF \/ Redistribute(VersionOf(dest))
                         \/ AppliedOf(dest) # Missing
                      THEN "copy" ELSE "patch"
  <2>1. step' # "idle"
    BY <1>4
  <2>2. PatchInv'
    BY <1>1, <1>4 DEF PatchInv, Redistribute, files
  <2> QED BY <1>2, <2>1, <2>2 DEF UpdatedIsUpToDate, FailsForAReason, Checked, Updated
<1> QED BY <1>3, <1>4 DEF Begin

LEMMA CopyStep ==
  ASSUME IInv, Copy PROVE CopyInv' /\ PatchInv' /\ UpdatedIsUpToDate' /\ FailsForAReason'
<1>1. UNCHANGED << same_file, source, custom, memory >> /\ step = "copy"
  BY DEF Copy
<1>2. CASE ~ same_file /\ dest' = Fresh(source) /\ step' = "patch"
  <2>1. source \in Versions /\ source \in Seq(Nat)
    BY FileAssumption DEF IInv, TypeOK
  <2>2. /\ Whole(dest') /\ Marked(dest')
        /\ AppliedOf(dest') = Missing /\ VersionOf(dest') = source
    BY <1>2, <2>1, FreshType, FileReadable, WholeIsMarked
  <2>3. CompareVersionString(source, source) <= 0
    BY <2>1, CompareSame
  <2>4. ~ Redistribute(VersionOf(dest))'
    BY <1>1, <1>2, <2>2, <2>3, CompareInt, <2>1 DEF Redistribute
  <2> QED
    BY <1>1, <1>2, <2>2, <2>4
       DEF CopyInv, PatchInv, UpdatedIsUpToDate, FailsForAReason, Checked, Updated
<1>3. CASE same_file /\ dest' = Unreadable /\ step' = "patch"
  <2>1. AppliedOf(dest') = Missing
    BY <1>3 DEF AppliedOf, Readable, NoFile
  <2> QED
    BY <1>1, <1>3, <2>1
       DEF CopyInv, PatchInv, UpdatedIsUpToDate, FailsForAReason, Checked, Updated, Redistribute
<1>4. CASE same_file /\ step' = "idle" /\ last' = "failed" /\ UNCHANGED << dest, flaws >>
  BY <1>1, <1>4
     DEF CopyInv, PatchInv, UpdatedIsUpToDate, FailsForAReason, Checked, Updated
<1> QED BY <1>2, <1>3, <1>4 DEF Copy

LEMMA CopyOnlyStep ==
  ASSUME IInv, CopyOnly PROVE CopyInv' /\ PatchInv' /\ UpdatedIsUpToDate' /\ FailsForAReason'
<1>1. /\ UNCHANGED << files, memory, flaws >> /\ step = "patch" /\ memory = Missing
      /\ step' = "idle" /\ last' = "updated"
  BY DEF CopyOnly
<1>2. AppliedOf(dest) = Missing /\ ~ Redistribute(VersionOf(dest))
  BY <1>1 DEF IInv, PatchInv
<1>3. CopyInv'
  BY <1>1 DEF IInv, CopyInv, files, Readable, Whole, Marked
<1>4. UpdatedIsUpToDate'
  BY <1>1, <1>2 DEF UpdatedIsUpToDate, Updated, NeedUpdate, files, Redistribute
<1> QED BY <1>1, <1>3, <1>4 DEF PatchInv, FailsForAReason

LEMMA PatchFailsStep ==
  ASSUME IInv, PatchFails PROVE CopyInv' /\ PatchInv' /\ UpdatedIsUpToDate' /\ FailsForAReason'
<1>1. /\ UNCHANGED << files, memory, flaws >> /\ step = "patch" /\ memory # Missing
      /\ ~ CanPatch /\ step' = "idle" /\ last' = "failed"
  BY DEF PatchFails
<1>2. CopyInv'
  BY <1>1 DEF IInv, CopyInv, files, Readable, Whole, Marked
<1>3. ASSUME ~ same_file PROVE ~ Readable(custom)
  <2>1. dest \in File
    BY <1>1, <1>3, CurrentReadable DEF IInv, PatchInv
  <2> QED BY <1>1, <2>1, FileReadable DEF CanPatch
<1>4. FailsForAReason'
  BY <1>1, <1>3 DEF FailsForAReason, Checked, Updated, files, Readable
<1> QED BY <1>1, <1>2, <1>4 DEF PatchInv, UpdatedIsUpToDate, Updated

LEMMA PatchedCopy ==
  ASSUME TypeOK, CopyInv, PatchInv, CanPatch, ~ same_file
  PROVE  LET new == Customized(dest, custom, memory)
         IN /\ FlawsOfPatch = {} => Whole(new)
            /\ FlawsOfPatch \subseteq {"half-way"} => Marked(new)
<1> DEFINE new == Customized(dest, custom, memory)
<1>1. /\ dest \in File /\ Readable(dest) /\ custom \in Customization
      /\ memory \in NoFile \cup Customization /\ dest.applied = Missing
  BY FileReadable DEF TypeOK, CanPatch, PatchInv, Readable
<1>2. ASSUME FlawsOfPatch = {} PROVE Whole(new)
  <2>1. flaws = {} /\ custom = memory /\ Applies(custom)
    BY <1>2 DEF FlawsOfPatch
  <2>2. PICK v \in Versions : dest = Fresh(v)
    BY <1>1, <2>1, WholeFile DEF CopyInv
  <2>3. new = Customized(Fresh(v), custom, custom) /\ new.applied = custom
    BY <1>1, <2>1, <2>2, CustomizedType
  <2>4. custom # Missing
    BY <1>1, NoFileAssumption DEF NoFile
  <2> HIDE DEF new
  <2> QED BY <1>1, <2>1, <2>3, <2>4 DEF Whole
<1>3. ASSUME FlawsOfPatch \subseteq {"half-way"} PROVE Marked(new)
  <2>1. flaws \subseteq {"half-way"} /\ custom = memory
    BY <1>3 DEF FlawsOfPatch
  <2>2. PICK v \in Versions : dest.version = v
    BY <1>1, <2>1 DEF CopyInv, Marked
  <2>3. CASE Applies(custom)
    <3>1. /\ new.version = v \o << CUSTOM >> /\ new.applied = custom
          /\ new.values = Patched(dest.values, custom)
      BY <1>1, <2>1, <2>2, <2>3, CustomizedType
    <3>2. \A k \in DOMAIN custom : k \in DOMAIN new.values /\ new.values[k] = custom[k]
      BY <1>1, <2>3, <3>1, PatchedHas
    <3>3. custom # Missing
      BY <1>1, NoFileAssumption DEF NoFile
    <3> HIDE DEF new
    <3> QED BY <1>1, <3>1, <3>2, <3>3 DEF Marked
  <2>4. CASE ~ Applies(custom)
    <3>1. new.version = v /\ new.applied = Missing
      BY <1>1, <2>2, <2>4, CustomizedType
    <3> HIDE DEF new
    <3> QED BY <3>1 DEF Marked
  <2> QED BY <2>3, <2>4
<1> QED BY <1>2, <1>3

LEMMA PatchStep ==
  ASSUME IInv, Patch PROVE CopyInv' /\ PatchInv' /\ UpdatedIsUpToDate' /\ FailsForAReason'
<1>1. /\ UNCHANGED << same_file, source, custom, memory >> /\ step = "patch"
      /\ dest' = Customized(dest, custom, memory) /\ step' = "idle"
      /\ flaws' = FlawsOfPatch
      /\ last' = IF Applies(custom) THEN "updated" ELSE "failed"
      /\ Readable(dest) /\ Readable(custom) /\ memory # Missing /\ CanPatch
  BY DEF Patch, CanPatch
<1>2. /\ dest \in File /\ custom \in Customization
      /\ memory \in NoFile \cup Customization /\ source \in Seq(Nat)
  BY <1>1, FileAssumption DEF IInv, TypeOK, Readable
<1>3. dest' \in File /\ Readable(dest') /\ VersionOf(dest') = dest'.version
      /\ AppliedOf(dest') = dest'.applied /\ dest.applied = Missing
      /\ VersionOf(dest) = dest.version /\ dest.version \in Seq(Nat)
  BY <1>1, <1>2, CustomizedType, FileReadable DEF IInv, PatchInv
<1>4. CopyInv'
  BY <1>1, PatchedCopy DEF IInv, CopyInv
<1>5. CASE ~ Applies(custom)
  BY <1>1, <1>4, <1>5 DEF PatchInv, UpdatedIsUpToDate, FailsForAReason, Checked, Updated, Applies, Failing
<1>6. CASE Applies(custom)
  <2>1. dest'.version = dest.version \o << CUSTOM >> /\ dest'.applied = memory
    BY <1>1, <1>2, <1>6, CustomizedType
  <2>2. ~ same_file => ~ (CompareVersionString(source, dest'.version) > 0)
    <3>1. ASSUME ~ same_file PROVE CompareVersionString(source, dest.version) <= 0
      BY <1>1, <1>2, <1>3, <3>1, CompareInt DEF IInv, PatchInv, Redistribute
    <3>2. dest'.version \in Seq(Nat)
      BY <1>3, FileReadable
    <3>3. CompareVersionString(source, dest'.version) \in Int
      BY <1>2, <3>2, CompareInt
    <3>4. ASSUME ~ same_file PROVE CompareVersionString(source, dest'.version) <= 0
      <4>1. CompareVersionString(source, dest.version) <= 0
        BY <3>1, <3>4
      <4>2. CompareVersionString(source, dest.version \o << CUSTOM >>) <= 0
        BY <1>2, <1>3, <4>1, CompareCustom
      <4> QED BY <2>1, <4>2
    <3> QED BY <3>3, <3>4
  <2>3. UpdatedIsUpToDate'
    BY <1>1, <1>3, <2>1, <2>2 DEF UpdatedIsUpToDate, NeedUpdate, Redistribute
  <2> QED BY <1>1, <1>4, <1>6, <2>3 DEF PatchInv, FailsForAReason
<1> QED BY <1>5, <1>6

LEMMA CrashStep ==
  ASSUME IInv, Crash PROVE CopyInv' /\ PatchInv' /\ UpdatedIsUpToDate' /\ FailsForAReason'
<1>1. step' = "idle" /\ last' = "crashed" /\ UNCHANGED same_file
  BY DEF Crash
<1>2. CopyInv'
  <2>1. CASE dest' = dest /\ UNCHANGED flaws
    BY <1>1, <2>1 DEF IInv, CopyInv, Readable, Whole, Marked
  <2>2. CASE dest' = Unreadable
    <3>1. ~ Readable(dest')
      BY <2>2 DEF Readable, NoFile
    <3> QED BY <3>1, Zenon DEF CopyInv
  <2>3. CASE "cut" \in flaws'
    <3>1. ~ (flaws' \subseteq {"half-way"}) /\ flaws' # {}
      BY <2>3
    <3> QED BY <3>1 DEF CopyInv
  <2>4. CASE ~ same_file /\ dest' = Fresh(source)
    <3>1. dest' \in File /\ Whole(dest') /\ Marked(dest')
      BY <2>4, FreshType, WholeIsMarked DEF IInv, TypeOK
    <3> QED BY <3>1 DEF CopyInv
  <2>5. CASE CanPatch /\ dest' = Customized(dest, custom, memory) /\ flaws' = FlawsOfPatch
    BY <1>1, <2>5, PatchedCopy DEF IInv, CopyInv
  <2>6. \/ dest' \in {dest, Unreadable} /\ UNCHANGED flaws
        \/ /\ ~ same_file
           /\ flaws' = IF dest' = Fresh(source) THEN {} ELSE {"cut"}
        \/ /\ CanPatch
           /\ flaws' = FlawsOfPatch \cup (IF dest' = Customized(dest, custom, memory)
                                         THEN {} ELSE {"cut"})
    BY DEF Crash
  <2> QED BY <2>1, <2>2, <2>3, <2>4, <2>5, <2>6
<1> QED BY <1>1, <1>2 DEF PatchInv, UpdatedIsUpToDate, Updated, FailsForAReason

\* What the user does changes no copy, and no update that goes on.
LEMMA UserStep ==
  ASSUME IInv, Install \/ EditCustom \/ OpenDialog \/ Customize \/ CloseDialog
  PROVE  CopyInv' /\ PatchInv' /\ UpdatedIsUpToDate' /\ FailsForAReason'
<1>1. UNCHANGED << same_file, dest, step, memory, flaws >>
  BY DEF Install, EditCustom, OpenDialog, Customize, CloseDialog, files, history
<1>2. CopyInv'
  BY <1>1 DEF IInv, CopyInv, Readable, Whole, Marked
<1>3. PatchInv'
  <2>1. step = "patch" => UNCHANGED source
    BY DEF Install, EditCustom, OpenDialog, Customize, CloseDialog, files
  <2> QED BY <1>1, <2>1 DEF IInv, PatchInv, Redistribute
<1>4. \/ last' = "edited"
      \/ UNCHANGED << source, custom, last >>
  BY DEF Install, EditCustom, OpenDialog, Customize, CloseDialog, files, history
<1>5. UpdatedIsUpToDate' /\ FailsForAReason'
  BY <1>1, <1>4
     DEF IInv, UpdatedIsUpToDate, FailsForAReason, NeedUpdate, Redistribute,
         Checked, Updated, Readable
<1> QED BY <1>2, <1>3, <1>5

LEMMA StepInv ==
  ASSUME IInv, [Next]_vars PROVE IInv'
<1>1. TypeOK'
  BY StepType DEF IInv
<1>2. CASE UNCHANGED vars
  BY <1>1, <1>2
     DEF vars, files, history, IInv, CopyInv, PatchInv, UpdatedIsUpToDate,
         FailsForAReason, NeedUpdate, Redistribute, Checked, Updated, Readable, Whole, Marked
<1> QED
  BY <1>1, <1>2, BeginStep, CopyStep, CopyOnlyStep, PatchFailsStep, PatchStep,
     CrashStep, UserStep
     DEF Next, Update, IInv

LEMMA Always == Spec => []IInv
<1>1. Init => IInv
  BY InitInv
<1>2. IInv /\ [Next]_vars => IInv'
  BY StepInv
<1> QED BY <1>1, <1>2, PTL DEF Spec

-----------------------------------------------------------------------------
(* Theorems                                                                 *)

\* A customized copy stays a file with a version, the customization that is
\* applied to it and values for keys that can be set, whatever a crash leaves.
THEOREM TypeCorrect == Spec => []TypeOK
<1>1. IInv => TypeOK
  BY DEF IInv
<1> QED BY <1>1, Always, PTL

\* When an update reports that the copy is up to date, it is a copy of no older
\* release with the present customization, exactly if it was made in one piece, and
\* the next update has nothing to do; a failure is the fault of the customization
\* (customizer.cc, UpdateConfigFile).
THEOREM Truthful ==
  ASSUME NoPieceZeroAdded
  PROVE  Spec => []UpdateReportsTruly
<1>1. ASSUME IInv, Checked, Updated, flaws \subseteq {"half-way"}
      PROVE  Effective /\ (flaws = {} => Faithful)
  <2>1. ~ same_file /\ ~ NeedUpdate /\ TypeOK
    BY <1>1 DEF IInv, UpdatedIsUpToDate, Checked
  <2>2. dest \in File
    BY <2>1, CurrentReadable DEF NeedUpdate
  <2>3. /\ Readable(dest) /\ dest.applied = custom /\ dest.version \in Seq(Nat)
        /\ VersionOf(dest) = dest.version /\ source \in Versions /\ source \in Seq(Nat)
    BY <2>1, <2>2, FileReadable, FileAssumption DEF NeedUpdate, TypeOK
  <2>4. CompareVersionString(source, dest.version) <= 0
    BY <2>1, <2>3, CompareInt DEF NeedUpdate, Redistribute
  <2>5. ASSUME NEW v \in Versions, dest.version \in {v, v \o << CUSTOM >>}
        PROVE  CopyOf(v)
    <3>1. v \in Seq(Nat) /\ GoesOnBehind(source, v)
      BY <2>3, FileAssumption DEF NoPieceZeroAdded
    <3>2. ~ Newer(source, v)
      BY <2>3, <2>4, <2>5, <3>1, NotNewer
    <3> QED BY <2>5, <3>2 DEF CopyOf
  <2>6. PICK v \in Versions :
          IF dest.applied = Missing THEN dest.version = v
          ELSE /\ dest.applied \in Customization /\ dest.version = v \o << CUSTOM >>
               /\ \A k \in DOMAIN dest.applied :
                    k \in DOMAIN dest.values /\ dest.values[k] = dest.applied[k]
    BY <1>1, <2>1, <2>3 DEF IInv, CopyInv, Marked
  <2>7. Tells
    <3>1. custom # Unreadable
      BY <2>3, <2>6, NoFileAssumption DEF NoFile
    <3> QED BY <2>3, <3>1 DEF Tells
  <2>8. \A k \in DOMAIN Patching : k \in DOMAIN dest.values /\ dest.values[k] = Patching[k]
    BY <2>3, <2>6 DEF Patching
  <2>9. Effective
    <3>1. CopyOf(v)
      BY <2>5, <2>6
    <3> QED BY <2>7, <2>8, <3>1 DEF Effective
  <2>10. ASSUME flaws = {} PROVE Faithful
    <3>1. PICK w \in Versions :
            /\ dest.version \in {w, w \o << CUSTOM >>}
            /\ dest.applied # Missing => dest.values = Patched(Preset(w), dest.applied)
            /\ dest.applied = Missing => dest.values = Preset(w)
      BY <1>1, <2>1, <2>2, <2>3, <2>10, WholeFile DEF IInv, CopyInv
    <3>2. dest.values = Patched(Preset(w), Patching)
      <4>1. Patched(Preset(w), [k \in {} |-> 0]) = Preset(w)
        <5>1. Reached([k \in {} |-> 0]) = {}
          BY DEF Reached
        <5> QED BY <5>1 DEF Patched, Preset
      <4> QED BY <2>3, <3>1, <4>1 DEF Patching
    <3>3. CopyOf(w)
      BY <2>5, <3>1
    <3> QED BY <2>7, <3>2, <3>3 DEF Faithful
  <2> QED BY <2>9, <2>10
<1>2. IInv => UpdateReportsTruly
  BY <1>1 DEF IInv, UpdateReportsTruly, UpdatedIsEffective, UpdatedIsFaithful
<1> QED BY <1>2, Always, PTL
=============================================================================
