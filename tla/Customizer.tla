----------------------------- MODULE Customizer -----------------------------
(***************************************************************************)
(* A configuration file of the user: a copy of the file that is distributed, *)
(* with the customization of the user applied.  The deployer keeps the copy   *)
(* up to date, whichever of the files has changed; a settings dialog and the  *)
(* user, with a text editor, change the customization.                      *)
(*                                                                         *)
(* The process may die between two steps of an update, and while it writes.  *)
(* The checksum of a customization stands for its contents.                 *)
(***************************************************************************)
EXTENDS Integers, Sequences, FiniteSets

CONSTANTS
  Versions,    \* the versions that are distributed; the pieces of a version as
               \* even numbers
  Values,      \* what an item may be set to
  Patches,     \* the patches the user may write, from keys to values
  KeyOrder,    \* the keys, in the order in which a patch is applied
  Blocked,     \* keys that cannot be set: the path leads through a value
  Chosen,      \* the patches that the settings dialog may add
  Missing,     \* a file that is not there
  Unreadable,  \* a file that does not parse, or has no document
  Edits, Crashes   \* bounds: how often the user changes a file and the
                   \* process dies

Keys == {KeyOrder[i] : i \in 1 .. Len(KeyOrder)}
Customization == UNION {[ks -> Values] : ks \in SUBSET Keys}
NoFile == {Missing, Unreadable}

\* A file tells its version and the customization that is applied to it.
File ==
  [version : Seq(Nat), applied : NoFile \cup Customization,
   values : UNION {[ks -> Versions \cup Values] : ks \in SUBSET (Keys \ Blocked)}]

ASSUME BoundAssumption == Edits \in Nat /\ Crashes \in Nat
ASSUME FileAssumption ==
  /\ Blocked \subseteq Keys /\ Patches \cup Chosen \subseteq Customization
  /\ \A v \in Versions : v \in Seq(Nat) /\ v # << >>
\* "not there" and "does not parse" are no contents
ASSUME NoFileAssumption ==
  /\ Missing # Unreadable
  /\ \A none \in NoFile : none \notin Customization /\ none \notin File

VARIABLES
  same_file, \* the distributed file is missing from the shared directory, and
             \* the user's is both source and destination
  source,    \* the version that is distributed
  dest,      \* the copy in the user directory
  custom,    \* <name>.custom.yaml
  step,      \* where the customizer is in UpdateConfigFile
  memory,    \* what it has read
  dialog,    \* CustomSettings: the customization as loaded, and changed
  budget,    \* what is left of the bounds
  last,      \* history: how the last update has ended
  flaws      \* history: what has happened to dest since it was copied: patched
             \* half-way, patched with another file than the one checked ("raced"),
             \* cut by a crash to something that still parses

files == << same_file, source, dest, custom >>
history == << last, flaws >>
vars == << files, step, memory, dialog, budget, history >>

-----------------------------------------------------------------------------
(* Versions and files                                                       *)

\* Mutant: "custom" is greater than piece 1.
CUSTOMLast == 3

\* "custom" in a version counts as 0, and its letters come after every digit:
\* it is greater than piece 0, less than piece 1.
CUSTOM == 1

Common(x, y) == 1 .. (IF Len(x) < Len(y) THEN Len(x) ELSE Len(y))
CompareVersionString(x, y) ==
  LET differ == {i \in Common(x, y) : x[i] # y[i]} IN
  IF differ = {} THEN Len(x) - Len(y)
  ELSE LET i == CHOOSE j \in differ : \A k \in differ : j <= k IN x[i] - y[i]

Preset(v) == [k \in Keys \ Blocked |-> v]
Fresh(v) == [version |-> v, applied |-> Missing, values |-> Preset(v)]
Readable(file) == file \notin NoFile
VersionOf(file) == IF Readable(file) THEN file.version ELSE << >>
AppliedOf(file) == IF Readable(file) THEN file.applied ELSE Missing

\* The patch is applied up to the first key that cannot be set.
Failing(patch) == {i \in 1 .. Len(KeyOrder) :
                     KeyOrder[i] \in Blocked \cap DOMAIN patch}
Applies(patch) == Failing(patch) = {}

Reached(patch) ==
  {KeyOrder[i] : i \in {j \in 1 .. Len(KeyOrder) :
                          \A k \in Failing(patch) : j < k}} \cap DOMAIN patch
Patched(values, patch) ==
  [k \in DOMAIN values \cup Reached(patch) |->
     IF k \in Reached(patch) THEN patch[k] ELSE values[k]]

\* The destructor of ConfigData saves what has been modified: when an item
\* cannot be set, the items before it are in the file all the same, and neither
\* its version nor its customization tell.
Customized(file, patch, checksum) ==
  LET values == Patched(file.values, patch) IN
  IF Applies(patch)
  THEN [version |-> file.version \o << CUSTOM >>, applied |-> checksum,
        values |-> values]
  ELSE [file EXCEPT !.values = values]

\* What a crash may leave of a file that was being written, as far as it parses
Cuts(file) ==
  {[version |-> v, applied |-> a, values |-> [k \in ks |-> file.values[k]]] :
     v \in {file.version, << >>}, a \in {file.applied, Missing},
     ks \in SUBSET DOMAIN file.values}

-----------------------------------------------------------------------------
(* Customizer::UpdateConfigFile                                             *)

Redistribute(version) ==
  /\ ~ same_file
  /\ CompareVersionString(source, version) > 0
\* Mutant: only the version is looked at.
NeedUpdateByVersion == Redistribute(VersionOf(dest))

NeedUpdate == Redistribute(VersionOf(dest)) \/ AppliedOf(dest) # custom

Spend(item) == budget[item] > 0 /\ budget' = [budget EXCEPT ![item] = @ - 1]

\* What has been read of the customization is its checksum.
Begin ==
  /\ step = "idle"
  /\ \/ /\ ~ NeedUpdate
        /\ last' = "up to date" /\ UNCHANGED step
     \/ /\ NeedUpdate /\ UNCHANGED last
        /\ step' = IF \/ Redistribute(VersionOf(dest))
                      \/ AppliedOf(dest) # Missing
                   THEN "copy" ELSE "patch"
  /\ memory' = custom
  /\ UNCHANGED << files, dialog, budget, flaws >>

\* Mutant: what the old customization has changed stays.
CopyOverUnreadable ==
  /\ step = "copy" /\ step' = "patch"
  /\ dest' = IF Readable(dest)
             THEN [dest EXCEPT !.version = source, !.applied = Missing]
             ELSE Fresh(source)
  /\ flaws' = {}
  /\ UNCHANGED << same_file, source, custom, memory, dialog, budget, last >>

\* A file that is copied onto itself is truncated before it is read, or is
\* refused by the system.
Copy ==
  /\ step = "copy"
  /\ \/ /\ ~ same_file
        /\ dest' = Fresh(source) /\ flaws' = {}
        /\ step' = "patch" /\ UNCHANGED last
     \/ /\ same_file
        /\ dest' = Unreadable /\ step' = "patch" /\ UNCHANGED << flaws, last >>
     \/ /\ same_file
        /\ step' = "idle" /\ last' = "failed" /\ UNCHANGED << dest, flaws >>
  /\ UNCHANGED << same_file, source, custom, memory, dialog, budget >>

\* Without a customization there is nothing to patch.
CopyOnly ==
  /\ step = "patch" /\ memory = Missing
  /\ step' = "idle" /\ last' = "updated"
  /\ UNCHANGED << files, memory, dialog, budget, flaws >>

CanPatch ==
  step = "patch" /\ memory # Missing /\ Readable(dest) /\ Readable(custom)

PatchFails ==
  /\ step = "patch" /\ memory # Missing /\ ~ CanPatch
  /\ step' = "idle" /\ last' = "failed"
  /\ UNCHANGED << files, memory, dialog, budget, flaws >>

FlawsOfPatch ==
  flaws \cup (IF Applies(custom) THEN {} ELSE {"half-way"})
        \cup (IF custom = memory THEN {} ELSE {"raced"})

Patch ==
  /\ CanPatch
  /\ dest' = Customized(dest, custom, memory) /\ flaws' = FlawsOfPatch
  /\ step' = "idle" /\ last' = IF Applies(custom) THEN "updated" ELSE "failed"
  /\ UNCHANGED << same_file, source, custom, memory, dialog, budget >>

\* The process dies, also while it writes the file in place.
Crash ==
  /\ step # "idle" /\ Spend("crashes")
  /\ \/ dest' \in {dest, Unreadable} /\ UNCHANGED flaws
     \/ /\ step = "copy" /\ ~ same_file
        /\ dest' \in Cuts(Fresh(source))
        /\ flaws' = IF dest' = Fresh(source) THEN {} ELSE {"cut"}
     \/ /\ CanPatch
        /\ dest' \in Cuts(Customized(dest, custom, memory))
        /\ flaws' = FlawsOfPatch \cup (IF dest' = Customized(dest, custom, memory)
                                      THEN {} ELSE {"cut"})
  /\ step' = "idle" /\ last' = "crashed" /\ dialog' = Missing
  /\ UNCHANGED << same_file, source, custom, memory >>

-----------------------------------------------------------------------------
(* The user                                                                 *)

\* A new release is installed, or an older one.
Install ==
  /\ step = "idle" /\ Spend("edits")
  /\ \E v \in Versions \ {source} : source' = v
  /\ last' = "edited"
  /\ UNCHANGED << same_file, dest, custom, step, memory, dialog, flaws >>

\* The user edits the customization, at any time.
EditCustom ==
  /\ Spend("edits")
  /\ custom' \in (NoFile \cup Patches) \ {custom}
  /\ last' = "edited"
  /\ UNCHANGED << same_file, source, dest, step, memory, dialog, flaws >>

\* CustomSettings::Load: a file that does not parse is empty.
OpenDialog ==
  /\ dialog = Missing /\ step = "idle"
  /\ dialog' = [patch |-> IF Readable(custom) THEN custom ELSE [k \in {} |-> 0],
                modified |-> FALSE]
  /\ UNCHANGED << files, step, memory, budget, history >>

Customize ==
  /\ dialog # Missing /\ ~ dialog.modified
  /\ \E choice \in Chosen :
       dialog' = [modified |-> TRUE, patch |->
         [k \in DOMAIN dialog.patch \cup DOMAIN choice |->
            IF k \in DOMAIN choice THEN choice[k] ELSE dialog.patch[k]]]
  /\ UNCHANGED << files, step, memory, budget, history >>

\* Saved, or cancelled: what has been modified is saved at the latest when
\* CustomSettings is destroyed.
CloseDialog ==
  /\ dialog # Missing /\ step = "idle"
  /\ \/ /\ dialog.modified /\ Spend("edits")
        /\ custom' = dialog.patch /\ last' = "edited"
     \/ /\ ~ dialog.modified
        /\ UNCHANGED << custom, budget, last >>
  /\ dialog' = Missing
  /\ UNCHANGED << same_file, source, dest, step, memory, flaws >>

-----------------------------------------------------------------------------
Init ==
  /\ same_file \in BOOLEAN
  /\ source \in Versions /\ custom \in NoFile \cup Patches
  /\ dest \in {Fresh(v) : v \in Versions}
               \cup (IF same_file THEN {} ELSE {Missing})
  /\ step = "idle" /\ memory = Missing /\ dialog = Missing
  /\ budget = [edits |-> Edits, crashes |-> Crashes]
  /\ last = "edited" /\ flaws = {}

Update == Begin \/ Copy \/ CopyOnly \/ PatchFails \/ Patch
Next == Update \/ Crash \/ Install \/ EditCustom
        \/ OpenDialog \/ Customize \/ CloseDialog

Spec == Init /\ [][Next]_vars

\* The deployer runs whenever the application starts, and an update goes on.
FairSpec == Spec /\ WF_vars(Update)

-----------------------------------------------------------------------------
(* Properties                                                               *)

TypeOK ==
  /\ same_file \in BOOLEAN /\ source \in Versions
  /\ dest \in NoFile \cup File
  /\ custom \in NoFile \cup Customization /\ memory \in NoFile \cup Customization
  /\ step \in {"idle", "copy", "patch"}
  /\ dialog # Missing => dialog \in [patch : Customization, modified : BOOLEAN]
  /\ budget \in [edits : 0 .. Edits, crashes : 0 .. Crashes]
  /\ last \in {"edited", "up to date", "updated", "failed", "crashed"}
  /\ flaws \subseteq {"half-way", "raced", "cut"}

\* A release is newer than another if its piece is larger where they first differ,
\* or if it goes on where the other ends.
Newer(w, v) ==
  \E i \in 1 .. Len(w) :
    /\ \A j \in 1 .. i - 1 : j <= Len(v) /\ w[j] = v[j]
    /\ i <= Len(v) => w[i] > v[i]

\* The copy is of v, which is the present release or was not older than that,
CopyOf(v) ==
  v \in Versions /\ dest.version \in {v, v \o << CUSTOM >>} /\ ~ Newer(source, v)

\* with the present customization, every key that it sets having its value, and
\* nothing else changed.
Patching == IF custom = Missing THEN [k \in {} |-> 0] ELSE custom
Tells == Readable(dest) /\ custom # Unreadable /\ dest.applied = custom
Effective ==
  /\ Tells /\ \E v \in Versions : CopyOf(v)
  /\ \A k \in DOMAIN Patching : k \in DOMAIN dest.values /\ dest.values[k] = Patching[k]
Faithful ==
  /\ Tells
  /\ \E v \in Versions : CopyOf(v) /\ dest.values = Patched(Preset(v), Patching)

\* (The user's own file, when it is what is distributed, has nothing to be
\* restored from.)
Checked == ~ same_file /\ step = "idle" /\ memory = custom
Updated == last \in {"updated", "up to date"}
UpdatedIsEffective == Checked /\ Updated /\ flaws \subseteq {"half-way"} => Effective
UpdatedIsFaithful == Checked /\ Updated /\ flaws = {} => Faithful
UpdatedIsUpToDate ==
  step = "idle" /\ memory = custom /\ Updated => ~ NeedUpdate
FailsForAReason ==
  Checked /\ last = "failed" => ~ Readable(custom) \/ ~ Applies(custom)

\* What an update says is true.  When it is done, the next one has nothing to do,
\* no release newer than the one that was copied is installed, and every key that
\* the present customization sets has its value ("1.0 Y 1.0.custom.X --> Update:
\* 1.0.custom.Y", customizer.cc), whatever was installed, edited or removed before
\* and wherever the process died; nothing else is changed, if the copy was not
\* patched half-way before.  When it has failed, something is wrong with the
\* customization.  Not true is what it says of a copy that a crash has cut to
\* something that parses, or that was patched with a customization written
\* between the checksum and the patch and taken back since: the code takes these
\* for up to date.
UpdateReportsTruly ==
  UpdatedIsEffective /\ UpdatedIsFaithful /\ UpdatedIsUpToDate /\ FailsForAReason

\* Whatever has happened to it, the copy is mended by the updates that follow,
\* unless it has one of the flaws.
Good == ~ same_file /\ flaws = {} /\ Readable(custom) /\ Applies(custom)
Mended ==
  (Good /\ budget.edits = 0 /\ budget.crashes = 0) ~> Faithful
=============================================================================
