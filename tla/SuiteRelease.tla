----------------------------- MODULE SuiteRelease -----------------------------
(* A release of the suite and of the contract package it pins: the checks  *)
(* of a pull request (scripts/openwop-check.sh), the publishing run of a   *)
(* tag (.github/workflows/openwop-publish.yml), the registry that shows a  *)
(* version some time after it was published, the alarm for a pin that was  *)
(* never published (scripts/check-pending-suite-release.mjs), and the      *)
(* suite that refuses a contract it was not packed against                 *)
(* (lib/corpus-stamp.ts). Contents are model values; the contract is a     *)
(* function from its files. A tag is pushed when the run of the one before *)
(* has ended and the registry shows all that was published, and the hours  *)
(* pass between the runs: a run takes minutes.                             *)
EXTENDS Integers, Sequences, SequencesExt, FiniteSets

CONSTANTS
  SuiteContents,      \* contents of the suite
  Contracts,          \* contents of the contract, functions of one set of files
  ReleaseVersions,    \* versions, in the order they are used
  MergeLimit,         \* merges to main
  TagLimit,           \* tags pushed
  LastHour,           \* the clock
  GRACE_HOURS,        \* how long a pin may be unpublished
  HISTORY_LIMIT       \* commits of the manifest the alarm looks back at

ASSUME ReleaseAssumption ==
  /\ GRACE_HOURS \in Nat
  /\ HISTORY_LIMIT \in Nat \ {0}
  /\ SuiteContents # {} /\ Contracts # {} /\ ReleaseVersions # << >>
  /\ \A c \in Contracts : c = [file \in DOMAIN c |-> c[file]]
  /\ \A c, d \in Contracts : DOMAIN c = DOMAIN d

VARIABLES releaseTree, manifestLog, npmRegistry, shown, tagRun, tagsPushed, hour

releaseVars == <<releaseTree, manifestLog, npmRegistry, shown, tagRun, tagsPushed, hour>>

NoRun == [tree |-> "none", stage |-> "none", failed |-> FALSE]

-----------------------------------------------------------------------------
(* Packing. The stamp names the version and the digest of every file; the  *)
(* commit it was written at is in the file and not in the digest.          *)
StampOf(tree) == [version |-> tree.peerVersion, files |-> tree.copy.files]
PackedSuite(tree) ==
  [suite |-> tree.suite, stamp |-> StampOf(tree), pin |-> tree.pin, lock |-> StampOf(tree)]
PackedPeer(tree) == [version |-> tree.peerVersion, copy |-> tree.copy]

(* The same contents: the manifest and what is built are not compared, and *)
(* of the suite's stamp the commit is not.                                 *)
SameSuite(published, packed) == published.suite = packed.suite /\ published.stamp = packed.stamp
SamePeer(published, packed) == published.copy = packed.copy

(* check-published-suite-identity: an unpublished version is what a bump   *)
(* looks like.                                                             *)
SuiteIdentity(tree) ==
  <<"suite", tree.version>> \in shown => SameSuite(npmRegistry[<<"suite", tree.version>>], PackedSuite(tree))
PeerIdentity(tree) ==
  <<"peer", tree.peerVersion>> \in shown => SamePeer(npmRegistry[<<"peer", tree.peerVersion>>], PackedPeer(tree))

(* What openwop:check has to say of a release.                             *)
CopyIsCurrent(tree) == tree.copy.files = tree.contract
PinIsExact(tree) == tree.pin = tree.peerVersion
ReleaseChecks(tree) == SuiteIdentity(tree) /\ PeerIdentity(tree) /\ CopyIsCurrent(tree) /\ PinIsExact(tree)

-----------------------------------------------------------------------------
ReleaseInit ==
  LET initial == ReleaseVersions[1]
      contract == CHOOSE c \in Contracts : TRUE
  IN  /\ releaseTree = [suite |-> CHOOSE s \in SuiteContents : TRUE, version |-> initial,
                        contract |-> contract, peerVersion |-> initial, pin |-> initial,
                        copy |-> [files |-> contract, commit |-> 0]]
      /\ manifestLog = <<[version |-> initial, hour |-> 0]>>
      /\ npmRegistry = << >> /\ shown = {} /\ tagRun = NoRun /\ tagsPushed = 0 /\ hour = 0

(* A pull request: any part of the tree may change; the checks decide.     *)
Edits(tree, commit) ==
  [suite : SuiteContents, version : ToSet(ReleaseVersions), contract : Contracts,
   peerVersion : ToSet(ReleaseVersions), pin : ToSet(ReleaseVersions),
   copy : {tree.copy} \cup [files : Contracts, commit : {commit}]]

MergePullRequest ==
  /\ Len(manifestLog) <= MergeLimit
  /\ \E tree \in Edits(releaseTree, Len(manifestLog)) \ {releaseTree} :
       /\ ReleaseChecks(tree)
       /\ releaseTree' = tree
       /\ manifestLog' = Append(manifestLog, [version |-> tree.version, hour |-> hour])
  /\ UNCHANGED <<npmRegistry, shown, tagRun, tagsPushed, hour>>

(* A tag starts the jobs of a run, each after those it needs.              *)
PushTag ==
  /\ tagRun.stage \in {"none", "green"} \/ tagRun.failed
  /\ tagsPushed < TagLimit /\ shown = DOMAIN npmRegistry
  /\ tagRun' = [tree |-> releaseTree, stage |-> "preflight", failed |-> FALSE]
  /\ tagsPushed' = tagsPushed + 1
  /\ UNCHANGED <<releaseTree, manifestLog, npmRegistry, shown, hour>>

Running == {"preflight", "peer checked", "peer", "suite checked", "suite", "installed"}
AtStage(stage) == tagRun.stage = stage /\ ~tagRun.failed
Goes(stage) == tagRun' = [tagRun EXCEPT !.stage = stage]
RunFails == tagRun' = [tagRun EXCEPT !.failed = TRUE]

(* preflight: openwop:check on the tagged tree.                            *)
Preflight ==
  /\ AtStage("preflight")
  /\ IF ReleaseChecks(tagRun.tree) THEN Goes("peer checked") ELSE RunFails
  /\ UNCHANGED <<releaseTree, manifestLog, npmRegistry, shown, tagsPushed, hour>>

(* The identity step of a publish job.                                     *)
CheckIdentity(at, next, same) ==
  /\ AtStage(at)
  /\ IF same THEN Goes(next) ELSE RunFails
  /\ UNCHANGED <<releaseTree, manifestLog, npmRegistry, shown, tagsPushed, hour>>
CheckPeer == CheckIdentity("peer checked", "peer", PeerIdentity(tagRun.tree))
CheckSuite == CheckIdentity("suite checked", "suite", SuiteIdentity(tagRun.tree))

Published(name, packed) ==
  [n \in DOMAIN npmRegistry \cup {name} |-> IF n = name THEN packed ELSE npmRegistry[n]]

(* The publish step: skipped when the version shows, refused by the        *)
(* registry when it is there and does not show yet.                        *)
PublishPackage(at, name, packed, next) ==
  /\ AtStage(at)
  /\ CASE name \in shown -> Goes(next) /\ UNCHANGED npmRegistry
       [] name \notin shown /\ name \in DOMAIN npmRegistry -> RunFails /\ UNCHANGED npmRegistry
       [] name \notin DOMAIN npmRegistry -> Goes(next) /\ npmRegistry' = Published(name, packed)
  /\ UNCHANGED <<releaseTree, manifestLog, shown, tagsPushed, hour>>
PublishPeer == PublishPackage("peer", <<"peer", tagRun.tree.peerVersion>>, PackedPeer(tagRun.tree), "suite checked")
PublishSuite == PublishPackage("suite", <<"suite", tagRun.tree.version>>, PackedSuite(tagRun.tree), "installed")

(* verify-installable: the suite shows, then the peer it pins.             *)
VerifyInstallable ==
  /\ AtStage("installed")
  /\ LET suite == <<"suite", tagRun.tree.version>>
         peer == <<"peer", npmRegistry[suite].pin>>
     IN  /\ suite \in shown
         /\ IF peer \in DOMAIN npmRegistry THEN peer \in shown /\ Goes("green") ELSE RunFails
  /\ UNCHANGED <<releaseTree, manifestLog, npmRegistry, shown, tagsPushed, hour>>

(* A job fails by itself, and the failed jobs of a run are run again.      *)
JobBreaks ==
  /\ \E stage \in Running : AtStage(stage)
  /\ RunFails
  /\ UNCHANGED <<releaseTree, manifestLog, npmRegistry, shown, tagsPushed, hour>>
JobRunAgain ==
  /\ tagRun.failed
  /\ tagRun' = [tagRun EXCEPT !.failed = FALSE,
                              !.stage = CASE @ = "peer" -> "peer checked" [] @ = "suite" -> "suite checked"
                                          [] OTHER -> @]
  /\ UNCHANGED <<releaseTree, manifestLog, npmRegistry, shown, tagsPushed, hour>>

(* The registry: each version shows on its own clock.                      *)
Shows ==
  /\ \E name \in DOMAIN npmRegistry \ shown : shown' = shown \cup {name}
  /\ UNCHANGED <<releaseTree, manifestLog, npmRegistry, tagRun, tagsPushed, hour>>

HourPasses ==
  /\ hour < LastHour /\ ~(\E stage \in Running : AtStage(stage)) /\ hour' = hour + 1
  /\ UNCHANGED <<releaseTree, manifestLog, npmRegistry, shown, tagRun, tagsPushed>>

ReleaseNext ==
  \/ MergePullRequest \/ PushTag \/ Preflight \/ CheckPeer \/ PublishPeer \/ CheckSuite \/ PublishSuite
  \/ VerifyInstallable \/ JobBreaks \/ JobRunAgain \/ Shows \/ HourPasses

ReleaseSpec == ReleaseInit /\ [][ReleaseNext]_releaseVars

-----------------------------------------------------------------------------
(* The alarm. A version's age counts from the first commit of the window   *)
(* that pinned it.                                                         *)
Window == SubSeq(manifestLog, IF Len(manifestLog) > HISTORY_LIMIT THEN Len(manifestLog) - HISTORY_LIMIT + 1 ELSE 1,
                 Len(manifestLog))
Introduced(version) ==
  LET at == {i \in DOMAIN Window : Window[i].version = version}
  IN  Window[CHOOSE i \in at : \A j \in at : i <= j].hour
PendingRelease ==
  CASE <<"suite", releaseTree.version>> \in shown -> "OK"
    [] <<"suite", releaseTree.version>> \notin shown ->
         IF hour - Introduced(releaseTree.version) <= GRACE_HOURS THEN "OK" ELSE "FAIL"

(* The suite's own check, of the peer that is installed beside it: its     *)
(* version, its stamp, and its files on the disk.                          *)
verifyPeerContract(suite, installed) ==
  CASE installed.stamp.version # suite.lock.version -> "peer-version"
    [] installed.stamp.version = suite.lock.version /\ installed.stamp # suite.lock -> "mismatch"
    [] installed.stamp = suite.lock ->
         IF \A file \in DOMAIN installed.stamp.files :
              file \in DOMAIN installed.disk /\ installed.disk[file] = installed.stamp.files[file]
         THEN "verified" ELSE "mismatch"

-----------------------------------------------------------------------------
(* A run that ended green has shipped its tree: what the registry shows    *)
(* under the tree's version is the tree's suite, and under the version it  *)
(* pins the tree's contract.                                               *)
GreenHasShipped ==
  AtStage("green") =>
    LET tree == tagRun.tree
    IN  /\ {<<"suite", tree.version>>, <<"peer", tree.pin>>} \subseteq shown
        /\ npmRegistry[<<"suite", tree.version>>] = PackedSuite(tree)
        /\ npmRegistry[<<"peer", tree.pin>>].copy.files = tree.contract

(* No suite is on the registry without the peer it pins, whatever job broke*)
(* and was run again, and the pair, as published, runs.                    *)
PublishedPairsRun ==
  \A name \in DOMAIN npmRegistry : name[1] = "suite" =>
    LET suite == npmRegistry[name]
        peer == <<"peer", suite.pin>>
    IN  /\ peer \in DOMAIN npmRegistry
        /\ LET copy == npmRegistry[peer].copy.files
           IN  verifyPeerContract(suite, [stamp |-> [version |-> suite.pin, files |-> copy], disk |-> copy]) = "verified"

(* A suite runs on no contract but the one it was packed against: not on   *)
(* another version's, nor on one altered after it was installed, stamp and *)
(* all.                                                                    *)
RunsOnItsOwnContract ==
  \A name \in DOMAIN npmRegistry : name[1] = "suite" =>
    \A version \in ToSet(ReleaseVersions) : \A stamped \in Contracts : \A disk \in Contracts :
      verifyPeerContract(npmRegistry[name], [stamp |-> [version |-> version, files |-> stamped], disk |-> disk]) = "verified"
        => version = npmRegistry[name].pin /\ disk = npmRegistry[name].stamp.files

(* The alarm sounds only when the pin has gone unpublished longer than the *)
(* grace, and always when the latest commit to name the version anew is    *)
(* older than that and no other pin came between.                          *)
AlarmIsTrue ==
  LET pin == releaseTree.version
      others == {i \in DOMAIN manifestLog : manifestLog[i].version # pin}
      since == manifestLog[IF others = {} THEN 1 ELSE 1 + CHOOSE i \in others : \A j \in others : j <= i].hour
  IN  /\ PendingRelease = "FAIL" =>
           /\ <<"suite", pin>> \notin shown
           /\ \E i \in DOMAIN manifestLog : manifestLog[i].version = pin /\ hour - manifestLog[i].hour > GRACE_HOURS
      /\ /\ <<"suite", pin>> \notin shown
         /\ hour - since > GRACE_HOURS
         /\ Len(manifestLog) <= HISTORY_LIMIT
         => PendingRelease = "FAIL"

(* A release is what it says it is.                                        *)
ReleaseIsTrue == GreenHasShipped /\ PublishedPairsRun /\ RunsOnItsOwnContract /\ AlarmIsTrue
=============================================================================
