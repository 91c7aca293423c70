----------------------- MODULE ScailConvert_proofs -----------------------
(***************************************************************************)
(* Proofs about ScailConvert for any number of shards and pins: types, one *)
(* pin per directory, what an index vouches for, and the refinement of     *)
(* ResumableBuild. The inductive invariant is CInv.                        *)
(***************************************************************************)
EXTENDS ScailConvert, TLAPS

\* Every file of the directory is of pin p, missing or torn.
DirectoryOf(p) ==
  /\ prov \in {p, Torn} /\ listed \in {NoFile, p, Torn}
  /\ \A u \in Units : file[u] \in {NoFile, p, Torn}

\* The running script is of the pin the directory is bound to.
BoundInv ==
  /\ cpc # "off" => prov = pin
  /\ prov = NoFile => listed = NoFile
  /\ prov # NoFile => \E p \in Pins : DirectoryOf(p)
  /\ <<"prov", 0>> \in dirty \/ <<"index", 0>> \in dirty => prov # NoFile

\* Everything before the unit at hand validates.
PassedInv ==
  /\ cpc # "off" => \A u \in Units : u < unit => Validated(u)
  /\ cpc \in {"sum", "again"} => unit \in Units /\ file[unit] = pin
  /\ cpc = "again" => sum[unit] = pin

CInv == CTypeOK /\ BoundInv /\ PassedInv

LEMMA CInitInv == CInit => CInv
<1> SUFFICES ASSUME CInit PROVE CInv
  OBVIOUS
<1>1. CTypeOK
  <2>1. file \in [Units -> File] /\ sum \in [Units -> File]
    BY DEF CInit, File
  <2>2. 1 \in 1 .. NumUnits + 1
    BY ScailAssumption
  <2> QED
    BY <2>1, <2>2 DEF CInit, CTypeOK, File
<1>2. BoundInv /\ PassedInv
  BY DEF CInit, BoundInv, PassedInv
<1> QED
  BY <1>1, <1>2 DEF CInv

----------------------------------------------------------------------------
(* The inductive invariant.                                                *)

\* In a directory that a script runs in, every file is of its pin, missing or torn.
LEMMA Bound == CInv /\ cpc # "off" => pin \in Pins /\ prov = pin /\ DirectoryOf(pin)
BY ScailAssumption DEF CInv, CTypeOK, BoundInv, DirectoryOf

\* A unit that validates in it is of its pin.
LEMMA OfThePin == CInv /\ cpc # "off" =>
                    \A u \in Units : Validated(u) => file[u] = pin /\ sum[u] = pin
BY Bound, ScailAssumption DEF DirectoryOf, Validated

\* The steps of the outside.
LEMMA OutsideStep ==
  CInv /\ (Flush \/ PowerCut \/ KillConverter \/ \E u \in Units : DeleteUnit(u)) => CInv'
<1> SUFFICES ASSUME CInv, Flush \/ PowerCut \/ KillConverter \/ \E u \in Units : DeleteUnit(u)
             PROVE  CInv'
  OBVIOUS
<1> USE DEF CInv, filesVars
<1>quit. ASSUME Quit PROVE /\ cpc' = "off" /\ pin' \in Pins \cup {NoFile} /\ unit' \in 1 .. NumUnits + 1
                           /\ PassedInv'
  BY <1>quit, ScailAssumption DEF Quit, PassedInv
<1>flush. CASE Flush
  <2>1. CTypeOK'
    BY <1>flush DEF Flush, CTypeOK
  <2>2. BoundInv'
    BY <1>flush DEF Flush, BoundInv, DirectoryOf
  <2>3. PassedInv'
    BY <1>flush DEF Flush, PassedInv, Validated
  <2> QED
    BY <2>1, <2>2, <2>3
<1>power. CASE PowerCut
  <2> PICK torn \in SUBSET dirty :
        /\ dirty' = {}
        /\ prov' = IF <<"prov", 0>> \in torn THEN Torn ELSE prov
        /\ listed' = IF <<"index", 0>> \in torn THEN Torn ELSE listed
        /\ file' = [u \in Units |-> IF ShardOf(u) \in torn THEN Torn ELSE file[u]]
        /\ sum' = [u \in Units |-> IF SumOf(u) \in torn THEN Torn ELSE sum[u]]
        /\ Quit
    BY <1>power DEF PowerCut
  <2>1. CTypeOK'
    <3>1. prov' \in File /\ listed' \in File /\ dirty' \subseteq Written
      BY DEF CTypeOK, File
    <3>2. file' \in [Units -> File] /\ sum' \in [Units -> File]
      BY DEF CTypeOK, File
    <3> QED
      BY <3>1, <3>2, <1>quit DEF CTypeOK
  <2>2. prov' = NoFile <=> prov = NoFile
    BY ScailAssumption DEF BoundInv
  <2>3. prov = NoFile => listed' = NoFile
    BY DEF BoundInv
  <2>4. ASSUME NEW p \in Pins, DirectoryOf(p) PROVE DirectoryOf(p)'
    BY <2>4 DEF DirectoryOf
  <2>5. BoundInv'
    BY <2>2, <2>3, <2>4, <1>quit DEF BoundInv
  <2> QED
    BY <2>1, <2>5, <1>quit
<1>kill. CASE KillConverter
  <2>1. CTypeOK'
    BY <1>kill, <1>quit DEF KillConverter, CTypeOK
  <2>2. BoundInv'
    BY <1>kill, <1>quit DEF KillConverter, BoundInv, DirectoryOf
  <2> QED
    BY <1>kill, <1>quit, <2>1, <2>2 DEF KillConverter
<1>delete. CASE \E u \in Units : DeleteUnit(u)
  <2> PICK v \in Units : DeleteUnit(v)
    BY <1>delete
  <2>1. CTypeOK'
    BY DEF DeleteUnit, CTypeOK, File
  <2>2. ASSUME NEW p \in Pins, DirectoryOf(p) PROVE DirectoryOf(p)'
    BY <2>2 DEF DeleteUnit, DirectoryOf, CTypeOK
  <2>3. BoundInv'
    BY <2>2 DEF DeleteUnit, BoundInv
  <2>4. PassedInv'
    BY DEF DeleteUnit, PassedInv
  <2> QED
    BY <2>1, <2>3, <2>4
<1> QED
  BY <1>flush, <1>power, <1>kill, <1>delete

\* The steps of the converter.
LEMMA ConverterStep == CInv /\ Converter => CInv'
<1> SUFFICES ASSUME CInv, Converter PROVE CInv'
  OBVIOUS
<1>nat. unit \in Nat /\ NumUnits \in Nat
  BY ScailAssumption DEF CInv, CTypeOK
<1> USE ScailAssumption DEF CInv, filesVars
<1>bind. CASE \E p \in Pins : Bind(p)
  <2> PICK p \in Pins : Bind(p)
    BY <1>bind
  <2>1. CTypeOK'
    BY <1>nat DEF Bind, CTypeOK, File, Written
  <2>2. prov' = p /\ pin' = p /\ UNCHANGED <<file, listed>>
    BY DEF Bind
  <2>3. DirectoryOf(p)'
    <3>1. CASE prov = p
      <4>1. PICK q \in Pins : DirectoryOf(q)
        BY <3>1 DEF BoundInv
      <4>2. q = p
        BY <3>1, <4>1 DEF DirectoryOf
      <4> QED
        BY <4>1, <4>2, <2>2 DEF DirectoryOf
    <3>2. CASE prov = NoFile /\ \A u \in Units : file[u] = NoFile
      BY <3>2, <2>2 DEF DirectoryOf, BoundInv
    <3> QED
      BY <3>1, <3>2 DEF Bind
  <2>4. BoundInv'
    BY <2>2, <2>3 DEF BoundInv
  <2>5. PassedInv'
    BY DEF Bind, PassedInv, Units
  <2> QED
    BY <2>1, <2>4, <2>5
<1>keep. CASE KeepUnit
  <2>1. CTypeOK'
    BY <1>keep, <1>nat DEF KeepUnit, CTypeOK, Units
  <2>2. BoundInv'
    BY <1>keep DEF KeepUnit, BoundInv, DirectoryOf
  <2>3. PassedInv'
    BY <1>keep, <1>nat DEF KeepUnit, PassedInv, Validated, Units
  <2> QED
    BY <2>1, <2>2, <2>3
<1>save. CASE SaveUnit
  <2>0. unit \in Units /\ pin \in Pins /\ DirectoryOf(pin) /\ prov = pin
    BY <1>save, Bound DEF SaveUnit
  <2>1. CTypeOK'
    BY <1>save, <2>0 DEF SaveUnit, CTypeOK, File, Written
  <2>2. file' = [file EXCEPT ![unit] = pin] /\ UNCHANGED <<prov, sum, listed, pin, unit>>
        /\ dirty' = dirty \cup {ShardOf(unit)} /\ cpc' = "sum"
    BY <1>save DEF SaveUnit
  <2>3. BoundInv'
    <3>1. DirectoryOf(pin)'
      BY <2>0, <2>2 DEF DirectoryOf, CTypeOK
    <3>2. prov # NoFile
      BY <2>0
    <3> QED
      BY <2>0, <2>2, <3>1, <3>2 DEF BoundInv
  <2>4. PassedInv'
    BY <1>save, <2>0, <2>2, <1>nat DEF SaveUnit, PassedInv, Validated, CTypeOK, Units
  <2> QED
    BY <2>1, <2>3, <2>4
<1>sum. CASE WriteSum
  <2>0. unit \in Units /\ file[unit] = pin /\ pin \in Pins
    BY <1>sum, Bound DEF WriteSum, PassedInv
  <2>1. CTypeOK'
    BY <1>sum, <2>0 DEF WriteSum, CTypeOK, File, Written
  <2>2. BoundInv'
    BY <1>sum, Bound DEF WriteSum, BoundInv, DirectoryOf
  <2>3. PassedInv'
    BY <1>sum, <2>0, <1>nat DEF WriteSum, PassedInv, Validated, CTypeOK, Units
  <2> QED
    BY <2>1, <2>2, <2>3
<1>check. CASE CheckUnit
  <2>0. unit \in Units
    BY <1>check DEF CheckUnit, PassedInv
  <2>1. CTypeOK'
    BY <1>check, <2>0, <1>nat DEF CheckUnit, CTypeOK, Units
  <2>2. BoundInv'
    BY <1>check DEF CheckUnit, BoundInv, DirectoryOf
  <2>3. PassedInv'
    BY <1>check, <1>nat DEF CheckUnit, PassedInv, Validated, Units
  <2> QED
    BY <2>1, <2>2, <2>3
<1>publish. CASE PublishList
  <2>0. PICK p \in Pins : p = pin /\ DirectoryOf(p) /\ prov = p
    BY <1>publish, Bound DEF PublishList
  <2>1. CTypeOK'
    BY <1>publish, <2>0 DEF PublishList, Quit, CTypeOK, File, Written
  <2>2. UNCHANGED <<prov, file>> /\ listed' = p /\ cpc' = "off"
    BY <1>publish, <2>0 DEF PublishList, Quit
  <2>3. DirectoryOf(p)'
    BY <2>0, <2>2 DEF DirectoryOf
  <2>4. BoundInv'
    BY <2>0, <2>2, <2>3 DEF BoundInv
  <2>5. PassedInv'
    BY <2>2 DEF PassedInv
  <2> QED
    BY <2>1, <2>4, <2>5
<1> QED
  BY <1>bind, <1>keep, <1>save, <1>sum, <1>check, <1>publish DEF Converter

\* The invariant holds in every reachable state.
THEOREM ScailInvariance == CSpec => []CInv
<1>1. CInv /\ UNCHANGED cvars => CInv'
  BY DEF CInv, cvars, filesVars, CTypeOK, BoundInv, PassedInv, DirectoryOf, Validated
<1>2. CInv /\ [CNext]_cvars => CInv'
  BY <1>1, OutsideStep, ConverterStep DEF CNext
<1> QED
  BY CInitInv, <1>2, PTL DEF CSpec

\* Every variable keeps its type.
THEOREM ScailTypes == CSpec => []CTypeOK
BY ScailInvariance, PTL DEF CInv

\* A directory that was bound holds shards of one pin only, and so does its index,
\* whatever is torn or killed.
THEOREM ScailOnePin == CSpec => []OnePinPerDirectory
<1>1. CInv => OnePinPerDirectory
  BY DEF CInv, BoundInv, DirectoryOf, OnePinPerDirectory
<1> QED
  BY <1>1, ScailInvariance, PTL

\* An index that appears is backed by shards and checksums of the pin it names.
THEOREM ScailIndex == CSpec => IndexListsValidatedShards
<1> DEFINE Backed == listed' \in Pins /\ listed' # listed =>
                       \A u \in Units : file[u] = listed' /\ sum[u] = listed'
<1>1. CInv /\ CNext => Backed
  <2> SUFFICES ASSUME CInv, CNext, listed' \in Pins, listed' # listed, NEW u \in Units
               PROVE  file[u] = listed' /\ sum[u] = listed'
    OBVIOUS
  <2>1. ~PowerCut
    BY ScailAssumption DEF PowerCut
  <2>2. PublishList
    BY <2>1 DEF CNext, Converter, Flush, KillConverter, DeleteUnit, Bind, KeepUnit, SaveUnit, WriteSum,
       CheckUnit, filesVars
  <2>3. cpc = "unit" /\ unit \notin Units /\ listed' = pin
    BY <2>2 DEF PublishList
  <2>4. u < unit
    BY <2>3, ScailAssumption DEF CInv, CTypeOK, Units
  <2>5. Validated(u)
    BY <2>3, <2>4 DEF CInv, PassedInv
  <2> QED
    BY <2>3, <2>5, OfThePin
<1>2. CInv /\ [CNext]_cvars => [Backed]_cvars
  BY <1>1
<1> QED
  BY <1>2, ScailInvariance, PTL DEF CSpec, IndexListsValidatedShards

----------------------------------------------------------------------------
(* Refinement.                                                             *)

AbsBase  == IF prov = NoFile THEN "free" ELSE "bound"
AbsBuilt == IF prov = NoFile THEN {} ELSE {u \in Units : Validated(u)}

LEMMA ScailStep == CInv /\ [CNext]_cvars => [CAbs!Next]_<<AbsBase, AbsBuilt>>
<1> SUFFICES ASSUME CInv, [CNext]_cvars PROVE [CAbs!Next]_<<AbsBase, AbsBuilt>>
  OBVIOUS
<1>same. ASSUME UNCHANGED <<prov, file, sum>> PROVE UNCHANGED <<AbsBase, AbsBuilt>>
  BY <1>same DEF AbsBase, AbsBuilt, Validated
<1>lose. ASSUME prov' = NoFile <=> prov = NoFile, \A u \in Units : Validated(u)' => Validated(u)
         PROVE  CAbs!Next
  <2>1. AbsBase' = AbsBase /\ AbsBuilt' \subseteq AbsBuilt /\ AbsBuilt \subseteq Units
    BY <1>lose DEF AbsBase, AbsBuilt
  <2>2. AbsBuilt' = AbsBuilt \ (AbsBuilt \ AbsBuilt') /\ AbsBuilt \ AbsBuilt' \in SUBSET Units
    BY <2>1
  <2> QED
    BY <2>1, <2>2 DEF CAbs!Next, CAbs!Lose, AbsBase, AbsBuilt
<1>make. ASSUME cpc # "off", unit \in Units, unit' = unit, prov' = prov, ~Validated(unit),
                \A u \in Units \ {unit} : Validated(u)' <=> Validated(u)
         PROVE  [CAbs!Next]_<<AbsBase, AbsBuilt>>
  <2>1. prov # NoFile
    BY <1>make, Bound, ScailAssumption
  <2>2. AbsBase' = AbsBase /\ AbsBuilt = {u \in Units : Validated(u)}
        /\ AbsBuilt' = {u \in Units : Validated(u)'}
    BY <1>make, <2>1 DEF AbsBase, AbsBuilt
  <2>3. CASE Validated(unit)'
    <3>0. \A u \in Units : Validated(u)' <=> Validated(u) \/ u = unit
      BY <1>make, <2>3 DEF Validated
    <3>1. AbsBuilt' = AbsBuilt \cup {unit} /\ unit \in Units \ AbsBuilt
      BY <1>make, <2>2, <3>0
    <3>2. \A v \in Units : v < unit => v \in AbsBuilt
      BY <1>make, <2>2 DEF CInv, PassedInv
    <3> QED
      BY <2>2, <3>1, <3>2 DEF CAbs!Next, CAbs!Make, CAbs!FirstMissing, AbsBase, AbsBuilt
  <2>4. CASE ~Validated(unit)'
    <3>1. \A u \in Units : Validated(u)' <=> Validated(u)
      BY <1>make, <2>4 DEF Validated
    <3> QED
      BY <2>2, <3>1
  <2> QED
    BY <2>3, <2>4
<1>power. CASE PowerCut
  <2>1. prov' = NoFile <=> prov = NoFile
    BY <1>power, ScailAssumption DEF PowerCut, CInv, BoundInv
  <2>2. \A u \in Units : Validated(u)' => Validated(u)
    BY <1>power, ScailAssumption DEF PowerCut, Validated
  <2> QED
    BY <2>1, <2>2, <1>lose
<1>delete. CASE \E u \in Units : DeleteUnit(u)
  <2>1. prov' = prov /\ \A u \in Units : Validated(u)' => Validated(u)
    BY <1>delete, ScailAssumption DEF DeleteUnit, Validated, CInv, CTypeOK
  <2> QED
    BY <2>1, <1>lose
<1>bind. CASE \E p \in Pins : Bind(p)
  <2> PICK p \in Pins : Bind(p)
    BY <1>bind
  <2>1. CASE prov = p
    BY <2>1, <1>same, ScailAssumption DEF Bind
  <2>2. CASE prov = NoFile
    <3>1. prov' = p /\ \A u \in Units : file'[u] = NoFile
      BY <2>2, ScailAssumption DEF Bind
    <3>2. AbsBase = "free" /\ AbsBase' = "bound" /\ AbsBuilt' = {}
      BY <2>2, <3>1, ScailAssumption DEF AbsBase, AbsBuilt, Validated
    <3> QED
      BY <3>2 DEF CAbs!Next, CAbs!Rebase, AbsBase, AbsBuilt
  <2> QED
    BY <2>1, <2>2 DEF Bind
<1>save. CASE SaveUnit
  <2>1. cpc # "off" /\ unit \in Units /\ unit' = unit /\ prov' = prov /\ ~Validated(unit)
        /\ \A u \in Units \ {unit} : Validated(u)' <=> Validated(u)
    BY <1>save DEF SaveUnit, Validated, CInv, CTypeOK
  <2> QED
    BY <2>1, <1>make
<1>sum. CASE WriteSum
  <2>1. cpc # "off" /\ unit \in Units /\ unit' = unit /\ prov' = prov /\ file' = file
        /\ \A u \in Units \ {unit} : Validated(u)' <=> Validated(u)
    BY <1>sum DEF WriteSum, Validated, CInv, CTypeOK, PassedInv
  <2>2. CASE Validated(unit)
    <3>1. sum'[unit] = file[unit] /\ sum[unit] = file[unit] /\ UNCHANGED sum
      BY <1>sum, <2>1, <2>2 DEF WriteSum, Validated, CInv, CTypeOK
    <3> QED
      BY <2>1, <3>1, <1>same
  <2>3. CASE ~Validated(unit)
    BY <2>1, <2>3, <1>make
  <2> QED
    BY <2>2, <2>3
<1>rest. CASE Flush \/ KillConverter \/ KeepUnit \/ CheckUnit \/ PublishList \/ UNCHANGED cvars
  <2>1. UNCHANGED <<prov, file, sum>>
    BY <1>rest DEF Flush, KillConverter, KeepUnit, CheckUnit, PublishList, cvars, filesVars
  <2> QED
    BY <2>1, <1>same
<1> QED
  BY <1>power, <1>delete, <1>bind, <1>save, <1>sum, <1>rest DEF CNext, Converter

\* The converter implements ResumableBuild.
THEOREM ScailImplements == CSpec => CImplementsResumableBuild
<1>1. CInit => CAbs!Init
  BY DEF CInit, CAbs!Init
<1>2. CInv /\ [CNext]_cvars =>
        [CAbs!Next]_<<IF prov = NoFile THEN "free" ELSE "bound",
                      IF prov = NoFile THEN {} ELSE {u \in Units : Validated(u)}>>
  BY ScailStep DEF AbsBase, AbsBuilt
<1> QED
  BY <1>1, <1>2, ScailInvariance, PTL DEF CSpec, CImplementsResumableBuild, CAbs!Spec
====
