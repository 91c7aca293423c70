--------------------------- MODULE ScailConvert ---------------------------
(***************************************************************************)
(* The SCAIL-2 checkpoint converter (scripts/scail2_convert_checkpoint.py):*)
(* forty block shards and a shared one, each with a checksum file beside   *)
(* it, in a directory that a provenance file binds to one pinned source;   *)
(* the index is written last. The program may be killed at any point and   *)
(* is run again; a shard is kept when its checksum, its names and its      *)
(* shapes are right.                                                       *)
(*                                                                         *)
(* Every file is put in place by a rename, so a kill leaves whole files.   *)
(* Nothing is synced to the disk: a power cut may tear what was written    *)
(* lately, in any order of the files. A torn shard fails its checksum; a   *)
(* torn text file does not parse or does not compare.                      *)
(*                                                                         *)
(* A pin stands for the constants PINNED_* of a version of the script, and *)
(* for the contents it converts to.                                        *)
(***************************************************************************)
EXTENDS Naturals

CONSTANTS
  NumUnits,  \* shards: the blocks, then the shared one
  Pins,      \* versions of the script that were run on the directory
  NoFile, Torn

ASSUME ScailAssumption ==
  /\ NumUnits \in Nat
  /\ NoFile # Torn /\ NoFile \notin Pins /\ Torn \notin Pins

Units == 1 .. NumUnits
File  == Pins \cup {NoFile, Torn}    \* what a file was made from, if it is there

VARIABLES
  \* ---- the output directory
  prov,    \* source_provenance.sha256
  file,    \* the shards
  sum,     \* the checksum files: the content they were taken from
  listed,  \* model.safetensors.index.json
  dirty,   \* what a power cut may tear: units and their checksums, "prov", "index"
  \* ---- the running converter
  cpc,     \* its next step, "off" while none runs
  pin,     \* the pin of the script that runs
  unit     \* the unit it is at

filesVars == <<prov, file, sum, listed, dirty>>
cvars == <<filesVars, cpc, pin, unit>>

\* The names of the files of unit u among the dirty ones.
ShardOf(u) == <<"shard", u>>
SumOf(u)   == <<"sum", u>>
Written    == {<<"prov", 0>>, <<"index", 0>>}
              \cup {ShardOf(u) : u \in Units} \cup {SumOf(u) : u \in Units}

\* An empty directory, or shards that an earlier converter left without provenance.
CInit ==
  /\ prov = NoFile /\ listed = NoFile /\ dirty = {}
  /\ file \in [Units -> Pins \cup {NoFile}] /\ sum = file
  /\ cpc = "off" /\ pin = NoFile /\ unit = 1

\* Mutant of Validated: a shard that is there and can be opened is taken.
Readable(u) == file[u] \in Pins

\* _validated_names: the checksum fits the shard, and the shard can be read.
Validated(u) == file[u] \in Pins /\ sum[u] = file[u]

Quit == cpc' = "off" /\ pin' = NoFile /\ unit' = 1

----------------------------------------------------------------------------
(* The outside: the disk catches up; the power fails; the program is       *)
(* killed; somebody deletes a shard while no converter runs.               *)
Flush ==
  /\ dirty # {}
  /\ dirty' = {}
  /\ UNCHANGED <<prov, file, sum, listed, cpc, pin, unit>>

PowerCut == \E torn \in SUBSET dirty :
  /\ dirty # {}
  /\ dirty' = {}
  /\ prov' = IF <<"prov", 0>> \in torn THEN Torn ELSE prov
  /\ listed' = IF <<"index", 0>> \in torn THEN Torn ELSE listed
  /\ file' = [u \in Units |-> IF ShardOf(u) \in torn THEN Torn ELSE file[u]]
  /\ sum' = [u \in Units |-> IF SumOf(u) \in torn THEN Torn ELSE sum[u]]
  /\ Quit

DeleteUnit(u) ==
  /\ cpc = "off" /\ file[u] # NoFile
  /\ file' = [file EXCEPT ![u] = NoFile]
  /\ UNCHANGED <<prov, sum, listed, dirty, cpc, pin, unit>>

\* A kill, or an exception in any step.
KillConverter ==
  /\ cpc # "off"
  /\ Quit
  /\ UNCHANGED filesVars

----------------------------------------------------------------------------
(* convert().                                                              *)

\* Mutant of Bind: shards without provenance are adopted.
BindUnchecked(p) ==
  /\ cpc = "off" /\ prov \in {NoFile, p}
  /\ prov' = p
  /\ dirty' = IF prov = NoFile THEN dirty \cup {<<"prov", 0>>} ELSE dirty
  /\ cpc' = "unit" /\ pin' = p /\ unit' = 1
  /\ UNCHANGED <<file, sum, listed>>

\* _bind_output_to_source: the script goes on in a directory of its own source, or in one
\* without shards; it refuses one of another source and shards of an unknown one.
Bind(p) ==
  /\ cpc = "off"
  /\ \/ prov = p /\ UNCHANGED <<prov, dirty>>
     \/ /\ prov = NoFile /\ \A u \in Units : file[u] = NoFile
        /\ prov' = p
        /\ dirty' = dirty \cup {<<"prov", 0>>}
  /\ cpc' = "unit" /\ pin' = p /\ unit' = 1
  /\ UNCHANGED <<file, sum, listed>>

\* A shard that validates is kept, another one is made.
KeepUnit ==
  /\ cpc = "unit" /\ unit \in Units /\ Validated(unit)
  /\ unit' = unit + 1
  /\ UNCHANGED <<filesVars, cpc, pin>>

\* _atomic_save renames the new shard into place,
SaveUnit ==
  /\ cpc = "unit" /\ unit \in Units /\ ~Validated(unit)
  /\ cpc' = "sum"
  /\ file' = [file EXCEPT ![unit] = pin]
  /\ dirty' = dirty \cup {ShardOf(unit)}
  /\ UNCHANGED <<prov, sum, listed, pin, unit>>

\* _write_checksum reads it back for its checksum file,
WriteSum ==
  /\ cpc = "sum"
  /\ cpc' = "again"
  /\ sum' = [sum EXCEPT ![unit] = file[unit]]
  /\ dirty' = dirty \cup {SumOf(unit)}
  /\ UNCHANGED <<prov, file, listed, pin, unit>>

\* and the pair is validated again before the converter goes on.
CheckUnit ==
  /\ cpc = "again" /\ Validated(unit)
  /\ cpc' = "unit" /\ unit' = unit + 1
  /\ UNCHANGED <<filesVars, pin>>

\* The index is published when every unit was gone through.
PublishList ==
  /\ cpc = "unit" /\ unit \notin Units
  /\ listed' = pin
  /\ dirty' = dirty \cup {<<"index", 0>>}
  /\ Quit
  /\ UNCHANGED <<prov, file, sum>>

Converter ==
  \/ \E p \in Pins : Bind(p)
  \/ KeepUnit \/ SaveUnit \/ WriteSum \/ CheckUnit \/ PublishList

CNext ==
  \/ Converter
  \/ Flush \/ PowerCut \/ KillConverter
  \/ \E u \in Units : DeleteUnit(u)

CSpec == CInit /\ [][CNext]_cvars

----------------------------------------------------------------------------
(* Properties.                                                             *)

\* Every variable has its type.
CTypeOK ==
  /\ prov \in File /\ listed \in File
  /\ file \in [Units -> File] /\ sum \in [Units -> File]
  /\ dirty \subseteq Written
  /\ cpc \in {"off", "unit", "sum", "again"}
  /\ pin \in Pins \cup {NoFile} /\ (cpc # "off" => pin \in Pins)
  /\ unit \in 1 .. NumUnits + 1

\* The index is published "only after all 40 block shards and the shared shard validate"
\* (scail2_convert_checkpoint.py:7-8), and they are all of the pin it names: no shard of
\* another version, no torn one, no stale checksum, whatever kills, power cuts and
\* earlier converters left in the directory.
IndexListsValidatedShards ==
  [][listed' \in Pins /\ listed' # listed =>
       \A u \in Units : file[u] = listed' /\ sum[u] = listed']_cvars

\* A directory that was bound holds shards of one pin only, and its index names that pin:
\* "refusing to mix SCAIL-2 canonical shards from another source".
OnePinPerDirectory ==
  prov # NoFile =>
    \E p \in Pins :
      /\ prov \in {p, Torn} /\ listed \in {NoFile, p, Torn}
      /\ \A u \in Units : file[u] \in {NoFile, p, Torn}

\* The converter implements ResumableBuild: the directory is bound by its first pin, a
\* unit is built when it validates. (A torn provenance file binds the directory still:
\* every run refuses it.)
CAbs == INSTANCE ResumableBuild WITH
          Bases <- {"bound"}, NoBase <- "free",
          base <- IF prov = NoFile THEN "free" ELSE "bound",
          built <- IF prov = NoFile THEN {} ELSE {u \in Units : Validated(u)}
CImplementsResumableBuild == CAbs!Spec
====
