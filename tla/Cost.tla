-------------------------------- MODULE Cost --------------------------------
(***************************************************************************)
(* The price of an executable message (src/aleph/services/cost.py):       *)
(* compute units times a per-unit cost, plus the volume storage beyond a   *)
(* free allowance.  Volumes given by reference are resolved against the    *)
(* database at the time of the call: an exact pin (the STORE message that  *)
(* stored the file) or the latest file of a tag.  The file tables change   *)
(* as STORE and FORGET messages are processed (not under src/, modelled    *)
(* as arbitrary updates).                                                  *)
(*                                                                         *)
(* Sizes are in MiB (GiB = 1024 MiB) and prices are kept scaled by 20, so  *)
(* that the Decimal division by 20 of the storage term stays exact:        *)
(* Price20 = 20 * compute_unit_price + additional_storage_mib.             *)
(***************************************************************************)
EXTENDS Naturals, Sequences, SequencesExt

CONSTANTS
    Refs,           \* item hashes of STORE messages / file tags
    FileSizes,      \* sizes of stored files (MiB)
    VolumeSizes,    \* size_mib of ephemeral and persistent volumes
    Vcpus,          \* resources.vcpus values
    Memories,       \* resources.memory values (MiB)
    MaxVolumes,     \* bound on content.volumes
    None, RuntimeError

VARIABLES
    file_pins,      \* message_file_pins: STORE item hash -> stored file size
    file_tags       \* file_tags: tag -> size of its latest file

vars == <<file_pins, file_tags>>

GiB == 1024

ImmutableVolume == [ref : Refs, use_latest : BOOLEAN]
SizedVolume == [size_mib : VolumeSizes]

Resources == [vcpus : Vcpus, memory : Memories]

(* ProgramContent and InstanceContent, with what the price reads of them: *)
(* code, runtime, optional data and rootfs are the volumes they declare.  *)
ProgramContent ==
    [kind : {"program"}, persistent : BOOLEAN, internet : BOOLEAN,
     resources : Resources, code : ImmutableVolume, runtime : ImmutableVolume,
     data : ImmutableVolume \cup {None},
     volumes : BoundedSeq(ImmutableVolume \cup SizedVolume, MaxVolumes)]

InstanceContent ==
    [kind : {"instance"}, resources : Resources, rootfs : SizedVolume,
     volumes : BoundedSeq(ImmutableVolume \cup SizedVolume, MaxVolumes)]

ExecutableContent == ProgramContent \cup InstanceContent

IsMicroVm(c) == c.kind = "program" /\ ~c.persistent

---------------------------------------------------------------------------
(* _get_file_from_ref: the size of the file behind a reference, or None. *)
get_file_from_ref(v) == IF v.use_latest THEN file_tags[v.ref] ELSE file_pins[v.ref]

(* get_volume_size: the volumes by reference (code, runtime, data and the *)
(* immutable volumes) must all resolve, else RuntimeError; the sized ones *)
(* (rootfs, ephemeral and persistent volumes) count their size_mib.       *)
get_volume_size(c) ==
    LET declared == IF c.kind = "instance" THEN <<c.rootfs>>
                    ELSE <<c.code, c.runtime>> \o (IF c.data = None THEN <<>> ELSE <<c.data>>)
        all == declared \o c.volumes
        ref_volumes == SelectSeq(all, LAMBDA v : "ref" \in DOMAIN v)
        sized_volumes == SelectSeq(all, LAMBDA v : "size_mib" \in DOMAIN v)
        ref_sizes == [i \in 1..Len(ref_volumes) |-> get_file_from_ref(ref_volumes[i])]
    IN IF \E i \in 1..Len(ref_sizes) : ref_sizes[i] = None
       THEN RuntimeError
       ELSE FoldLeft(LAMBDA acc, s : acc + s, 0, ref_sizes)
            + FoldLeft(LAMBDA acc, v : acc + v.size_mib, 0, sized_volumes)

(* get_additional_storage_price, scaled by 20: the storage beyond the free *)
(* allowance per vCPU.                                                     *)
get_additional_storage_price(c) ==
    LET free_storage_per_compute_unit == IF IsMicroVm(c) THEN 2 * GiB ELSE 20 * GiB
        nb_compute_units == c.resources.vcpus
        total_volume_size == get_volume_size(c)
    IN IF total_volume_size = RuntimeError THEN RuntimeError
       ELSE IF total_volume_size > free_storage_per_compute_unit * nb_compute_units
            THEN total_volume_size - free_storage_per_compute_unit * nb_compute_units
            ELSE 0

(* _get_nb_compute_units: max(vcpus, ceil(memory / 2048)).                 *)
get_nb_compute_units(c) ==
    LET cpu == c.resources.vcpus
        memory == (c.resources.memory + 2047) \div 2048
    IN IF cpu >= memory THEN cpu ELSE memory

(* _get_compute_unit_multiplier: doubled for a microVM with internet.      *)
get_compute_unit_multiplier(c) == IF IsMicroVm(c) /\ c.internet THEN 2 ELSE 1

(* Mutant: the per-unit costs of microVMs and persistent VMs swapped.      *)
compute_cost_swapped(c) ==
    LET compute_unit_cost == IF IsMicroVm(c) THEN 2000 ELSE 200
        storage == get_additional_storage_price(c)
    IN IF storage = RuntimeError THEN RuntimeError
       ELSE 20 * get_nb_compute_units(c) * get_compute_unit_multiplier(c) * compute_unit_cost
            + storage

(* compute_cost, scaled by 20; RuntimeError when a volume does not resolve.*)
compute_cost(c) ==
    LET compute_unit_cost == IF IsMicroVm(c) THEN 200 ELSE 2000
        storage == get_additional_storage_price(c)
    IN IF storage = RuntimeError THEN RuntimeError
       ELSE 20 * get_nb_compute_units(c) * get_compute_unit_multiplier(c) * compute_unit_cost
            + storage

---------------------------------------------------------------------------
(* A STORE message pins a file, or a FORGET removes the pin.               *)
store_pin(r, s) ==
    /\ file_pins' = [file_pins EXCEPT ![r] = s]
    /\ UNCHANGED file_tags

(* A STORE message moves a tag to a new file, or the tag is removed.       *)
update_tag(r, s) ==
    /\ file_tags' = [file_tags EXCEPT ![r] = s]
    /\ UNCHANGED file_pins

Init ==
    /\ file_pins = [r \in Refs |-> None]
    /\ file_tags = [r \in Refs |-> None]

Next == \E r \in Refs, s \in FileSizes \cup {None} : store_pin(r, s) \/ update_tag(r, s)

Spec == Init /\ [][Next]_vars

TypeOK ==
    /\ file_pins \in [Refs -> FileSizes \cup {None}]
    /\ file_tags \in [Refs -> FileSizes \cup {None}]

(* Running a program on demand (a microVM) never costs more than running   *)
(* the same program persistently, whatever the volumes weigh and the file  *)
(* tables hold: the cheaper compute unit (200 against 2000, doubled with   *)
(* internet) must outweigh the smaller free storage (2 GiB against 20 GiB  *)
(* per vCPU) (compute_cost, get_additional_storage_price).                 *)
MicroVmNotDearer ==
    \A c \in ProgramContent :
        LET p == [c EXCEPT !.persistent = TRUE] IN
        ~c.persistent /\ compute_cost(c) # RuntimeError
            => compute_cost(c) <= compute_cost(p)

=============================================================================
