---------------------------- MODULE OutputBuffer ----------------------------
(***************************************************************************)
(* The output buffer of the pipeline, output_buff, byte by byte: threads   *)
(* add queries to one block of memory while another, the frozen one, is    *)
(* being written to the socket, a part at a time.  Every operation runs    *)
(* under _buff_mux or _memlock_mux; which thread calls which, and when, is *)
(* in Pipeline.                                                            *)
(*                                                                         *)
(* A byte is the number of its place among the bytes of all queries, modulo *)
(* Labels.                                                                 *)
(***************************************************************************)
EXTENDS BuffAbstract, SequencesExt

CONSTANTS
  Sizes,        (* the sizes of queries  *)
  Labels        (* how many bytes are told apart *)

ASSUME QueryAssumption == Sizes \subseteq Nat \ {0} /\ Labels \in Nat \ {0}

VARIABLES
  buff,         (* _top_offset, _size and _reserved                           *)
  allocated,    (* the bytes really allocated for _cdata                      *)
  data,         (* the bytes in _cdata below _top_offset                      *)
  have_frozen,  (* _have_frozen_buffer                                        *)
  frozen_data,  (* the bytes at _frozen_data                                  *)
  frozen_top,   (* _frozen_top_offset                                         *)
  frozen_sended,(* _frozen_sended_offset                                      *)
  out,          (* what get_buffer gave the write in progress                 *)
  owed,         (* the bytes added that the kernel has not taken (history)    *)
  label,        (* the next byte added                                        *)
  state         (* "idle", "writing", "reset", "threw" or "line_threw"         *)

frozenVars == <<have_frozen, frozen_data, frozen_top, frozen_sended>>
vars == <<buff, allocated, data, frozenVars, out, owed, label, state>>

Init ==
  /\ buff = new_buff
  /\ allocated = new_buff.reserved
  /\ data = <<>>
  /\ have_frozen = FALSE
  /\ frozen_data = <<>> /\ frozen_top = 0 /\ frozen_sended = 0
  /\ out = <<>> /\ owed = <<>> /\ label = 0
  /\ state = "idle"

nothing_to_send == buff.top = 0 /\ ~have_frozen

check_overflow_Inclusive(need_write) == buff.top + need_write > MaxBuff
check_overflow(need_write) == buff.top + need_write >= MaxBuff

(* The bytes add_query writes: plus_rn adds two.                             *)
Written(n, plus_rn) == IF plus_rn THEN n + 2 ELSE n

(* pipeline::push, once check_overflow lets a query of n bytes pass.         *)
add_query(n, plus_rn) ==
  LET sz == Written(n, plus_rn)
      bytes == [k \in 1..sz |-> (label + k - 1) % Labels]
      released == release(buff, sz)
  IN /\ state \notin {"threw", "line_threw"}
     /\ ~check_overflow(n)
     /\ IF ReleaseThrows(buff, sz) THEN
          /\ state' = IF plus_rn THEN "line_threw" ELSE "threw"
          /\ UNCHANGED <<buff, allocated, data, frozenVars, out, owed, label>>
        ELSE
          /\ allocated' = IF Reallocates(buff, sz) THEN released.reserved ELSE allocated
          /\ buff' = accept(released, sz)
          /\ data' = data \o bytes
          /\ owed' = owed \o bytes
          /\ label' = (label + sz) % Labels
          /\ UNCHANGED <<frozenVars, out, state>>

(* remalloc_free_mem: a new block for the main memory, at most max_buff_size *)
(* bytes of it; what is recorded as reserved is not cut down to that.        *)
free_block == IF buff.reserved - buff.top > BasicBlock THEN buff.reserved - buff.top ELSE BasicBlock
remalloc_size == calculate_mem(buff.top, free_block)

remalloc_free_mem_KeepsTop ==
  /\ allocated' = AtMostMax(remalloc_size)
  /\ buff' = [buff EXCEPT !.reserved = remalloc_size]
remalloc_free_mem ==
  /\ allocated' = AtMostMax(remalloc_size)
  /\ buff' = soft_reset([buff EXCEPT !.reserved = remalloc_size])

(* Where in the frozen block a write begins.                                 *)
FirstUnsent(sended) == sended + 1

(* get_buffer, for a write: the main block is frozen if none is.             *)
get_buffer ==
  /\ state = "idle"
  /\ ~nothing_to_send
  /\ IF have_frozen THEN UNCHANGED <<buff, allocated, data, frozenVars>>
     ELSE /\ frozen_data' = data
          /\ frozen_top' = buff.top
          /\ have_frozen' = TRUE
          /\ remalloc_free_mem
          /\ data' = <<>>
          /\ UNCHANGED frozen_sended
  /\ out' = SubSeq(frozen_data', FirstUnsent(frozen_sended), frozen_top')
  /\ state' = "writing"
  /\ UNCHANGED <<owed, label>>

AllSent_Strict(sended) == sended > frozen_top
AllSent(sended) == sended >= frozen_top

(* The kernel took n bytes of the write: sending_report frees the frozen     *)
(* block when it is all sent.                                                *)
sending_report(n) ==
  /\ state = "writing"
  /\ n <= Len(out)
  /\ owed' = SubSeq(owed, n + 1, Len(owed))
  /\ IF AllSent(frozen_sended + n) THEN
       /\ have_frozen' = FALSE
       /\ frozen_sended' = 0
       /\ frozen_top' = 0
       /\ frozen_data' = <<>>
     ELSE
       /\ frozen_sended' = frozen_sended + n
       /\ UNCHANGED <<have_frozen, frozen_data, frozen_top>>
  /\ out' = <<>>
  /\ state' = "idle"
  /\ UNCHANGED <<buff, allocated, data, label>>

(* The connection is lost: nothing is owed any more.                         *)
reset ==
  /\ state \in {"idle", "writing"}
  /\ buff' = new_buff
  /\ allocated' = new_buff.reserved
  /\ data' = <<>>
  /\ have_frozen' = FALSE
  /\ frozen_data' = <<>> /\ frozen_top' = 0 /\ frozen_sended' = 0
  /\ out' = <<>> /\ owed' = <<>>
  /\ state' = "reset"
  /\ UNCHANGED label

Next ==
  \/ \E n \in Sizes, plus_rn \in BOOLEAN : add_query(n, plus_rn)
  \/ get_buffer
  \/ \E n \in 1..Len(out) : sending_report(n)
  \/ reset

Spec == Init /\ [][Next]_vars

-----------------------------------------------------------------------------
TypeOK ==
  /\ buff \in Buffer
  /\ allocated \in 0..MaxBuff
  /\ data \in Seq(0..(Labels - 1)) /\ Len(data) = buff.top
  /\ have_frozen \in BOOLEAN
  /\ frozen_data \in Seq(0..(Labels - 1)) /\ Len(frozen_data) = frozen_top
  /\ frozen_sended \in 0..frozen_top
  /\ out \in Seq(0..(Labels - 1)) /\ owed \in Seq(0..(Labels - 1))
  /\ label \in 0..(Labels - 1)
  /\ state \in {"idle", "writing", "reset", "threw", "line_threw"}

(* The kernel gets the bytes of the queries in the order they were added,    *)
(* each once, whatever part of a block each write takes and whatever is      *)
(* added meanwhile: what is left of the frozen block and then the main one   *)
(* are the bytes owed, and a write begins with the first of them.  It has    *)
(* something to send: it would otherwise complete at once, and be started   *)
(* again for ever.                                                          *)
BytesInOrder ==
  /\ owed = SubSeq(frozen_data, frozen_sended + 1, frozen_top) \o data
  /\ IsPrefix(out, owed)
  /\ state = "writing" => out # <<>>

(* What release hands out is within what it has recorded as reserved, and    *)
(* the allocation is what was recorded, up to the limit, although get_buffer *)
(* about doubles the record at each call until it wraps around.             *)
MemoryMatchesRecord ==
  /\ buff.size <= buff.reserved
  /\ allocated = AtMostMax(buff.reserved)

(* Nothing is written past the allocation but, when the buffer is full to    *)
(* its last byte and the record is above the limit, one byte of the line end *)
(* that check_overflow was not asked about; and it is only for a line end   *)
(* that release throws, after check_overflow let the query pass.            *)
NoOverrun ==
  /\ buff.top <= allocated \/ (allocated = MaxBuff /\ buff.top = MaxBuff + 1)
  /\ state # "threw"

-----------------------------------------------------------------------------
(* The inductive invariant, by which the properties are proved. *)

(* _top_offset never passes _size, nor the limit by more than a line end, so *)
(* that the differences of size_avail and release do not wrap around.        *)
OffsetsOK == buff.top <= buff.size /\ buff.top <= MaxBuff + 1

(* A frozen block has bytes left to send, and a write in progress was given  *)
(* all of them.                                                             *)
FrozenOK ==
  /\ have_frozen => frozen_sended < frozen_top
  /\ ~have_frozen => frozen_top = 0
  /\ state = "writing" => have_frozen /\ out = SubSeq(frozen_data, FirstUnsent(frozen_sended), frozen_top)

IInv == TypeOK /\ BytesInOrder /\ MemoryMatchesRecord /\ NoOverrun /\ OffsetsOK /\ FrozenOK
=============================================================================
