---------------------------- MODULE BuffAbstract ----------------------------
(***************************************************************************)
(* buff_abstract, the growing block of memory under the input and the      *)
(* output buffer: a value [top, size, reserved], where top is _top_offset, *)
(* the bytes filled, size is _size, the bytes handed out, and reserved is  *)
(* what the buffer believes it has allocated.                              *)
(***************************************************************************)
EXTENDS Integers

CONSTANTS
  MaxBuff,      (* max_buff_size, in bytes            *)
  BasicBlock,   (* _basic_block_size                  *)
  SizeT         (* 2^64, the modulus of size_t        *)

ASSUME LimitAssumption == MaxBuff \in Nat /\ BasicBlock \in Nat \ {0} /\ SizeT \in Nat \ {0}

(* Two blocks are within the limit, and the limit twice is a size_t: the code *)
(* has 1 KB, 10 MB and 2^64.                                                *)
ASSUME BlockAssumption == 2 * BasicBlock <= MaxBuff /\ 2 * MaxBuff < SizeT

Buffer == [top : Nat, size : Nat, reserved : Nat]

AtMostMax(n) == IF n < MaxBuff THEN n ELSE MaxBuff

size_avail(b) == b.size - b.top

(* One block for the data needed and a free one, on top of the data twice. *)
calculate_mem_OneBlock(top, block) == (((top + top) \div block + 1) * block) % SizeT
calculate_mem(top, block) == (((top + top) \div block + 2) * block) % SizeT

new_buff == [top |-> 0, size |-> 0, reserved |-> calculate_mem(0, BasicBlock)]

(* release(n) has to allocate, and when it may not, it throws. *)
Reallocates(b, n) == n >= size_avail(b) /\ b.reserved - b.top <= n
ReleaseThrows(b, n) == Reallocates(b, n) /\ b.top + n > MaxBuff

release(b, n) ==
  [b EXCEPT
     !.size = IF n < size_avail(b) THEN @ ELSE b.top + n,
     !.reserved = IF Reallocates(b, n) THEN AtMostMax(calculate_mem(b.top, n)) ELSE @]

accept(b, n) == [b EXCEPT !.top = @ + n]

soft_reset(b) == [b EXCEPT !.top = 0, !.size = 0]
=============================================================================
