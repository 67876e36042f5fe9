----------------------------- MODULE LinearArena -----------------------------
(***************************************************************************)
(* LinearArena (include/core/MemoryArena.hpp): a buffer handed out front   *)
(* to back and taken back as a whole.  Sizes and offsets are size_t, so    *)
(* sums are modulo the word.  One thread uses an arena.                    *)
(***************************************************************************)
EXTENDS Naturals, Sequences

CONSTANTS
  ArenaSize,   (* Size *)
  CacheLine,   (* CACHE_LINE_SIZE, to which m_buffer is aligned. *)
  WordSize,    (* The number of values of a size_t. *)
  Bases,       (* Addresses m_buffer may have. *)
  Alignments, Sizes,  (* Those of the calls. *)
  MaxBlocks    (* Bound: blocks between two resets; empty ones use nothing up. *)

(* Mutant: the multiple that is not above n. *)
AlignDown(n, a) == n - (n % a)

(* (n + a - 1) & ~(a - 1): the first multiple of a power of two that is    *)
(* not below n.                                                            *)
AlignUp(n, a) == LET end == (n + a - 1) % WordSize IN end - (end % a)

(* A buffer aligned to a cache line carries alignments up to one, and a    *)
(* size whose sum with an offset wraps would pass for a small one: such    *)
(* calls are not made.                                                     *)
ASSUME ArenaAssumption ==
  /\ ArenaSize \in Nat \ {0} /\ CacheLine \in Nat \ {0} /\ WordSize \in Nat
  /\ Bases \subseteq Nat /\ Alignments \subseteq Nat \ {0} /\ Sizes \subseteq Nat
  /\ MaxBlocks \in Nat
  /\ \A base \in Bases : base % CacheLine = 0
  /\ \A a \in Alignments : CacheLine % a = 0
  /\ \A a \in Alignments, size \in Sizes : ArenaSize + a + size < WordSize

VARIABLES
  base,    (* The address of m_buffer. *)
  offset,  (* m_offset *)
  blocks   (* History: the blocks handed out since the last reset. *)

arena == <<base, offset, blocks>>

ArenaInit ==
  /\ base \in Bases
  /\ offset = 0
  /\ blocks = <<>>

(* A block that does not fit is refused, and nothing changes. *)
ArenaAllocate(a, size) ==
  LET aligned == AlignUp(offset, a)
      end == (aligned + size) % WordSize
  IN  /\ Len(blocks) < MaxBlocks
      /\ end <= ArenaSize
      /\ offset' = end
      /\ blocks' = Append(blocks, [at |-> aligned, size |-> size, alignment |-> a])
      /\ UNCHANGED base

ArenaReset ==
  /\ offset' = 0
  /\ blocks' = <<>>
  /\ UNCHANGED base

ArenaNext ==
  \/ \E a \in Alignments, size \in Sizes : ArenaAllocate(a, size)
  \/ ArenaReset

ArenaSpec == ArenaInit /\ [][ArenaNext]_arena

-----------------------------------------------------------------------------
(* Properties *)

ArenaTypeOK ==
  /\ base \in Bases
  /\ offset \in 0 .. ArenaSize
  /\ blocks \in Seq([at : 0 .. ArenaSize, size : Nat, alignment : Alignments])

End(b) == b.at + b.size

(* Whatever mix of sizes and alignments is asked for, the blocks handed    *)
(* out since the last reset lie one after the other inside the buffer, and *)
(* each is aligned in memory, not only within the buffer (allocate).       *)
BlocksSound ==
  /\ ArenaTypeOK
  /\ \A i \in DOMAIN blocks :
       /\ (base + blocks[i].at) % blocks[i].alignment = 0
       /\ End(blocks[i]) <= offset
       /\ \A j \in 1 .. i - 1 : End(blocks[j]) <= blocks[i].at
=============================================================================
