----------------------------- MODULE UserAccess -----------------------------
(***************************************************************************)
(* kernel/uaccess.c: the check that a buffer named by a user program lies  *)
(* in user space.  Addresses are 64-bit and their sums wrap around.        *)
(***************************************************************************)
EXTENDS Integers

CONSTANTS AddrSpace,    \* 2^64
          KernelBase    \* KERNEL_VIRT_BASE: 0xFFFF800000000000

ASSUME AddressAssumption ==
    /\ AddrSpace \in Nat /\ KernelBase \in Nat
    /\ 0 < KernelBase /\ KernelBase < AddrSpace

Addr == 0..(AddrSpace - 1)

validate_user_pointer(ptr, len) ==
    LET end == (ptr + len) % AddrSpace
    IN  /\ ~(ptr = 0 /\ len > 0)
        /\ len > 0 => end >= ptr /\ ptr < KernelBase /\ end <= KernelBase

\* copy_from_user and copy_to_user return len, or 0 without touching memory.
copy_user(ptr, len) == IF validate_user_pointer(ptr, len) THEN len ELSE 0

\* The bytes from ptr on are user memory, none of them the null page's first.
InUserSpace(ptr, len) == \A i \in 0..(len - 1) : ptr + i \in 1..(KernelBase - 1)
=============================================================================
