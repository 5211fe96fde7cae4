------------------------------ MODULE IPRanges ------------------------------
(***************************************************************************)
(* Address ranges of IP prefixes, as the MySQL store computes them         *)
(* (ipRange) and as PostgreSQL compares them (the operator <<=).           *)
(*                                                                         *)
(* A prefix is an address, which may have bits set behind the prefix, and  *)
(* the number of its leading bits that count.  The widths are parameters:  *)
(* 32 bits in the code for IPv4, 16 bytes of 8 bits for IPv6.              *)
(***************************************************************************)
EXTENDS Integers, Sequences

CONSTANTS
    V4Bits,    \* the width of an IPv4 address
    V6Bytes,   \* the number of bytes of an IPv6 address
    ByteBits   \* the width of a byte

ASSUME WidthAssumption == V4Bits \in Nat /\ V6Bytes \in Nat \ {0} /\ ByteBits \in Nat \ {0}

Width(version) == IF version = "v4" THEN V4Bits ELSE V6Bytes * ByteBits

Prefixes ==
    UNION {[version : {v}, addr : 0 .. 2^Width(v) - 1, bits : 0 .. Width(v)] : v \in {"v4", "v6"}}

\* The number of addresses of the prefix.
BlockSize(p) == 2^(Width(p.version) - p.bits)

\* prefix.Masked().Addr(): the bits behind the prefix are cleared.
Masked(addr, size) == addr - (addr % size)

\* The IPv4 range: start and start + 2^hostBits - 1, in 64-bit integers.
V4Range(p) ==
    LET start == Masked(p.addr, BlockSize(p))
    IN  [start |-> start, end |-> start + BlockSize(p) - 1]

-----------------------------------------------------------------------------
(* IPv6: byte strings, the most significant byte first.                    *)

Bytes(addr) == [k \in 1..V6Bytes |-> (addr \div 2^(ByteBits * (V6Bytes - k))) % 2^ByteBits]

\* b |= 1 << i
SetBit(b, i) == IF (b \div 2^i) % 2 = 1 THEN b ELSE b + 2^i

\* The loop over the host bits, from the last bit of the last byte upwards.
SetHostBits(start, hostBits) ==
    LET end[i \in 0..hostBits] ==
            IF i = 0 THEN start
            ELSE [end[i - 1] EXCEPT ![V6Bytes - ((i - 1) \div ByteBits)] =
                                        SetBit(@, (i - 1) % ByteBits)]
    IN  end[hostBits]

\* The range whose loop stops before the topmost host bit.
V6Range_LoopShort(p) ==
    LET start    == Bytes(Masked(p.addr, BlockSize(p)))
        hostBits == Width("v6") - p.bits
    IN  [start |-> start, end |-> SetHostBits(start, IF hostBits = 0 THEN 0 ELSE hostBits - 1)]

V6Range(p) ==
    LET start == Bytes(Masked(p.addr, BlockSize(p)))
    IN  [start |-> start, end |-> SetHostBits(start, Width("v6") - p.bits)]

\* VARBINARY columns compare byte by byte, the first difference decides.
BytesLeq(a, b) ==
    \/ a = b
    \/ \E k \in 1..V6Bytes : a[k] < b[k] /\ \A j \in 1..(k - 1) : a[j] = b[j]

-----------------------------------------------------------------------------
\* PostgreSQL's p <<= c: p is at least as long as c and agrees with it on c's bits.
SubnetOrEqual(p, c) ==
    /\ p.version = c.version
    /\ p.bits >= c.bits
    /\ p.addr \div BlockSize(c) = c.addr \div BlockSize(c)

\* The reference: the addresses that agree with the prefix on its leading bits.
Addresses(p) ==
    {a \in 0 .. 2^Width(p.version) - 1 : a \div BlockSize(p) = p.addr \div BlockSize(p)}
=============================================================================
