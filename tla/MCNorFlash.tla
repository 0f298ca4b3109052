----------------------------- MODULE MCNorFlash -----------------------------
(***************************************************************************)
(* A flash of two small sectors and a large one, as boot-block parts have  *)
(* them, and requests that take several pieces or sectors.                 *)
(***************************************************************************)
EXTENDS NorFlash, Sequences

\* pl_nor_generate_map, from the sets of sectors that the boot loader names.
Total(geometry, i) ==
  LET upTo[n \in 0 .. Len(geometry)] ==
        IF n = 0 THEN 0 ELSE upTo[n - 1] + geometry[n].size * geometry[n].quantum
  IN  upTo[i]
generate_map(geometry) ==
  UNION {{[start_addr |-> Total(geometry, i - 1) + j * geometry[i].size,
           size |-> geometry[i].size] : j \in 0 .. geometry[i].quantum - 1}
         : i \in 1 .. Len(geometry)}

BootBlock == <<[size |-> 2, quantum |-> 2], [size |-> 4, quantum |-> 1]>>
MCSectors == generate_map(BootBlock)
MCSize    == Total(BootBlock, Len(BootBlock))

Request(op, from, len, off) == [op |-> op, from |-> from, len |-> len, off |-> off]

\* Heads of whole words, no longer than the request; erasures of whole sectors.
MCRequests ==
  {Request("read", 1, 7, 2), Request("write", 0, 7, 2), Request("write", 6, 3, 0),
   Request("erase", 2, 6, 0)}
\* A head that is no whole number of words, and one longer than the request.
OddHead   == {Request("write", 0, 6, 1), Request("erase", 0, 8, 0)}
LongHead  == {Request("write", 0, 1, 2), Request("erase", 0, 8, 0)}
Misaligned == {Request("read", 0, 6, 1), Request("write", 2, 5, 0)}
\* An erasure whose end wraps to within the flash.
Wraps == {Request("write", 0, 8, 0), Request("erase", 2, 31, 0)}
\* An erasure that ends within a sector.
PartSector == {Request("write", 0, 8, 0), Request("erase", 0, 3, 0)}
=============================================================================
