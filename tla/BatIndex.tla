------------------------------ MODULE BatIndex ------------------------------
(***************************************************************************)
(* Where the BAT keeps the entry of a block (bat.rs).  The table is cut    *)
(* into chunks of `ratio` payload entries followed by one sector-bitmap    *)
(* entry; a differencing file has the bitmap entry of its last chunk, any  *)
(* other file stops at its last payload entry.                             *)
(***************************************************************************)
EXTENDS Naturals

\* Mutant: chunks without room for their sector-bitmap entry.
payload_index_dense(blk, ratio) == blk

payload_index(blk, ratio) == (blk \div ratio) * (ratio + 1) + (blk % ratio)

sector_bitmap_index(blk, ratio) == (blk \div ratio) * (ratio + 1) + ratio

\* Mutant: only as many entries as there are blocks.
total_bat_entries_short(count, ratio, has_parent) == count

total_bat_entries(count, ratio, has_parent) ==
    IF count = 0 THEN 0
    ELSE IF has_parent
         THEN ((count - 1) \div ratio + 1) * (ratio + 1)
         ELSE ((count - 1) \div ratio) * (ratio + 1) + ((count - 1) % ratio) + 1
=============================================================================
