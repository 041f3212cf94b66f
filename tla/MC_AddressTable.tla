--------------------------- MODULE MC_AddressTable ----------------------------
(* One page group of four lbas, a SECTOR_MAP stream 0 and a PAGE_MAP      *)
(* stream 1, one cacheline, and media of two blocks of two pages, so that *)
(* a page number and a block number can differ.                           *)
EXTENDS AddressTable

MCStreamType == [s \in {0, 1} |-> IF s = 0 THEN "sector" ELSE "page"]
================================================================================
