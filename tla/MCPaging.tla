------------------------------- MODULE MCPaging -------------------------------
(* An instance of Paging: tables of 16 entries and 256 pages of address    *)
(* space, so that the user half has the directory entries 0 to 7.          *)
EXTENDS Paging

\* Two pages below directory entry 0, where map_page finds their entries, and
\* one below entry 5, whose entry it looks for in the page behind the table:
\* in the table of entry 0, if that is where palloc put it, as the entry of
\* page 2.  Page 5 is also the physical page number of a table.
UserPages == {2, 5, 82}

\* The pages of the tables: with 5 a page table can be mapped at its physical
\* address.  With 4 another table can be mapped there.
SomePhys == {4, 5}
=============================================================================
