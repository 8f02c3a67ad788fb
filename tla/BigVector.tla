----------------------------- MODULE BigVector -----------------------------
(***************************************************************************)
(* core/bigvector.hpp: a vector in a file.  It is used through a shared    *)
(* mapping of the file, or, between load and save, through a copy of a     *)
(* window in anonymous memory.  Files are read and written directly, by    *)
(* whole pages, so the copy begins at the page of the window's first entry *)
(* and reaches to the end of the page of its last.                         *)
(***************************************************************************)
EXTENDS Integers, Sequences

CONSTANTS PageEntries,    \* PAGESIZE / sizeof(T)
          Zero            \* what fresh memory holds

ASSUME PageAssumption == PageEntries \in Nat \ {0}

VARIABLES
    file,                 \* the entries of the file, in order
    is_open,              \* the file is mapped
    in_memory, begin_i, end_i,
    data_in_memory        \* the anonymous memory, from the entry begin_i on

vectorVars == <<file, is_open, in_memory, begin_i, end_i, data_in_memory>>

\* What init leaves when the file holds these entries.
Opened(entries) ==
    /\ file = entries
    /\ is_open = TRUE
    /\ in_memory = FALSE
    /\ begin_i = 0 /\ end_i = 0
    /\ data_in_memory = << >>

PageOf(k) == (k \div PageEntries) * PageEntries
WholePages(n) == PageOf(n + PageEntries - 1)

\* What pread finds at entry k of the file, the end of the file ending the read.
Read(first, n) ==
    [k \in 1 .. n |-> IF first + k <= Len(file) THEN file[first + k] ELSE Zero]

\* Mutant: the read stops at the last entry of the window.
loadToEnd(begin, end) ==
    LET page == PageOf(begin) IN
    /\ is_open' = FALSE
    /\ begin_i' = page /\ end_i' = end
    /\ in_memory' = TRUE
    /\ data_in_memory' = Read(page, end - page) \o [k \in 1 .. PageEntries |-> Zero]
    /\ UNCHANGED file

(* The window is read in whole pages; the memory has room for one page     *)
(* more than the entries up to the end of the window.                      *)
load(begin, end) ==
    LET page == PageOf(begin)
        entries == Read(page, WholePages(end - page))
        room == end - page + PageEntries
    IN
    /\ end <= Len(file)   \* or the loop would read nothing for ever
    /\ is_open' = FALSE
    /\ begin_i' = page /\ end_i' = end
    /\ in_memory' = TRUE
    /\ data_in_memory' = entries \o [k \in 1 .. room - Len(entries) |-> Zero]
    /\ UNCHANGED file

(* The same pages are written, the file growing to a whole number of pages *)
(* if the window is the last.                                              *)
save ==
    LET n == WholePages(end_i - begin_i)
        size == IF begin_i + n > Len(file) /\ n > 0 THEN begin_i + n ELSE Len(file)
    IN
    /\ file' = [k \in 1 .. size |-> IF begin_i < k /\ k <= begin_i + n
                                    THEN data_in_memory[k - begin_i] ELSE file[k]]
    /\ data_in_memory' = << >>
    /\ in_memory' = FALSE
    /\ begin_i' = 0 /\ end_i' = 0
    /\ is_open' = TRUE

\* operator[]; an index outside the window ends the program.
at(i) == IF in_memory THEN data_in_memory[i - begin_i + 1] ELSE file[i + 1]
InWindow(i) == in_memory => begin_i <= i /\ i <= end_i
assign(i, x) ==
    /\ InWindow(i)
    /\ IF in_memory
       THEN /\ data_in_memory' = [data_in_memory EXCEPT ![i - begin_i + 1] = x]
            /\ UNCHANGED file
       ELSE /\ is_open
            /\ file' = [file EXCEPT ![i + 1] = x]
            /\ UNCHANGED data_in_memory
    /\ UNCHANGED <<is_open, in_memory, begin_i, end_i>>
=============================================================================
