---------------------------- MODULE InvoiceLedger ----------------------------
(***************************************************************************)
(* What the invoicing engine promises for its series, without requests,    *)
(* transactions or locks: one book per series code.  A document is entered *)
(* at the end of a book, so that its place is its number; from then on its *)
(* content is fixed.  It may be issued, once, and after that transmitted,  *)
(* once.  Only an empty book may be closed.                                *)
(***************************************************************************)
EXTENDS Naturals, Sequences

CONSTANTS Codes, Contents

VARIABLES
  open,   \* codes that have a series
  book    \* the documents of each code, by number

vars == <<open, book>>

Document == [content: Contents, issued: BOOLEAN, transmissions: Nat]

NewDocument == [content: Contents, issued: {FALSE}, transmissions: {0}]

Init ==
  /\ open = {}
  /\ book = [c \in Codes |-> <<>>]

Open(c) ==
  /\ c \notin open
  /\ open' = open \cup {c}
  /\ book' = book

Close(c) ==
  /\ c \in open
  /\ book[c] = <<>>
  /\ open' = open \ {c}
  /\ book' = book

Enter(c) ==
  /\ c \in open
  /\ open' = open
  /\ Len(book'[c]) = Len(book[c]) + 1
  /\ book'[c][Len(book'[c])] \in NewDocument
  /\ book' = [book EXCEPT ![c] = Append(@, book'[c][Len(book'[c])])]

Issue(c, n) ==
  /\ ~book[c][n].issued
  /\ book' = [book EXCEPT ![c][n].issued = TRUE]
  /\ open' = open

Transmit(c, n) ==
  /\ book[c][n].issued
  /\ book[c][n].transmissions = 0
  /\ book' = [book EXCEPT ![c][n].transmissions = 1]
  /\ open' = open

Next ==
  \E c \in Codes :
    \/ Open(c)
    \/ Close(c)
    \/ Enter(c)
    \/ \E n \in 1 .. Len(book[c]) : Issue(c, n) \/ Transmit(c, n)

Spec == Init /\ [][Next]_vars

=============================================================================
