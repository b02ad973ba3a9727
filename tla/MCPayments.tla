----------------------------- MODULE MCPayments -----------------------------
(* Three connections, so that a token can outlive two reconnects, and a  *)
(* listing of three pages, so that Load More is followed by a page that  *)
(* has a next one and by the last page, which has none.                  *)
EXTENDS Payments

MCMaxConnects == 3
MCNPages == 3

=============================================================================
