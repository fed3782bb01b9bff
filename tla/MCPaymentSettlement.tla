------------------------ MODULE MCPaymentSettlement ------------------------
(* Small instances of PaymentSettlement for TLC. *)
EXTENDS PaymentSettlement, TLC

CONSTANTS s1, s2, i1, p1, p2, t1, t2

MCSessions == {s1, s2}
MCInvoices == {i1}
MCPayments == {p1, p2}
MCTxIds    == {t1, t2}
MCOrderOf  == t1 :> i1 @@ t2 :> i1

Sent(t, kind) == [tx |-> t, kind |-> kind, exact |-> TRUE]

(* One card transaction is accepted and later settled, or denied; another  *)
(* one is settled.                                                         *)
MCNotices == {Sent(t1, "accept"), Sent(t1, "settlement"), Sent(t1, "deny"),
              Sent(t2, "settlement"),
              [Sent(t1, "settlement") EXCEPT !.exact = FALSE]}

(* A card payment is challenged and then accepted. *)
CardNotices == {Sent(t1, "challenge"), Sent(t1, "accept")}

LiveNotices == {Sent(t1, "settlement"), Sent(t1, "deny")}

Perms == Permutations(MCSessions) \cup Permutations(MCPayments)
=============================================================================
