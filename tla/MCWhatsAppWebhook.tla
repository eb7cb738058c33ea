-------------------------- MODULE MCWhatsAppWebhook --------------------------
(* Small instances of WhatsAppWebhook for TLC.                               *)
EXTENDS WhatsAppWebhook, TLC

AllInOneSection == [i \in Items |-> CHOOSE s \in Sections : TRUE]

Says(kind, ref) == [kind |-> kind, ref |-> ref]

Of(messages, other) == [messages |-> messages, other |-> other]

\* An item added; a service mode chosen and the order confirmed; a service
\* mode next to something unsupported; a delivery status; a callback that is empty.
FivePayloads ==
  {Of(<<Says("item", CHOOSE i \in Items : TRUE), Says("add", None)>>, {}),
   Of(<<Says("service", "takeaway"), Says("order:confirm", None)>>, {}),
   Of(<<Says("service", "takeaway")>>, {"unsupported"}),
   Of(<<>>, {"status"}),
   Of(<<>>, {})}
=============================================================================
