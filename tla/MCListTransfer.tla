--------------------------- MODULE MCListTransfer ---------------------------
(* Values of the constants of ListTransfer that a cfg cannot write.        *)
EXTENDS ListTransfer, TLC

OneTotal   == "t" :> 2
NoTotal    == [t \in Title |-> 0]
Mapped     == ("m" :> "t") @@ ("w" :> "t")
MappedBack == "t" :> "m"
Anything   == [i \in Entry |-> Entries]
At(status, progress, score) == [status |-> status, progress |-> progress, score |-> score]
OneTwin    == ("m" :> {NoEntry, At("plan_to_watch", 0, 0), At("watching", 1, 4), At("completed", 2, 0)}) @@
              ("w" :> {At("plan_to_watch", 0, 4)})
Same       == [t \in Title |-> t]
EveryTotal == [t \in Title |-> Last]

=============================================================================
