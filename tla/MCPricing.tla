------------------------------ MODULE MCPricing ------------------------------
EXTENDS Pricing

Filter(p, c, r, l) == [prefix |-> p, cut |-> c, replace |-> r, len |-> l]
MCFilterInputs ==
  [number : {<<1>>, <<2, 2>>, <<1, 2, 1>>, <<2, 1, 2>>},
   filters : {<<>>, <<Filter(<<1>>, 1, <<>>, 0), Filter(<<>>, 0, <<2>>, 3)>>,
              <<Filter(<<2, 1>>, 2, <<1>>, 0)>>}]

MCAccountInputs ==
  [type : {"unkn", "isup", "sms", "voip_a", "voip_v", "voip_t"}, leg : {"a", "b"},
   found : SUBSET {"clg", "acode", "dstc", "dsttg"}, long : {{}, {"clg"}}, empty : {{}, {"dstc"}}]

Card(t, s, e) == [type |-> t, start |-> s, end |-> e]
MCCardInputs ==
  [y : {1}, m : {1, 2, 12}, d : {1, 2, 14, 15, 16, 27, 28, 29, 30, 31}, bday : {0, 1, 15, 28, 31},
   cards : {<<>>,
            <<Card("debit", 0, 0), Card("credit", 0, 0)>>,
            <<Card("debit", Date(1, 1, 10), Date(1, 2, 10)), Card("credit", Date(1, 1, 5), 0)>>,
            <<Card("other", 0, 0), Card("credit", 0, Date(1, 6, 1))>>}]

Cond(d, a, b, h, k) == [date |-> d, d1 |-> a, d2 |-> b, h1 |-> h, h2 |-> k]
Rate(p, s, e, c) == [prefix |-> p, start |-> s, end |-> e, conds |-> c]
Conds == {<<>>, <<Cond(0, 1, 5, 15, 35)>>, <<Cond(7, 0, 0, -1, -1)>>,
          <<Cond(0, 6, 7, 36, 16), Cond(8, 1, 5, 16, 36)>>}
MCRateInputs ==
  [rates : {{Rate(<<1>>, 0, 0, c), Rate(<<1, 2>>, 2, e, k), Rate(w, 0, 0, <<>>)} :
              c \in Conds, e \in {0, 3}, k \in Conds, w \in {Wildcard, <<2>>}},
   now : {1, 2, 4},
   ts : [date : {7}, isodow : {1, 7}, time : {16, 20, 36, 40}],
   usable : {{}}]

Steps == [delta : {1, 2, 3}, fee : {0, 1, 2}, iter : {0, 1, 2}]
Few == [delta : {1, 3}, fee : {0, 1}, iter : 0 .. 2]
MCTariffs == {<<e>> : e \in Steps} \cup {<<e, k>> : e \in Steps, k \in Steps}
               \cup {<<e, k, j>> : e \in Few, k \in Few, j \in Few}
MCPriceInputs == [tariff : MCTariffs, billsec : 1 .. 5, mode : {0}, dur : {10}]
                   \cup [tariff : {<<e>> : e \in Steps}, billsec : {1}, mode : {1, 2}, dur : {0, 9, 10, 25}]
MCCreditInputs == [tariff : MCTariffs, limit : 1 .. 4, free : {0, 2}, cap : {5}]
MCBatchInputs == [calls : BoundedSeq(0 .. 3, 3), limit : 0 .. 4, used : 0 .. 2]
=============================================================================
