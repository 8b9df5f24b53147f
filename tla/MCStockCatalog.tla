---- MODULE MCStockCatalog ----
EXTENDS StockCatalog
CONSTANTS n1,n2,p1,p2,t1
E(s,n,p) == [stock |-> s, name |-> n, profile |-> p]
F(kind, rows, date) == [kind |-> kind, rows |-> rows, total |-> Len(rows), date |-> date, quotes |-> {}, targets |-> [s \in Stocks |-> {}], apply |-> TRUE]
T(s,d,o,c,z) == [stock |-> s, date |-> d, open |-> o, close |-> c, zeros |-> z]
two == <<E(2,n1,NoProfile),E(1,n1,NoProfile)>>
MCFiles == { F("catalogue", two, 1), F("catalogue", two, 2), 
  F("catalogue", <<E(1,n2,NoProfile)>>, 1),
  F("profiles", <<E(2,n1,p1),E(1,n1,p1)>>, 1), F("profiles", <<E(1,n1,p2), E(2,n1,p2)>>, 2),
  F("reindex", <<>>, 1),
  [F("quotes", two, 1) EXCEPT !.quotes = {T(1,1,1,1,0), T(2,1,0,1,1)}],
  [F("quotes", two, 1) EXCEPT !.quotes = {T(1,1,1,2,0)}],
  [F("classification", two, 1) EXCEPT !.targets = [s \in Stocks |-> {t1}]],
  [F("classification", <<E(1,n1,NoProfile)>>, 1) EXCEPT !.apply = FALSE] }
====
