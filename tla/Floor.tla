-------------------------------- MODULE Floor --------------------------------
(***************************************************************************)
(* Tables, stock and menu side by side.  The three share no row (orders    *)
(* appear in each as the environment that uses its rows), so a run lets    *)
(* one of them move: the states of the parts add up instead of             *)
(* multiplying, and no behaviour of any part is lost.                      *)
(***************************************************************************)
EXTENDS Tables, Stock, MenuBook

VARIABLE place     \* the part that moves in this behaviour

floorAllVars == <<place, tableVars, stockVars, menuVars>>

FloorInit ==
  /\ place \in {"tables", "stock", "menu"}
  /\ TablesInit /\ StockInit /\ MenuInit
  /\ place # "tables" => number = [t \in Tables |-> 0]

FloorNext ==
  /\ UNCHANGED place
  /\ \/ place = "tables" /\ TablesNext /\ UNCHANGED <<stockVars, menuVars>>
     \/ place = "stock" /\ StockNext /\ UNCHANGED <<tableVars, menuVars>>
     \/ place = "menu" /\ MenuNext /\ UNCHANGED <<tableVars, stockVars>>

FloorSpec == FloorInit /\ [][FloorNext]_floorAllVars
=============================================================================
