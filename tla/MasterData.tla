----------------------------- MODULE MasterData -----------------------------
(***************************************************************************)
(* The master data as a whole: requests to its services, several at a      *)
(* time, on the tables a behaviour is about.                               *)
(***************************************************************************)
EXTENDS Catalog, Distributors, Sites

masterVars == <<vars, carried>>

(* The columns that are kept of a table's rows.                            *)
Columns == [t \in Tables |-> {"code", "status", "deleted"} \cup
    CASE t = "subCategory" -> {"category"}
      [] t = "sku" -> {"brand", "category", "subCategory"}
      [] t = "distributor" -> {"type", "parent"}
      [] t = "warehouse" -> {"owner", "default"}
      [] t = "policy" -> {"lo", "hi"}
      [] t = "route" -> {"territory", "from", "to"}
      [] OTHER -> {}]

MasterInit == RowsInit /\ carried = {}

Proceed(w) ==
    \/ CheckRefs(w) \/ CheckCode(w) \/ InsertRow(w) \/ Load(w) \/ Write(w)
    \/ CheckCodes(w) \/ InsertAll(w)

MasterNext ==
    \E w \in Workers :
      \/ (CatalogBegin(w) \/ SitesBegin(w) \/ Proceed(w) \/ Abandon(w)) /\ Kept
      \/ DistributorsBegin(w)
      \/ UnsetOtherDefaults(w)

MasterSpec == MasterInit /\ [][MasterNext]_masterVars

----------------------------------------------------------------------------
(* Properties.                                                             *)

(* What a column may hold, save for the code: a reference leads to a row   *)
(* that is there.                                                          *)
Values(tables, t, c) ==
    CASE c = "status" -> Status
      [] c \in {"deleted", "default"} -> BOOLEAN
      [] t = "sku" /\ c \in {"brand", "category", "subCategory"} ->
           DOMAIN tables[c] \cup {None}
      [] t = "subCategory" /\ c = "category" -> DOMAIN tables[c]
      [] c = "type" -> {Primary, Sub}
      [] c = "parent" -> DOMAIN tables["distributor"] \cup {None}
      [] c = "owner" -> {Owner(Company, None)} \cup
           {Owner(type, i) : type \in {Primary, Sub}, i \in DOMAIN tables["distributor"]}
      [] c = "territory" -> DOMAIN tables["orgNode"]
      [] c \in {"lo", "hi"} -> Quantities
      [] c = "from" -> Days
      [] c = "to" -> Days \cup {Forever}

Typed(tables) ==
    \A t \in Tables : \A i \in DOMAIN tables[t] : \A c \in Columns[t] \ {"code"} :
        tables[t][i][c] \in Values(tables, t, c)

(* A code tells the rows of a table apart; of the policies, those that are *)
(* not deleted.                                                            *)
CodesTell(tables) ==
    \A t \in Tables : \A i, j \in DOMAIN tables[t] :
        LET a == tables[t][i]
            b == tables[t][j]
        IN  a.code = b.code /\ (t = "policy" => ~a.deleted /\ ~b.deleted) => i = j

(* The rows of the tables have their columns, and what they refer to is    *)
(* there.                                                                  *)
MasterTypeOK == Typed(rows) /\ CodesTell(rows)

Saves(w, table, i) ==
    Doing(w, "write") /\ req[w].table = table /\ req[w].id = i

(* A deleted row comes back only by a save that overlaps with the          *)
(* deletion: of a copy read while the row was live, which the save then    *)
(* compared with the deleted row.  No request that begins after the        *)
(* deletion brings it back, although many services find deleted rows and   *)
(* save them; nor does one that compared before it, and saves after.       *)
DeletedStayDeleted ==
    [][\A t \in Tables : \A i \in DOMAIN rows[t] :
         rows[t][i].deleted /\ ~rows'[t][i].deleted =>
           \E w \in Workers : /\ Saves(w, t, i)
                             /\ ~req[w].gone /\ "deleted" \in req[w].diff]_masterVars

(* No two live default warehouses of one owner, save for those exempt.     *)
OneDefault(warehouses, exempt) ==
    \A i, j \in DOMAIN warehouses :
        LET a == warehouses[i]
            b == warehouses[j]
        IN  /\ ~a.deleted /\ a.default
            /\ ~b.deleted /\ b.default
            /\ a.owner = b.owner /\ a.owner \notin exempt
            => i = j

(* An owner has one default warehouse at most, as long as no two requests  *)
(* worked on warehouses at once and no default warehouse came from another *)
(* owner.                                                                  *)
OneDefaultPerOwner ==
    "warehouse" \in stale \/ OneDefault(rows["warehouse"], carried)

(* Some distributor of any group is under none of the others, so that no   *)
(* way up leads round; one may be its own parent.  A PRIMARY one has none. *)
Trees(distributors) ==
    /\ \A group \in SUBSET DOMAIN distributors : group # {} =>
         \E i \in group : distributors[i].parent \notin group \ {i}
    /\ \A i \in DOMAIN distributors :
         distributors[i].type = Primary => distributors[i].parent = None

(* Going up from a distributor never leads back to it, except to itself as *)
(* its own parent, and a PRIMARY one has no parent, if no two requests     *)
(* worked on distributors at once.                                         *)
DistributorsFormTrees ==
    "distributor" \in stale \/ Trees(rows["distributor"])

(* What the properties take for granted of the tables at the start.        *)
ASSUME FirstRowsAssumption ==
    \A first \in FirstRows :
      /\ DOMAIN first.rows = Tables
      /\ \A t \in Tables :
           LET table == first.rows[t]
           IN  /\ table \in Seq({table[i] : i \in DOMAIN table})
               /\ \A i \in DOMAIN table : DOMAIN table[i] = Columns[t]
      /\ Typed(first.rows) /\ CodesTell(first.rows)
      /\ OneDefault(first.rows["warehouse"], {})
      /\ Trees(first.rows["distributor"])
=============================================================================
