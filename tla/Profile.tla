------------------------------- MODULE Profile -------------------------------
(***************************************************************************)
(* A profile directory: the table of its graph is catalogued and names its *)
(* transfers, or, for a table already catalogued, the rows of its cores    *)
(* become a trace.                                                         *)
(***************************************************************************)
EXTENDS Ingest, NameMapper

VARIABLE part   \* "table" or "rows"

profileVars == <<part, ingestVars, mapperVars>>

\* The part that is left out stays as one of its initial states; a table comes alone with
\* a profile without rows.
ProfileInit ==
  /\ part \in {"table", "rows"}
  /\ MapperInit
  /\ part = "rows" => graph = CHOOSE g \in DOMAIN Graphs : TRUE
  /\ Init
  /\ part = "table" => Range(input.dma) = {<<>>}

MapTable == part = "table" /\ MapperNext /\ UNCHANGED <<part, ingestVars>>

IngestRows == part = "rows" /\ Next /\ UNCHANGED <<part, mapperVars>>

ProfileNext == MapTable \/ IngestRows

ProfileSpec == ProfileInit /\ [][ProfileNext]_profileVars

------------------------------------------------------------------------------

\* A placement policy treats caches and weights differently and the reports are by
\* layer, while the table says neither.  Every slot of a graph of a known layout gets
\* the layer, the part and the category that it has in the model, in whatever order its
\* slots were numbered and its table is written; and a transfer that names slots of the
\* table has the category of one of them (TENSOR_MAPPER_AUDIT.md, section 5.1).
SlotsKeepTheirMeaning ==
  /\ \A v \in DOMAIN catalog :
       LET meant == Graphs[graph].meant[v]
       IN  /\ catalog[v].category = meant.category
           /\ catalog[v].name.layer = meant.layer
           /\ catalog[v].name.part = meant.part
  /\ \A d \in DOMAIN resolved :
       LET named == ({d.variable} \cup ToSet(d.parts)) \cap DOMAIN catalog
       IN  named # {} => \E v \in named : resolved[d].category = Graphs[graph].meant[v].category

\* "Duplicate catalog tensor_id: 0" (TENSOR_MAPPER_AUDIT.md, section 5.1): the trace
\* keeps tensors by id, so two slots of one id would be one tensor.
IdsAreUnique ==
  Cardinality({TensorId(catalog[v]) : v \in DOMAIN catalog}) = Cardinality(DOMAIN catalog)
==============================================================================
