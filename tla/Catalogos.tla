------------------------------ MODULE Catalogos -----------------------------
(***************************************************************************)
(* One technical catalogue with its editions and their items, and scales   *)
(* of comparison with their items                                          *)
(* (misc/api/views/dynamicTechnicalConfig/index.py and its serializers).   *)
(*                                                                         *)
(* Choosing the current edition and retiring one are transactions that     *)
(* check what another one writes, and no request on the items of a scale   *)
(* locks what it reads: each is two steps, what it reads and what it       *)
(* writes.                                                                 *)
(***************************************************************************)
EXTENDS Integers, Sequences, FiniteSets

CONSTANTS Items,        \* codes of the items of the catalogue
          EscalasC,     \* the scales
          Etiquetas,    \* normalised values of the items of a scale
          NINGUNA,      \* no current edition
          MaxEdicionesC,\* bound: editions of the catalogue
          MaxPendientes,\* bound: requests under way
          MaxOrden,     \* bound: places of a scale
          MaxRenglones, \* bound: rows of items, all the scales together
          MaxTramites   \* bound: requests on items of scales under way

ASSUME CotasDeCatalogo == MaxEdicionesC \in Nat \ {0} /\ MaxOrden \in Nat /\ MaxRenglones \in Nat
ASSUME NingunaAparte == NINGUNA \notin Nat

VARIABLES abierto,      \* the catalogue is active and not deleted
          actual,       \* its current edition, by row
          ediciones,    \* rows of CatalogoTecnicoVersion
          pendientes,   \* requests that have checked and not yet written
          limpio,       \* history: nothing overlapped and no generic form wrote
          renglones,    \* rows of EscalaComparacionItem
          tramites      \* requests on them that have read and not yet written

varsCatalogos == <<abierto, actual, ediciones, pendientes, limpio, renglones, tramites>>

EstadosDeItem == {"no", "vivo", "borrado"}
Filas == 1..MaxEdicionesC
Edicion == [numero : 1..MaxEdicionesC, activa : BOOLEAN, borrada : BOOLEAN,
            items : [Items -> EstadosDeItem]]
Pendiente == [op : {"elegir", "desactivar", "eliminar"}, edicion : Filas]

Usable(v) == ediciones[v].activa /\ ~ediciones[v].borrada
ConItems(v) == \E c \in Items : ediciones[v].items[c] # "no"
Mayor(S) == CHOOSE x \in S : \A y \in S : y <= x
NumerosALaVista == {0} \cup {ediciones[v].numero : v \in {w \in DOMAIN ediciones : ~ediciones[w].borrada}}
NumerosUsados == {0} \cup {ediciones[v].numero : v \in DOMAIN ediciones}
DeNumero(S) == CHOOSE v \in S : \A w \in S : ediciones[w].numero <= ediciones[v].numero

EscalaIgual == UNCHANGED <<renglones, tramites>>
CatalogoIgual == UNCHANGED <<abierto, actual, ediciones, pendientes, limpio>>

-----------------------------------------------------------------------------
(* A new edition starts from the current one or, when that one is empty,   *)
(* from the newest that has items; it does not become the current one.     *)
Origen ==
    LET conItems == {v \in DOMAIN ediciones : ConItems(v)}
    IN IF actual = NINGUNA THEN NINGUNA
       ELSE IF ConItems(actual) \/ conItems = {} THEN actual
       ELSE DeNumero(conItems)

Copia(v) == IF v = NINGUNA THEN [c \in Items |-> "no"] ELSE ediciones[v].items

CrearEdicion(numero) ==
    /\ abierto /\ Len(ediciones) < MaxEdicionesC
    /\ numero \notin NumerosUsados
    /\ ediciones' = Append(ediciones, [numero |-> numero, activa |-> TRUE, borrada |-> FALSE,
                                       items |-> Copia(Origen)])
    /\ UNCHANGED <<abierto, actual, pendientes, limpio>> /\ EscalaIgual

PermitidoSinVigente(op, v) == op = "elegir" => Usable(v) /\ abierto

(* make_current, deactivate and destroy: what they check ... *)
Permitido(op, v) ==
    CASE op = "elegir" -> Usable(v) /\ abierto
      [] op \in {"desactivar", "eliminar"} -> actual # v

Comprobar(op, v) ==
    /\ v \in DOMAIN ediciones /\ ~ediciones[v].borrada
    /\ Permitido(op, v)
    /\ [op |-> op, edicion |-> v] \notin pendientes /\ Cardinality(pendientes) < MaxPendientes
    /\ pendientes' = pendientes \cup {[op |-> op, edicion |-> v]}
    /\ limpio' = (limpio /\ pendientes = {})
    /\ UNCHANGED <<abierto, actual, ediciones>> /\ EscalaIgual

(* ... and what they write. *)
Retirada(e, op) == [e EXCEPT !.activa = FALSE, !.borrada = @ \/ op = "eliminar"]

Escribir(p) ==
    /\ pendientes' = pendientes \ {p}
    /\ actual' = IF p.op = "elegir" THEN p.edicion ELSE actual
    /\ ediciones' = IF p.op = "elegir" THEN ediciones
                    ELSE [ediciones EXCEPT ![p.edicion] = Retirada(@, p.op)]
    /\ UNCHANGED <<abierto, limpio>> /\ EscalaIgual

(* The generic forms: an edition, the catalogue and its current edition. *)
EditarEdicion(v, activa) ==
    /\ v \in DOMAIN ediciones
    /\ ediciones' = [ediciones EXCEPT ![v].activa = activa]
    /\ limpio' = FALSE
    /\ UNCHANGED <<abierto, actual, pendientes>> /\ EscalaIgual

RestaurarEdicion(v) ==
    /\ v \in DOMAIN ediciones
    /\ ediciones' = [ediciones EXCEPT ![v] = [@ EXCEPT !.activa = TRUE, !.borrada = FALSE]]
    /\ UNCHANGED <<abierto, actual, pendientes, limpio>> /\ EscalaIgual

EditarCatalogo(activo, v) ==
    /\ v \in DOMAIN ediciones \cup {NINGUNA}
    /\ abierto' = activo /\ actual' = v
    /\ limpio' = FALSE
    /\ UNCHANGED <<ediciones, pendientes>> /\ EscalaIgual

BorrarCatalogo ==
    /\ abierto' = FALSE
    /\ UNCHANGED <<actual, ediciones, pendientes, limpio>> /\ EscalaIgual

RestaurarCatalogo ==
    /\ abierto' = TRUE
    /\ UNCHANGED <<actual, ediciones, pendientes, limpio>> /\ EscalaIgual

-----------------------------------------------------------------------------
(* Items.  A code stays taken in its edition after its item is deleted.    *)
ConItem(v, c, estado) ==
    /\ ediciones' = [ediciones EXCEPT ![v].items[c] = estado]
    /\ UNCHANGED <<abierto, actual, pendientes, limpio>> /\ EscalaIgual

CrearItem(v, c) ==
    /\ v \in DOMAIN ediciones /\ abierto /\ Usable(v)
    /\ ediciones[v].items[c] = "no"
    /\ ConItem(v, c, "vivo")

BorrarItem(v, c) ==
    /\ v \in DOMAIN ediciones /\ ediciones[v].items[c] = "vivo"
    /\ ConItem(v, c, "borrado")

RestaurarItem(v, c) ==
    /\ v \in DOMAIN ediciones /\ ediciones[v].items[c] = "borrado"
    /\ ConItem(v, c, "vivo")

(* PATCH of the edition of an item. *)
MoverItem(v, w, c) ==
    /\ {v, w} \subseteq DOMAIN ediciones /\ abierto /\ Usable(w)
    /\ ediciones[v].items[c] = "vivo" /\ ediciones[w].items[c] = "no"
    /\ ediciones' = [ediciones EXCEPT ![v].items[c] = "no", ![w].items[c] = "vivo"]
    /\ UNCHANGED <<abierto, actual, pendientes, limpio>> /\ EscalaIgual

(* import_excel: all the rows or none. *)
Importar(v, filas) ==
    /\ v \in DOMAIN ediciones /\ abierto /\ Usable(v)
    /\ ediciones' = [ediciones EXCEPT ![v].items =
                        [c \in Items |-> IF c \in filas THEN "vivo" ELSE @[c]]]
    /\ UNCHANGED <<abierto, actual, pendientes, limpio>> /\ EscalaIgual

(* reconcile_catalog_versions --apply *)
Reparar ==
    LET usables == {v \in DOMAIN ediciones : Usable(v)}
    IN /\ actual = NINGUNA \/ actual \notin usables
       /\ IF usables # {}
          THEN actual' = DeNumero(usables) /\ UNCHANGED ediciones
          ELSE /\ Len(ediciones) < MaxEdicionesC /\ Mayor(NumerosUsados) < MaxEdicionesC
               /\ ediciones' = Append(ediciones, [numero |-> Mayor(NumerosUsados) + 1, activa |-> TRUE,
                                                  borrada |-> FALSE, items |-> Copia(NINGUNA)])
               /\ actual' = Len(ediciones) + 1
       /\ UNCHANGED <<abierto, pendientes, limpio>> /\ EscalaIgual

-----------------------------------------------------------------------------
(* The items of the scales. *)

Lugares == 1..MaxOrden
Renglon == [escala : EscalasC, palabra : Etiquetas, vivo : BOOLEAN, orden : Lugares,
            dado : BOOLEAN]     \* history: the code gave it its place here

(* What a request has read and is about to write.  "dado" is history: the  *)
(* place it writes is the code's own, and no other request has written to  *)
(* its scale since it read.                                                *)
AltaDeItem   == [op : {"crear"}, escala : EscalasC, palabra : Etiquetas, orden : Lugares, dado : BOOLEAN]
CambioDeItem == [op : {"editar"}, fila : 1..MaxRenglones, de : EscalasC, escala : EscalasC,
                 palabra : Etiquetas, orden : Lugares, dado : BOOLEAN]
OrdenDeItems == UNION {[op : {"ordenar"}, escala : EscalasC, lugares : [filas -> Lugares],
                    cambia : SUBSET filas, dado : BOOLEAN] : filas \in SUBSET (1..MaxRenglones)}

Vivos(e) == {i \in DOMAIN renglones : renglones[i].vivo /\ renglones[i].escala = e}
ConPalabra(e, t) == {i \in DOMAIN renglones : renglones[i].escala = e /\ renglones[i].palabra = t}

SiguientePorCuenta(e) == Cardinality(Vivos(e)) + 1

(* _next_order *)
SiguienteOrden(e) == IF Vivos(e) = {} THEN 1 ELSE Mayor({renglones[i].orden : i \in Vivos(e)}) + 1

Tramitar(q) ==
    /\ Cardinality(tramites) < MaxTramites
    /\ tramites' = tramites \cup {q}
    /\ UNCHANGED renglones /\ CatalogoIgual

(* The others once q has written to some scales. *)
EscalasDe(q) == {q.escala} \cup IF q.op = "editar" THEN {q.de} ELSE {}
TrasEscribir(q, escalas) ==
    {IF EscalasDe(p) \cap escalas = {} THEN p ELSE [p EXCEPT !.dado = FALSE] : p \in tramites \ {q}}

(* POST without a place asks for the next one ... *)
PedirItemDeEscala(e, t, orden) ==
    LET lugar == IF orden = 0 THEN SiguienteOrden(e) ELSE orden
    IN /\ lugar <= MaxOrden
       /\ Tramitar([op |-> "crear", escala |-> e, palabra |-> t, orden |-> lugar, dado |-> orden = 0])

(* ... and inserts it, or writes a deleted item of that value again. *)
CrearItemDeEscala(q) ==
    LET fila == [escala |-> q.escala, palabra |-> q.palabra, vivo |-> TRUE, orden |-> q.orden,
                 dado |-> q.dado]
        suyas == ConPalabra(q.escala, q.palabra)
    IN /\ q.op = "crear"
       /\ \/ suyas = {} /\ Len(renglones) < MaxRenglones /\ renglones' = Append(renglones, fila)
          \/ \E i \in suyas : ~renglones[i].vivo /\ renglones' = [renglones EXCEPT ![i] = fila]
       /\ tramites' = TrasEscribir(q, {q.escala})
       /\ CatalogoIgual

(* PATCH reads the item; it may be given another scale, another value and  *)
(* another place, and keeps the place it has unless it is given one ...    *)
LeerItemDeEscala(i, e, t, orden) ==
    /\ i \in DOMAIN renglones
    /\ Tramitar([op |-> "editar", fila |-> i, de |-> renglones[i].escala, escala |-> e, palabra |-> t,
                 orden |-> IF orden = 0 THEN renglones[i].orden ELSE orden,
                 dado |-> orden = 0 /\ e = renglones[i].escala /\ renglones[i].vivo /\ renglones[i].dado])

(* ... and saves the whole row, live again: refused when another item has  *)
(* that value, deleted or not, for a deleted one keeps it in the index.    *)
EditarItemDeEscala(q) ==
    /\ q.op = "editar"
    /\ ConPalabra(q.escala, q.palabra) \subseteq {q.fila}
    /\ renglones' = [renglones EXCEPT ![q.fila] =
                        [escala |-> q.escala, palabra |-> q.palabra, vivo |-> TRUE, orden |-> q.orden,
                         dado |-> q.dado]]
    /\ tramites' = TrasEscribir(q, {q.de, q.escala, renglones[q.fila].escala})
    /\ CatalogoIgual

RechazarItemDeEscala(q) ==
    /\ q.op # "ordenar"
    /\ \E i \in ConPalabra(q.escala, q.palabra) :
           \/ q.op = "crear" /\ renglones[i].vivo
           \/ q.op = "editar" /\ i # q.fila
    /\ tramites' = tramites \ {q}
    /\ UNCHANGED renglones /\ CatalogoIgual

(* destroy and restore write their own columns. *)
BorrarItemDeEscala(i) ==
    /\ i \in DOMAIN renglones /\ renglones[i].vivo
    /\ renglones' = [renglones EXCEPT ![i].vivo = FALSE]
    /\ UNCHANGED tramites /\ CatalogoIgual

RestaurarItemDeEscala(i) ==
    /\ i \in DOMAIN renglones /\ ~renglones[i].vivo
    /\ renglones' = [renglones EXCEPT ![i].vivo = TRUE, ![i].dado = FALSE]
    /\ UNCHANGED tramites /\ CatalogoIgual

(* reorder reads the live items; those the client does not list follow, so *)
(* it works on one of the lists of all of them.  The last place of an item *)
(* in the list counts ...                                                  *)
LeerEscala(e, lista) ==
    LET en(i) == {n \in DOMAIN lista : lista[n] = i}
    IN /\ lista # <<>> /\ {lista[n] : n \in DOMAIN lista} = Vivos(e)
       /\ Tramitar([op |-> "ordenar", escala |-> e, lugares |-> [i \in Vivos(e) |-> Mayor(en(i))],
                    cambia |-> {i \in Vivos(e) : en(i) # {renglones[i].orden}}, dado |-> TRUE])

(* ... and an item is saved when it was read in another place.             *)
Reordenar(q) ==
    /\ q.op = "ordenar"
    /\ renglones' = [i \in DOMAIN renglones |->
                        [renglones[i] EXCEPT
                            !.orden = IF i \in q.cambia THEN q.lugares[i] ELSE @,
                            !.dado = IF q.dado /\ i \in DOMAIN q.lugares THEN TRUE
                                     ELSE @ /\ i \notin q.cambia]]
    /\ tramites' = TrasEscribir(q, {q.escala} \cup {renglones[i].escala : i \in q.cambia})
    /\ CatalogoIgual

-----------------------------------------------------------------------------
InitCatalogos ==
    /\ abierto = TRUE /\ actual = 1
    /\ ediciones = <<[numero |-> 1, activa |-> TRUE, borrada |-> FALSE, items |-> [c \in Items |-> "no"]]>>
    /\ pendientes = {} /\ limpio = TRUE
    /\ renglones = <<>> /\ tramites = {}

NextEdiciones ==
    \/ \E n \in 1..MaxEdicionesC : CrearEdicion(n)
    \/ \E op \in {"elegir", "desactivar", "eliminar"}, v \in Filas : Comprobar(op, v)
    \/ \E p \in pendientes : Escribir(p)
    \/ \E v \in Filas, b \in BOOLEAN : EditarEdicion(v, b)
    \/ \E v \in Filas : RestaurarEdicion(v)
    \/ \E v \in Filas \cup {NINGUNA}, b \in BOOLEAN : EditarCatalogo(b, v)
    \/ BorrarCatalogo \/ RestaurarCatalogo \/ Reparar

NextItems ==
    \/ \E v \in Filas, c \in Items : CrearItem(v, c) \/ BorrarItem(v, c) \/ RestaurarItem(v, c)
    \/ \E v, w \in Filas, c \in Items : MoverItem(v, w, c)
    \/ \E v \in Filas, filas \in SUBSET Items : Importar(v, filas)

NextEscala ==
    \/ \E e \in EscalasC, t \in Etiquetas, n \in 0..MaxOrden :
           \/ PedirItemDeEscala(e, t, n)
           \/ \E i \in 1..MaxRenglones : LeerItemDeEscala(i, e, t, n)
    \/ \E e \in EscalasC : \E n \in 1..MaxOrden : \E lista \in [1..n -> Vivos(e)] : LeerEscala(e, lista)
    \/ \E i \in 1..MaxRenglones : BorrarItemDeEscala(i) \/ RestaurarItemDeEscala(i)
    \/ \E q \in tramites :
           CrearItemDeEscala(q) \/ EditarItemDeEscala(q) \/ RechazarItemDeEscala(q) \/ Reordenar(q)

SpecCatalogos == InitCatalogos /\ [][NextEdiciones \/ NextItems \/ NextEscala]_varsCatalogos

-----------------------------------------------------------------------------
TiposCatalogos ==
    /\ abierto \in BOOLEAN /\ actual \in Filas \cup {NINGUNA}
    /\ ediciones \in Seq(Edicion) /\ pendientes \subseteq Pendiente
    /\ \A v, w \in DOMAIN ediciones : v # w => ediciones[v].numero # ediciones[w].numero
    /\ limpio \in BOOLEAN
    /\ renglones \in Seq(Renglon) /\ tramites \subseteq AltaDeItem \cup CambioDeItem \cup OrdenDeItems
    /\ \A i, j \in DOMAIN renglones :
           i # j => <<renglones[i].escala, renglones[i].palabra>> # <<renglones[j].escala, renglones[j].palabra>>

(* While no request overlaps another and no generic form writes the rows,  *)
(* the current edition is one that can be used (index.py:296-343).         *)
VigenteUsable == limpio => actual # NINGUNA /\ Usable(actual)

(* The live items of a scale have different places, two in one place would *)
(* be taken for equal: those whose place the code gave or reorder wrote,   *)
(* in a request no other wrote to the scale during, whatever was created   *)
(* at once, placed by hand, brought from another scale, deleted, restored  *)
(* or saved late beside them (serializers index.py:202-253, views          *)
(* index.py:603-640).                                                      *)
OrdenUnico ==
    \A e \in EscalasC : \A i, j \in Vivos(e) :
        renglones[i].dado /\ renglones[j].dado /\ i # j => renglones[i].orden # renglones[j].orden

=============================================================================
