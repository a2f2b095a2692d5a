------------------------------ MODULE Activos ------------------------------
(***************************************************************************)
(* The plant of the clients (activesTree): the tree of folders under one   *)
(* root per company, machines and their nodes, sampling points, and the    *)
(* history of points each sample has been assigned to.  One action is one  *)
(* request, except for the requests that read before their transaction or  *)
(* their lock: these are a reading step and a writing step, with at most   *)
(* one such request open while other requests run.                         *)
(***************************************************************************)
EXTENDS Integers, Sequences, FiniteSets

CONSTANTS
    Companias, Nombres, Nodos, Maquinas, Puntos, Muestras,
    NINGUNO,           \* null, and the value of a row that does not exist
    AUSENTE,           \* the machine of a sample that does not exist
    CarpetasPedidas,   \* bound: what a folder form is sent with
    MaxAsignaciones    \* bound: rows in the history of a sample

VARIABLES
    empresa,       \* company rows: name, is_active
    nodo,          \* Carpeta rows
    maquina,       \* Maquina rows
    punto,         \* PuntoMuestreo rows
    equipo,        \* Muestra.referencia_equipo, AUSENTE while there is no sample
    asignaciones,  \* AsignacionPuntoMuestreo rows of each sample, oldest first
    enCurso,       \* the request between its reading and its writing step
    trasladados,   \* points a PATCH has moved to another machine
    foco           \* bound: the part of the plant a behaviour works on

varsActivos == <<empresa, nodo, maquina, punto, equipo, asignaciones, enCurso, trasladados, foco>>

Nada    == [op |-> "nada"]
RAIZ    == -1
Tipos   == {"root", "folder", "machine"}
Focos   == {"arbol", "secuencial", "concurrente"}

(* A row that does not exist is NINGUNO. *)
Carpeta == [compania : Companias, tipo : Tipos, padre : Nodos \cup {RAIZ},
            maquina : Maquinas \cup {NINGUNO}, nombre : Nombres \cup {NINGUNO}]
FilaDeEmpresa == [nombre : Nombres, activa : BOOLEAN]
FilaDeMaquina == [empresa : Companias, activa : BOOLEAN]
FilaDePunto   == [maquina : Maquinas, activo : BOOLEAN]

ASSUME FilasAparte ==
    /\ NINGUNO \notin Puntos \cup FilaDePunto \cup FilaDeMaquina \cup FilaDeEmpresa \cup Carpeta
    /\ AUSENTE \notin Maquinas \cup {NINGUNO}
ASSUME HayFilas == Companias # {} /\ Nodos # {} /\ Nombres # {}
ASSUME FormasDeCarpeta == CarpetasPedidas \subseteq Carpeta

TiposActivos ==
    /\ empresa \in [Companias -> FilaDeEmpresa \cup {NINGUNO}]
    /\ nodo \in [Nodos -> Carpeta \cup {NINGUNO}]
    /\ maquina \in [Maquinas -> FilaDeMaquina \cup {NINGUNO}]
    /\ punto \in [Puntos -> FilaDePunto \cup {NINGUNO}]
    /\ equipo \in [Muestras -> Maquinas \cup {NINGUNO, AUSENTE}]
    /\ \A s \in Muestras : \A i \in DOMAIN asignaciones[s] :
          asignaciones[s][i] \in [punto : Puntos, activa : BOOLEAN]
    /\ trasladados \subseteq Puntos
    /\ foco \in Focos

Existe(f, x) == f[x] # NINGUNO
Existentes(f) == {x \in DOMAIN f : Existe(f, x)}

(* The identifier of the next row of a table, if there is room for one. *)
Siguiente(f) == {x \in DOMAIN f \ Existentes(f) : \A y \in DOMAIN f \ Existentes(f) : x <= y}

Recibidas == {s \in Muestras : equipo[s] # AUSENTE}

-----------------------------------------------------------------------------
(* The tree *)

EsRaiz(c, e) == c.compania = e /\ c.tipo = "root" /\ c.padre = RAIZ
Raices(ns, e) == {n \in Existentes(ns) : EsRaiz(ns[n], e)}

(* unique_company_root_tree_node, unique_machine_tree_node *)
RestriccionesDeArbol(ns) ==
    \A a, b \in Existentes(ns) :
        a # b => /\ ~\E e \in Companias : EsRaiz(ns[a], e) /\ EsRaiz(ns[b], e)
                 /\ ns[a].maquina = NINGUNO \/ ns[a].maquina # ns[b].maquina

(* Slip: an existing root keeps its label. *)
RaizSinEtiqueta(ns, e, nombre) ==
    IF Raices(ns, e) # {} THEN {ns}
    ELSE {[ns EXCEPT ![n] = [compania |-> e, tipo |-> "root", padre |-> RAIZ,
                             maquina |-> NINGUNO, nombre |-> nombre]] :
             n \in Siguiente(ns)}

(* ensure_company_root: the nodes after it; more than one root cannot be stored. *)
RaizAsegurada(ns, e, nombre) ==
    IF Raices(ns, e) # {}
    THEN {[n \in Nodos |-> IF n \in Raices(ns, e) THEN [ns[n] EXCEPT !.nombre = nombre] ELSE ns[n]]}
    ELSE {[ns EXCEPT ![n] = [compania |-> e, tipo |-> "root", padre |-> RAIZ,
                             maquina |-> NINGUNO, nombre |-> nombre]] :
             n \in Siguiente(ns)}

(* ensure_machine_tree_node: a node that exists stays where it is. *)
NodoAsegurado(ns, m, e, carpeta) ==
    UNION {IF \E n \in Existentes(raiz) : raiz[n].maquina = m THEN {raiz}
           ELSE {[raiz EXCEPT ![n] = [compania |-> e, tipo |-> "machine", maquina |-> m,
                                      nombre |-> NINGUNO,
                                      padre |-> IF carpeta = NINGUNO
                                                THEN CHOOSE r \in Raices(raiz, e) : TRUE
                                                ELSE carpeta]] :
                    n \in Siguiente(raiz)} :
           raiz \in RaizAsegurada(ns, e, empresa[e].nombre)}

NoCambiaPlanta == UNCHANGED <<punto, equipo, asignaciones, enCurso, trasladados, foco>>
SoloArbol      == NoCambiaPlanta /\ UNCHANGED maquina

(* Companies: POST, and PUT/PATCH with the post_save signal of the company. *)
NombreLibre(e, nombre) == \A o \in Existentes(empresa) \ {e} : empresa[o].nombre # nombre

CrearEmpresa(e, nombre, activa) ==
    /\ ~Existe(empresa, e)
    /\ NombreLibre(e, nombre)
    /\ empresa' = [empresa EXCEPT ![e] = [nombre |-> nombre, activa |-> activa]]
    /\ nodo' \in IF activa THEN RaizAsegurada(nodo, e, nombre) ELSE {nodo}
    /\ SoloArbol

(* perform_update ensures the root after a change of name, the signal whenever *)
(* the company is left active; block, disable, read-only and restore save the  *)
(* state through the same signal.                                              *)
EditarEmpresa(e, nombre, activa) ==
    /\ Existe(empresa, e)
    /\ NombreLibre(e, nombre)
    /\ empresa' = [empresa EXCEPT ![e] = [nombre |-> nombre, activa |-> activa]]
    /\ nodo' \in IF activa \/ nombre # empresa[e].nombre THEN RaizAsegurada(nodo, e, nombre) ELSE {nodo}
    /\ SoloArbol

(* POST and PUT/PATCH folders write every column the client sends. *)
CarpetaPedida(c) == Existe(empresa, c.compania) /\ (c.padre # RAIZ => Existe(nodo, c.padre))
                    /\ (c.maquina # NINGUNO => Existe(maquina, c.maquina))

CrearCarpeta(n, c) ==
    /\ n \in Siguiente(nodo)
    /\ CarpetaPedida(c)
    /\ nodo' = [nodo EXCEPT ![n] = c]
    /\ RestriccionesDeArbol(nodo')
    /\ UNCHANGED empresa /\ SoloArbol

Protegida(n) == nodo[n].tipo = "root" \/ nodo[n].padre = RAIZ

EditarCarpeta(n, c) ==
    /\ Existe(nodo, n) /\ ~Protegida(n)
    /\ CarpetaPedida(c)
    /\ nodo' = [nodo EXCEPT ![n] = c]
    /\ RestriccionesDeArbol(nodo')
    /\ UNCHANGED empresa /\ SoloArbol

BorrarCarpeta(n) ==
    /\ Existe(nodo, n) /\ ~Protegida(n)
    /\ \A h \in Existentes(nodo) : nodo[h].padre # n
    /\ nodo[n].maquina # NINGUNO => ~maquina[nodo[n].maquina].activa
    /\ nodo' = [nodo EXCEPT ![n] = NINGUNO]
    /\ UNCHANGED empresa /\ SoloArbol

-----------------------------------------------------------------------------
(* Machines *)

(* parent_folder: a grouping folder of the same company, or none. *)
CarpetasDestino(e) ==
    {n \in Existentes(nodo) : nodo[n].compania = e /\ nodo[n].tipo \in {"root", "folder"}} \cup {NINGUNO}

CrearMaquina(m, e, carpeta) ==
    /\ m \in Siguiente(maquina) /\ Existe(empresa, e)
    /\ carpeta \in CarpetasDestino(e)
    /\ maquina' = [maquina EXCEPT ![m] = [empresa |-> e, activa |-> TRUE]]
    /\ nodo' \in NodoAsegurado(nodo, m, e, carpeta)
    /\ UNCHANGED empresa /\ NoCambiaPlanta

(* PUT/PATCH: the node stays with the company it was created in. *)
EditarMaquina(m, e, activa) ==
    /\ Existe(maquina, m) /\ Existe(empresa, e)
    /\ maquina' = [maquina EXCEPT ![m] = [empresa |-> e, activa |-> activa]]
    /\ UNCHANGED <<empresa, nodo>> /\ NoCambiaPlanta

DesactivarMaquina(m) ==
    /\ Existe(maquina, m)
    /\ maquina' = [maquina EXCEPT ![m].activa = FALSE]
    /\ punto' = [p \in Puntos |-> IF Existe(punto, p) /\ punto[p].maquina = m
                                  THEN [punto[p] EXCEPT !.activo = FALSE] ELSE punto[p]]
    /\ UNCHANGED <<empresa, nodo, equipo, asignaciones, enCurso, trasladados, foco>>

ReactivarMaquina(m) ==
    /\ Existe(maquina, m)
    /\ maquina' = [maquina EXCEPT ![m].activa = TRUE]
    /\ nodo' \in NodoAsegurado(nodo, m, maquina[m].empresa, NINGUNO)
    /\ UNCHANGED empresa /\ NoCambiaPlanta

-----------------------------------------------------------------------------
(* Sampling points *)

Terreno == UNCHANGED <<empresa, nodo, maquina, foco>>
PuntoActivo(p) == Existe(punto, p) /\ punto[p].activo

CrearPunto(p, m) ==
    /\ p \in Siguiente(punto) /\ Existe(maquina, m)
    /\ punto' = [punto EXCEPT ![p] = [maquina |-> m, activo |-> TRUE]]
    /\ UNCHANGED <<equipo, asignaciones, enCurso, trasladados>> /\ Terreno

(* PUT/PATCH sampling-points: machine and activo are plain fields. *)
EditarPunto(p, m, activo) ==
    /\ Existe(punto, p) /\ Existe(maquina, m)
    /\ punto' = [punto EXCEPT ![p] = [maquina |-> m, activo |-> activo]]
    /\ trasladados' = IF m = punto[p].maquina THEN trasladados ELSE trasladados \cup {p}
    /\ UNCHANGED <<equipo, asignaciones, enCurso>> /\ Terreno

ReactivarPunto(p) ==
    /\ Existe(punto, p) /\ maquina[punto[p].maquina].activa
    /\ punto' = [punto EXCEPT ![p].activo = TRUE]
    /\ UNCHANGED <<equipo, asignaciones, enCurso, trasladados>> /\ Terreno

-----------------------------------------------------------------------------
(* The assignments of a sample *)

Activas(s) == {i \in DOMAIN asignaciones[s] : asignaciones[s][i].activa}
PuntoVigente(s) == IF Activas(s) = {} THEN NINGUNO
                   ELSE asignaciones[s][CHOOSE i \in Activas(s) : TRUE].punto

(* Slip: the assignment that is replaced is removed. *)
CerradaBorrando(s) == SelectSeq(asignaciones[s], LAMBDA a : ~a.activa)

(* close *)
Cerrada(s) == [i \in DOMAIN asignaciones[s] |-> [asignaciones[s][i] EXCEPT !.activa = FALSE]]

(* Close the assignment in force and create the new one. *)
Reasignada(s, p) == Append(Cerrada(s), [punto |-> p, activa |-> TRUE])

(* POST sample-batches: a registered point, or a typed plate (an existing machine, *)
(* active or not, or a new one) with an optional typed point, or neither.          *)
RecibirConPunto(s, p) ==
    /\ equipo[s] = AUSENTE /\ PuntoActivo(p)
    /\ equipo' = [equipo EXCEPT ![s] = punto[p].maquina]
    /\ asignaciones' = [asignaciones EXCEPT ![s] = <<[punto |-> p, activa |-> TRUE]>>]
    /\ UNCHANGED <<punto, enCurso, trasladados>> /\ Terreno

RecibirConPlaca(s, m, e, p) ==
    /\ equipo[s] = AUSENTE /\ Existe(empresa, e)
    /\ m \in Existentes(maquina) \cup Siguiente(maquina)
    /\ Existe(maquina, m) => maquina[m].empresa = e
    /\ maquina' = [maquina EXCEPT ![m] = IF Existe(maquina, m) THEN @
                                         ELSE [empresa |-> e, activa |-> TRUE]]
    /\ nodo' \in NodoAsegurado(nodo, m, e, NINGUNO)
    /\ equipo' = [equipo EXCEPT ![s] = m]
    /\ \/ p = NINGUNO /\ UNCHANGED <<punto, asignaciones>>
       \/ /\ p # NINGUNO
          /\ p \in Existentes(punto) \cup Siguiente(punto)
          /\ Existe(punto, p) => punto[p].maquina = m /\ punto[p].activo
          /\ punto' = [punto EXCEPT ![p] = [maquina |-> m, activo |-> TRUE]]
          /\ asignaciones' = [asignaciones EXCEPT ![s] = <<[punto |-> p, activa |-> TRUE]>>]
    /\ UNCHANGED <<empresa, enCurso, trasladados, foco>>

RecibirSinEquipo(s) ==
    /\ equipo[s] = AUSENTE
    /\ equipo' = [equipo EXCEPT ![s] = NINGUNO]
    /\ UNCHANGED <<punto, asignaciones, enCurso, trasladados>> /\ Terreno

(* DELETE samples: its assignments go with it (CASCADE). *)
BorrarMuestra(s) ==
    /\ s \in Recibidas
    /\ equipo' = [equipo EXCEPT ![s] = AUSENTE]
    /\ asignaciones' = [asignaciones EXCEPT ![s] = <<>>]
    /\ UNCHANGED <<punto, enCurso, trasladados>> /\ Terreno

(* The reading steps: what the request keeps in memory. *)
LeerOrganizar(p, S) ==
    /\ PuntoActivo(p)
    /\ enCurso' = [op |-> "organizar", punto |-> p,
                   muestras |-> {s \in S \cap Recibidas : equipo[s] = punto[p].maquina}]

LeerFijarPunto(s, p) ==
    /\ s \in Recibidas
    /\ p # NINGUNO => PuntoActivo(p) /\ equipo[s] = punto[p].maquina
    /\ enCurso' = [op |-> "fijar", muestra |-> s, punto |-> p]

LeerEditarMuestra(s, nuevo) ==
    /\ s \in Recibidas /\ (nuevo # NINGUNO => Existe(maquina, nuevo))
    /\ enCurso' = [op |-> "editar", muestra |-> s, leido |-> equipo[s], nuevo |-> nuevo]

LeerRetirarPunto(p) ==
    /\ PuntoActivo(p)
    /\ \A s \in Muestras : PuntoVigente(s) # p
    /\ enCurso' = [op |-> "retirar", punto |-> p]

Leer ==
    /\ enCurso = Nada
    /\ \/ \E p \in Puntos, S \in SUBSET Muestras : LeerOrganizar(p, S)
       \/ \E s \in Muestras, p \in Puntos \cup {NINGUNO} : LeerFijarPunto(s, p)
       \/ \E s \in Muestras, m \in Maquinas \cup {NINGUNO} : LeerEditarMuestra(s, m)
       \/ \E p \in Puntos : LeerRetirarPunto(p)
    /\ UNCHANGED <<punto, equipo, asignaciones, trasladados>> /\ Terreno

(* organize: a sample that already has the point is left alone. *)
EscribirOrganizar ==
    LET S == {s \in enCurso.muestras \cap Recibidas : PuntoVigente(s) # enCurso.punto} IN
    /\ enCurso.op = "organizar"
    /\ \A s \in S : Len(asignaciones[s]) < MaxAsignaciones
    /\ asignaciones' = [s \in Muestras |-> IF s \in S THEN Reasignada(s, enCurso.punto)
                                           ELSE asignaciones[s]]
    /\ UNCHANGED <<punto, equipo>>

(* measurement_point: set or clear, under the lock of the assignment in force. *)
EscribirFijarPunto ==
    /\ enCurso.op = "fijar"
    /\ LET s == enCurso.muestra  p == enCurso.punto IN
       /\ Len(asignaciones[s]) < MaxAsignaciones
       /\ asignaciones' =
             IF s \notin Recibidas \/ (p # NINGUNO /\ PuntoVigente(s) = p) THEN asignaciones
             ELSE [asignaciones EXCEPT ![s] = IF p = NINGUNO THEN Cerrada(s) ELSE Reasignada(s, p)]
    /\ UNCHANGED <<punto, equipo>>

(* Slip: the machine of the sample changes and its assignment stays. *)
PierdeElPuntoNunca == FALSE

(* machine_changed compares with the copy read at the start of the request. *)
PierdeElPunto == enCurso.nuevo # enCurso.leido

EscribirEditarMuestra ==
    /\ enCurso.op = "editar"
    /\ LET s == enCurso.muestra IN
       IF s \notin Recibidas THEN UNCHANGED <<equipo, asignaciones>>
       ELSE /\ equipo' = [equipo EXCEPT ![s] = enCurso.nuevo]
            /\ asignaciones' = IF PierdeElPunto THEN [asignaciones EXCEPT ![s] = Cerrada(s)]
                               ELSE asignaciones
    /\ UNCHANGED punto

EscribirRetirarPunto ==
    /\ enCurso.op = "retirar"
    /\ punto' = [punto EXCEPT ![enCurso.punto].activo = FALSE]
    /\ UNCHANGED <<equipo, asignaciones>>

Escribir ==
    /\ \/ EscribirOrganizar \/ EscribirFijarPunto \/ EscribirEditarMuestra \/ EscribirRetirarPunto
    /\ enCurso' = Nada
    /\ UNCHANGED trasladados /\ Terreno

-----------------------------------------------------------------------------
(* The tree is followed from an empty database, points and samples in one  *)
(* active company.                                                         *)
InitActivos ==
    /\ foco \in Focos
    /\ maquina = [m \in Maquinas |-> NINGUNO]
    /\ punto = [p \in Puntos |-> NINGUNO]
    /\ equipo = [s \in Muestras |-> AUSENTE]
    /\ asignaciones = [s \in Muestras |-> <<>>]
    /\ enCurso = Nada
    /\ trasladados = {}
    /\ \/ /\ foco = "arbol"
          /\ empresa = [e \in Companias |-> NINGUNO]
          /\ nodo = [n \in Nodos |-> NINGUNO]
       \/ /\ foco # "arbol"
          /\ LET e1 == CHOOSE e \in Companias : TRUE
                 n1 == CHOOSE n \in Nodos : TRUE
                 nombre1 == CHOOSE n \in Nombres : TRUE IN
             /\ empresa = [e \in Companias |-> IF e = e1 THEN [nombre |-> nombre1, activa |-> TRUE]
                                              ELSE NINGUNO]
             /\ nodo = [n \in Nodos |-> IF n = n1
                                        THEN [compania |-> e1, tipo |-> "root", padre |-> RAIZ,
                                              maquina |-> NINGUNO, nombre |-> nombre1]
                                        ELSE NINGUNO]

NextArbol ==
    \/ \E e \in Companias, nombre \in Nombres, activa \in BOOLEAN :
          CrearEmpresa(e, nombre, activa) \/ EditarEmpresa(e, nombre, activa)
    \/ \E n \in Nodos, c \in CarpetasPedidas : CrearCarpeta(n, c) \/ EditarCarpeta(n, c)
    \/ \E n \in Nodos : BorrarCarpeta(n)
    \/ \E m \in Maquinas, e \in Companias, activa \in BOOLEAN : EditarMaquina(m, e, activa)

NextMaquinas ==
    \/ \E m \in Maquinas, e \in Companias, c \in Nodos \cup {NINGUNO} : CrearMaquina(m, e, c)
    \/ \E m \in Maquinas : DesactivarMaquina(m) \/ ReactivarMaquina(m)

NextPuntos ==
    \/ \E p \in Puntos, m \in Maquinas : CrearPunto(p, m)
    \/ \E p \in Puntos, m \in Maquinas, activo \in BOOLEAN : EditarPunto(p, m, activo)
    \/ \E p \in Puntos : ReactivarPunto(p)
    \/ \E s \in Muestras, p \in Puntos : RecibirConPunto(s, p)
    \/ \E s \in Muestras, m \in Maquinas, e \in Companias, p \in Puntos \cup {NINGUNO} :
          RecibirConPlaca(s, m, e, p)
    \/ \E s \in Muestras : RecibirSinEquipo(s) \/ BorrarMuestra(s)

(* A request that has read runs to its end at once unless requests overlap. *)
NextActivos ==
    \/ Escribir
    \/ /\ enCurso = Nada \/ foco = "concurrente"
       /\ NextMaquinas
    \/ foco = "arbol" /\ NextArbol
    \/ /\ foco # "arbol"
       /\ enCurso = Nada \/ foco = "concurrente"
       /\ NextPuntos \/ Leer

SpecActivos == InitActivos /\ [][NextActivos]_varsActivos

-----------------------------------------------------------------------------
(* Every active company has exactly one root, labelled with its name,      *)
(* whatever the generic folder forms wrote while it was inactive           *)
(* (ensure_company_root, the refusals of FolderViewSet).                   *)
RaizFiel ==
    \A e \in Existentes(empresa) :
        empresa[e].activa =>
            /\ Cardinality(Raices(nodo, e)) = 1
            /\ \A n \in Raices(nodo, e) : nodo[n].nombre = empresa[e].nombre

(* At most one assignment of a sample is in force, overlapping requests    *)
(* included (organize, measurement_point, reception); and when requests do *)
(* not overlap its point is a point of the machine of the sample, unless a *)
(* PATCH moved the point itself: every change of machine retires it.       *)
PuntoFiel ==
    \A s \in Muestras :
        /\ Cardinality(Activas(s)) <= 1
        /\ LET p == PuntoVigente(s) IN
              foco = "secuencial" /\ p # NINGUNO
                  => p \in trasladados \/ punto[p].maquina = equipo[s]

(* The history of a sample is only added to, and no closed assignment is   *)
(* opened again, as long as the sample exists (AsignacionPuntoMuestreo:    *)
(* "retained as history; it is never deleted").                            *)
HistorialConservado ==
    [][\A s \in Recibidas :
          equipo'[s] # AUSENTE =>
              \A i \in DOMAIN asignaciones[s] :
                  /\ i \in DOMAIN asignaciones'[s]
                  /\ asignaciones'[s][i].punto = asignaciones[s][i].punto
                  /\ asignaciones'[s][i].activa => asignaciones[s][i].activa]_varsActivos
=============================================================================
