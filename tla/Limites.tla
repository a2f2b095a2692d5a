------------------------------- MODULE Limites ------------------------------
(***************************************************************************)
(* The versions of the limits of a test and the assignments that choose    *)
(* one: the endpoints of PruebaFuenteLimite                                *)
(* (misc/api/views/dynamicTechnicalConfig/index.py), the checks of the     *)
(* assignment serializers, and the choice of the version a value is judged *)
(* with (limit_engine.py, limit_contract_reconciliation.py).               *)
(*                                                                         *)
(* configure and activate are transactions that read, then write and       *)
(* commit: two steps, between which other requests commit theirs.          *)
(***************************************************************************)
EXTENDS Naturals, Sequences, FiniteSets

CONSTANTS Pruebas,      \* tests
          Claves,       \* values of the Idempotency-Key header
          Editores,     \* requests that configure or activate at a time
          VACIO,         \* no key, no version, no criterion, no request
          MaxVersiones  \* bound: rows of PruebaFuenteLimite

ASSUME VacioNoEsDato == VACIO \notin Claves \cup Pruebas \cup Nat
ASSUME CotaDeVersiones == MaxVersiones \in Nat

VARIABLES fuentes,     \* the rows of PruebaFuenteLimite, by their id
          peticiones,  \* what each editor has read and not yet written
          respuestas,  \* key -> the versions requests with it were answered with
          asignacion   \* one PruebaMuestra

varsLimites == <<fuentes, peticiones, respuestas, asignacion>>

Versiones == 1..MaxVersiones

Fuente == [prueba : Pruebas, version : Versiones, clave : Claves \cup {VACIO},
           tipo : {"catalogo", "global"}, activo : BOOLEAN, publicada : BOOLEAN, borrada : BOOLEAN]

(* A version by catalogue has one criterion, known by the id of the version. *)
Asignacion == [prueba : Pruebas, aplica : BOOLEAN, fuente : Versiones \cup {VACIO},
               criterio : Versiones \cup {VACIO}, item : BOOLEAN]

Peticion == [op : {"configurar", "activar"}, prueba : Pruebas, clave : Claves \cup {VACIO},
             fila : Versiones \cup {VACIO}, ultima : Versiones \cup {0}, vistas : SUBSET Versiones]

Ids == DOMAIN fuentes
DePrueba(p) == {v \in Ids : fuentes[v].prueba = p}
Activas(p) == {v \in DePrueba(p) : fuentes[v].activo /\ ~fuentes[v].borrada}

(* order_by("-version", "-id").first() *)
Vigente(p) ==
    IF Activas(p) = {} THEN VACIO
    ELSE CHOOSE v \in Activas(p) :
             \A w \in Activas(p) : \/ fuentes[w].version < fuentes[v].version
                                   \/ fuentes[w].version = fuentes[v].version /\ w <= v

Ultima(p) ==
    IF DePrueba(p) = {} THEN 0
    ELSE CHOOSE n \in {fuentes[v].version : v \in DePrueba(p)} :
             \A v \in DePrueba(p) : fuentes[v].version <= n

ConClave(k) == IF k = VACIO THEN {} ELSE {v \in Ids : fuentes[v].clave = k}

-----------------------------------------------------------------------------
(* configure and activate *)

Abierta(e) == peticiones[e] # VACIO

Abrir(e, peticion) == peticiones' = [peticiones EXCEPT ![e] = peticion]

Responder(k, v) ==
    respuestas' = IF k = VACIO THEN respuestas ELSE [respuestas EXCEPT ![k] = @ \cup {v}]

Cerrar(e) == peticiones' = [peticiones EXCEPT ![e] = VACIO]

(* A key seen before is answered with the row it created. *)
Repetir(p, k) ==
    /\ \E v \in ConClave(k) : fuentes[v].prueba = p /\ Responder(k, v)
    /\ UNCHANGED <<fuentes, peticiones, asignacion>>

LeerConfigurar(e, p, k) ==
    /\ ~Abierta(e)
    /\ ConClave(k) = {}
    /\ Abrir(e, [op |-> "configurar", prueba |-> p, clave |-> k, fila |-> VACIO,
                 ultima |-> Ultima(p), vistas |-> DePrueba(p)])
    /\ UNCHANGED <<fuentes, respuestas, asignacion>>

LeerActivar(e, v) ==
    /\ ~Abierta(e)
    /\ v \in Ids
    /\ Abrir(e, [op |-> "activar", prueba |-> fuentes[v].prueba, clave |-> VACIO, fila |-> v,
                 ultima |-> 0, vistas |-> DePrueba(fuentes[v].prueba)])
    /\ UNCHANGED <<fuentes, respuestas, asignacion>>

ClaveSinIndice(k) == FALSE

(* The unique index on idempotency_key, seen when the row is inserted. *)
ClaveTomada(k) == ConClave(k) # {}

(* UPDATE ... SET activo = false of the rows the statement sees: those     *)
(* committed before it, some of which committed after the request's reads. *)
ConUnaActiva(filas, otras, v) ==
    [w \in DOMAIN filas |-> IF w \in otras \ {v} THEN [filas[w] EXCEPT !.activo = FALSE] ELSE filas[w]]

Alcanzadas(e) == {peticiones[e].vistas, DePrueba(peticiones[e].prueba)}

Publicar(e, filas, v) == \E otras \in Alcanzadas(e) : fuentes' = ConUnaActiva(filas, otras, v)

EscribirConfigurar(e, tipo, publicar) ==
    /\ Abierta(e) /\ peticiones[e].op = "configurar"
    /\ LET r == peticiones[e]
       IN IF ClaveTomada(r.clave)
          THEN /\ \E v \in ConClave(r.clave) : Responder(r.clave, v)
               /\ UNCHANGED fuentes
          ELSE /\ Len(fuentes) < MaxVersiones
               /\ Responder(r.clave, Len(fuentes) + 1)
               /\ Publicar(e, Append(fuentes, [prueba |-> r.prueba, version |-> r.ultima + 1,
                                               clave |-> r.clave, tipo |-> tipo, activo |-> TRUE,
                                               publicada |-> publicar, borrada |-> FALSE]),
                           Len(fuentes) + 1)
    /\ Cerrar(e)
    /\ UNCHANGED asignacion

EscribirActivar(e) ==
    /\ Abierta(e) /\ peticiones[e].op = "activar"
    /\ LET v == peticiones[e].fila
       IN Publicar(e, [fuentes EXCEPT ![v] = [fuentes[v] EXCEPT !.activo = TRUE, !.publicada = TRUE,
                                                               !.borrada = FALSE]], v)
    /\ Cerrar(e)
    /\ UNCHANGED <<respuestas, asignacion>>

-----------------------------------------------------------------------------
(* The other endpoints of a version.  The generic ones know nothing of the *)
(* rest of the versions of the test.                                       *)

Cambiar(v, fila) ==
    /\ fuentes' = [fuentes EXCEPT ![v] = fila]
    /\ UNCHANGED <<peticiones, respuestas, asignacion>>

Desactivar(v) ==
    /\ v \in Ids /\ ~fuentes[v].activo
    /\ Cambiar(v, [fuentes[v] EXCEPT !.publicada = FALSE])

Destruir(v) ==
    /\ v \in Ids /\ ~fuentes[v].borrada
    /\ Cambiar(v, [fuentes[v] EXCEPT !.activo = FALSE, !.borrada = TRUE])

Restaurar(v) ==
    /\ v \in Ids
    /\ Cambiar(v, [fuentes[v] EXCEPT !.activo = TRUE, !.borrada = FALSE])

(* PATCH writes what the form sends. *)
Editar(v, tipo, activo, publicada) ==
    /\ v \in Ids /\ ~fuentes[v].borrada
    /\ Cambiar(v, [fuentes[v] EXCEPT !.tipo = tipo, !.activo = activo, !.publicada = publicada])

(* POST revives the first row of that test and kind, or adds one with the  *)
(* default version number.                                                 *)
Crear(p, tipo) ==
    LET iguales == {v \in DePrueba(p) : fuentes[v].tipo = tipo}
    IN /\ IF iguales # {}
          THEN LET v == CHOOSE w \in iguales : \A o \in iguales : w <= o
               IN fuentes' = [fuentes EXCEPT ![v] = [fuentes[v] EXCEPT !.activo = TRUE, !.borrada = FALSE]]
          ELSE /\ Len(fuentes) < MaxVersiones
               /\ fuentes' = Append(fuentes, [prueba |-> p, version |-> 1, clave |-> VACIO,
                                              tipo |-> tipo, activo |-> TRUE, publicada |-> FALSE,
                                              borrada |-> FALSE])
       /\ UNCHANGED <<peticiones, respuestas, asignacion>>

(* reconcile_limit_versions --apply *)
Reconciliar(p) ==
    /\ \A v \in Activas(p) : ~fuentes[v].publicada
    /\ Vigente(p) # VACIO
    /\ Cambiar(Vigente(p), [fuentes[Vigente(p)] EXCEPT !.publicada = TRUE])

-----------------------------------------------------------------------------
(* The assignment *)

Asignar(a) ==
    /\ asignacion' = a
    /\ UNCHANGED <<fuentes, peticiones, respuestas>>

PorCatalogo(v) == v # VACIO /\ fuentes[v].tipo = "catalogo"

(* A criterion the client names must be of the version, when there is one, *)
(* and of the test.                                                        *)
CriterioValido(c, p, v) == c # VACIO => fuentes[c].prueba = p /\ (v # VACIO => c = v)

SinCriterio(a) == [a EXCEPT !.aplica = FALSE, !.fuente = VACIO, !.criterio = VACIO]

(* The batch form: only a published version may be chosen; without one the *)
(* current version is pinned.                                              *)
AsignarPorLote(v, c) ==
    LET p == asignacion.prueba
        fuente == IF v = VACIO THEN Vigente(p) ELSE v
        criterio == IF PorCatalogo(fuente) THEN c ELSE VACIO
    IN /\ v # VACIO => v \in DePrueba(p) /\ fuentes[v].publicada
       /\ CriterioValido(criterio, p, fuente)
       /\ Asignar([asignacion EXCEPT !.aplica = TRUE, !.fuente = fuente, !.criterio = criterio])

(* PATCH of one assignment: what the form leaves out, or sends as null, is *)
(* checked with the value stored; a null version is stored all the same.   *)
EditarAsignacion(v, nula, c, automatico) ==
    LET p == asignacion.prueba
        dada == IF v # VACIO THEN v ELSE asignacion.fuente
        fuente == IF dada = VACIO THEN Vigente(p) ELSE dada
        guardada == IF nula /\ dada # VACIO THEN VACIO ELSE fuente
        criterio == IF ~PorCatalogo(fuente) THEN VACIO
                    ELSE IF c # VACIO THEN c
                    ELSE IF asignacion.criterio # VACIO THEN asignacion.criterio
                    ELSE IF automatico THEN fuente ELSE VACIO
    IN /\ v # VACIO => v \in Ids /\ ~nula
       /\ dada # VACIO => fuentes[dada].prueba = p
       /\ CriterioValido(criterio, p, fuente)
       /\ Asignar([asignacion EXCEPT !.aplica = TRUE, !.fuente = guardada, !.criterio = criterio])

QuitarLimites == Asignar(SinCriterio(asignacion))

(* reconcile_test_assignments, after the catalogue of a test changes *)
ReconciliarAsignacion ==
    LET activas == Activas(asignacion.prueba)
    IN /\ asignacion.criterio # VACIO
       /\ asignacion.criterio \in activas => \A v \in activas : ~PorCatalogo(v)
       /\ Asignar([asignacion EXCEPT !.criterio = VACIO])

(* What a value of the assignment is judged with.  The fields are looked   *)
(* up in the active versions (_matching_limit_fields); only when none of   *)
(* them applies is the pinned one asked (_resolve_limit).                  *)
Aplica(v, a) == fuentes[v].tipo = "global" \/ a.item \/ a.criterio = v

Juzgan(a) ==
    LET campos == {v \in Activas(a.prueba) : Aplica(v, a)}
    IN IF ~a.aplica THEN {}
       ELSE IF campos # {} THEN campos
       ELSE IF a.fuente # VACIO THEN {a.fuente} ELSE Activas(a.prueba)

-----------------------------------------------------------------------------
InitLimites ==
    /\ fuentes = <<>>
    /\ peticiones = [e \in Editores |-> VACIO]
    /\ respuestas = [k \in Claves |-> {}]
    /\ asignacion \in [prueba : Pruebas, aplica : {TRUE}, fuente : {VACIO}, criterio : {VACIO}, item : BOOLEAN]

NextConfigurar ==
    \/ \E e \in Editores, p \in Pruebas, k \in Claves \cup {VACIO} : LeerConfigurar(e, p, k)
    \/ \E e \in Editores, tipo \in {"catalogo", "global"}, publicar \in BOOLEAN :
           EscribirConfigurar(e, tipo, publicar)

NextVersiones ==
    \/ NextConfigurar
    \/ \E p \in Pruebas, k \in Claves : Repetir(p, k)
    \/ \E e \in Editores, v \in Versiones : LeerActivar(e, v)
    \/ \E e \in Editores : EscribirActivar(e)
    \/ \E v \in Versiones : Desactivar(v) \/ Destruir(v) \/ Restaurar(v)
    \/ \E v \in Versiones, activo \in BOOLEAN :
           v \in Ids /\ Editar(v, fuentes[v].tipo, activo, fuentes[v].publicada)
    \/ \E p \in Pruebas, tipo \in {"catalogo", "global"} : Crear(p, tipo)
    \/ \E p \in Pruebas : Reconciliar(p)

(* Here the versions come from one request at a time: two of the test of   *)
(* the assignment and one of every other test.                             *)
NextAsignacion ==
    \/ /\ \A e \in Editores : ~Abierta(e)
       /\ \E p \in Pruebas :
              /\ Cardinality(DePrueba(p)) < (IF p = asignacion.prueba THEN 2 ELSE 1)
              /\ \E e \in Editores : LeerConfigurar(e, p, VACIO)
    \/ \E e \in Editores, tipo \in {"catalogo", "global"}, publicar \in BOOLEAN :
           EscribirConfigurar(e, tipo, publicar)
    \/ \E v \in DePrueba(asignacion.prueba) :
           \/ Destruir(v) \/ Restaurar(v)
           \/ Editar(v, "global", fuentes[v].activo, fuentes[v].publicada)
    \/ \E v, c \in Ids \cup {VACIO} : AsignarPorLote(v, c)
    \/ \E v, c \in Ids \cup {VACIO}, nula, automatico \in BOOLEAN : EditarAsignacion(v, nula, c, automatico)
    \/ QuitarLimites
    \/ ReconciliarAsignacion

SpecLimites == InitLimites /\ [][NextVersiones \/ NextAsignacion]_varsLimites

-----------------------------------------------------------------------------
TiposLimites ==
    /\ fuentes \in Seq(Fuente) /\ Len(fuentes) <= MaxVersiones
    /\ peticiones \in [Editores -> Peticion \cup {VACIO}]
    /\ respuestas \in [Claves -> SUBSET Versiones]
    /\ asignacion \in Asignacion

(* However often a save is repeated with its key, and whatever overlaps    *)
(* it, all the answers name one version (index.py:942-957 and :1005-1018). *)
RespuestaUnica == \A k \in Claves : Cardinality(respuestas[k]) <= 1

(* What limit_engine.py:270 says: "Assignments are contracts: evaluate     *)
(* against their chosen version even after a newer configuration becomes   *)
(* the active one."                                                        *)
ContratoRespetado ==
    asignacion.fuente # VACIO => Juzgan(asignacion) \subseteq {asignacion.fuente}

=============================================================================
