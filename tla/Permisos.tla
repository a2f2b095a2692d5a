------------------------------ MODULE Permisos -----------------------------
(***************************************************************************)
(* The matrix of roles and permissions: the migrations that built it, the  *)
(* editor of the roles and the seed that resets it.  Neither the editor    *)
(* nor the seed endpoint runs in a transaction: both first take every      *)
(* permission away and then grant them row by row, and two consoles may do *)
(* so at once.  A code stands for the codes that travel with it.           *)
(***************************************************************************)
EXTENDS Naturals, Sequences, FiniteSets

CONSTANTS
    Consolas,           \* requests of Global Oil in progress at the same time
    MatricesPedidas,    \* the permission_codes an editor may send
    MaxPedidos,         \* bound: requests in a behaviour
    LIBRE

ASSUME ConsolasFinitas == IsFiniteSet(Consolas) /\ MaxPedidos \in Nat

VARIABLES
    matriz,     \* SecurityRolePermission rows with allowed, by role
    papel,      \* SecurityRole: "inexistente", "activo" or "inactivo"
    retirados,  \* SecurityPermission rows with active = FALSE
    migracion,  \* migrations applied
    consola,    \* what each console is doing
    piso, tope, \* history: the meet and the join of the matrices that the
                \*   requests now, or last, writing a role were sent with
    aMano,      \* history: roles whose matrix somebody edited
    pedidos     \* bound

varsPermisos == <<matriz, papel, retirados, migracion, consola, piso, tope, aMano, pedidos>>

-----------------------------------------------------------------------------
(* Codes and roles *)

PorDefecto == {"activos.ver", "usuarios.invitar", "resultados.cargar", "revision.ver_historico",
               "reportes.generar", "reportes.aprobar", "reportes.publicar_cliente",
               "trazabilidad.ver"}
Heredados  == {"dashboard.ver_empresa"}
Codigo     == PorDefecto \cup Heredados
Entregas   == {"reportes.aprobar", "reportes.publicar_cliente"}

OrdenDeSiembra == <<"admin_empresa", "solo_lectura", "laboratorista", "revisor_interpretador">>
Sembrados == {OrdenDeSiembra[i] : i \in DOMAIN OrdenDeSiembra}
Propios   == {"propio"}
Papeles   == Sembrados \cup Propios

Tabla(empresa, lectura, laboratorio, revisor) ==
    [r \in Papeles |-> CASE r = "admin_empresa" -> empresa
                         [] r = "solo_lectura" -> lectura
                         [] r = "laboratorista" -> laboratorio
                         [] r = "revisor_interpretador" -> revisor
                         [] OTHER -> {}]

(* The migrations, in their order: the roles they reset, what they grant   *)
(* and the codes they retire.  0003 grants by prefix, so "revision.ver"    *)
(* brings revision.ver_historico along.                                    *)
SeedSecurity ==
    [borra |-> {}, retira |-> {},
     concede |-> Tabla({"activos.ver", "usuarios.invitar", "resultados.cargar", "reportes.generar",
                        "revision.ver_historico", "reportes.publicar_cliente",
                        "dashboard.ver_empresa"},
                       {"activos.ver", "dashboard.ver_empresa"},
                       {"resultados.cargar", "revision.ver_historico"},
                       {"revision.ver_historico", "reportes.generar", "reportes.publicar_cliente",
                        "dashboard.ver_empresa"})]

RestringirEmpresas ==
    [borra |-> {"admin_empresa", "solo_lectura"}, retira |-> {},
     concede |-> Tabla({"activos.ver", "usuarios.invitar", "dashboard.ver_empresa"},
                       {"activos.ver", "dashboard.ver_empresa"}, {}, {})]

AccionesDeReportes ==
    [borra |-> {}, retira |-> {},
     concede |-> Tabla({"trazabilidad.ver"}, {}, {}, {"reportes.aprobar"})]

SoloPanelGlobal ==
    [borra |-> {}, retira |-> Heredados, concede |-> Tabla({}, {}, {}, {})]

(* Slip: the reports of the laboratory granted by prefix. *)
InformesPorPrefijo ==
    [borra |-> {}, retira |-> {},
     concede |-> Tabla({}, {}, {"reportes.generar", "reportes.aprobar"}, {})]

InformesDelLaboratorio ==
    [borra |-> {}, retira |-> {}, concede |-> Tabla({}, {}, {"reportes.generar"}, {})]

Migraciones == <<SeedSecurity, RestringirEmpresas, AccionesDeReportes, SoloPanelGlobal,
                 InformesDelLaboratorio>>

(* What the seed of today grants. *)
GrantsDeLaSiembra ==
    Tabla({"activos.ver", "usuarios.invitar", "trazabilidad.ver"},
          {"activos.ver", "trazabilidad.ver"},
          {"resultados.cargar", "reportes.generar"},
          {"revision.ver_historico", "reportes.generar", "reportes.aprobar",
           "reportes.publicar_cliente"})

(* A permission counts while it is active; the role of the profile may be  *)
(* inactive.                                                               *)
Efectiva(r) == matriz[r] \ retirados

Escritura == [rol : Papeles, faltan : SUBSET Codigo, quedan : Seq(Sembrados)]

ASSUME MatricesDeCodigos == MatricesPedidas \subseteq SUBSET Codigo
ASSUME LibreAparte == LIBRE \notin Escritura

-----------------------------------------------------------------------------
(* Migrations: with the server stopped *)

Migrar ==
    /\ migracion < Len(Migraciones)
    /\ migracion' = migracion + 1
    /\ LET m == Migraciones[migracion + 1] IN
          /\ matriz' = [r \in Papeles |-> IF r \in m.borra THEN m.concede[r]
                                          ELSE matriz[r] \cup m.concede[r]]
          /\ retirados' = retirados \cup m.retira
          /\ piso' = matriz' /\ tope' = matriz'
    /\ papel' = [r \in Papeles |-> IF r \in Sembrados THEN "activo" ELSE papel[r]]
    /\ UNCHANGED <<consola, aMano, pedidos>>

EnServicio == migracion = Len(Migraciones)

-----------------------------------------------------------------------------
(* Writing the matrix of a role *)

EscribenRol(r) == {e \in Consolas : consola[e] # LIBRE /\ r = consola[e].rol}

Pedir == EnServicio /\ pedidos < MaxPedidos /\ pedidos' = pedidos + 1

(* What the requests writing r at once leave is between the matrices they  *)
(* were sent with.                                                         *)
Acotar(e, r, codigos) ==
    IF EscribenRol(r) \ {e} = {}
    THEN piso' = [piso EXCEPT ![r] = codigos] /\ tope' = [tope EXCEPT ![r] = codigos]
    ELSE /\ piso' = [piso EXCEPT ![r] = @ \cap codigos]
         /\ tope' = [tope EXCEPT ![r] = @ \cup codigos]

(* Slip: what the role no longer has is left to the next edit. *)
SinRetirar(r, codigos) == [matriz EXCEPT ![r] = @]

(* update(allowed=False) of every row of the role but the ones sent.       *)
Retirar(r, codigos) == [matriz EXCEPT ![r] = @ \cap codigos]

(* The editor: a code that is not there, or retired, is refused; a new     *)
(* role is saved before its matrix.                                        *)
EditarMatriz(e, r, codigos) ==
    /\ Pedir /\ consola[e] = LIBRE
    /\ codigos \cap retirados = {}
    /\ papel[r] # "inexistente" \/ r \in Propios
    /\ papel' = [papel EXCEPT ![r] = IF @ = "inexistente" THEN "activo" ELSE @]
    /\ matriz' = Retirar(r, codigos)
    /\ Acotar(e, r, codigos)
    /\ aMano' = aMano \cup {r}
    /\ consola' = [consola EXCEPT ![e] = [rol |-> r, faltan |-> codigos, quedan |-> <<>>]]
    /\ UNCHANGED <<retirados, migracion>>

(* The seed goes role by role; a permission is granted by itself. *)
EmpezarRol(e, roles) ==
    LET r == Head(roles) IN
    /\ matriz' = [matriz EXCEPT ![r] = {}]
    /\ Acotar(e, r, GrantsDeLaSiembra[r])
    /\ consola' = [consola EXCEPT ![e] = [rol |-> r, faltan |-> GrantsDeLaSiembra[r],
                                         quedan |-> Tail(roles)]]

Restaurados == /\ papel' = [r \in Papeles |-> IF r \in Sembrados THEN "activo" ELSE papel[r]]
               /\ retirados' = retirados \ PorDefecto

(* seed-defaults: permissions and roles first, their matrices after. *)
Sembrar(e) ==
    /\ Pedir /\ consola[e] = LIBRE
    /\ Restaurados
    /\ EmpezarRol(e, OrdenDeSiembra)
    /\ UNCHANGED <<migracion, aMano>>

Conceder(e) ==
    /\ consola[e] # LIBRE
    /\ \E c \in consola[e].faltan :
          /\ matriz' = [matriz EXCEPT ![consola[e].rol] = @ \cup {c}]
          /\ consola' = [consola EXCEPT ![e].faltan = @ \ {c}]
    /\ UNCHANGED <<papel, retirados, migracion, piso, tope, aMano, pedidos>>

SiguienteRol(e) ==
    /\ consola[e] # LIBRE /\ consola[e].faltan = {}
    /\ IF consola[e].quedan = <<>>
       THEN consola' = [consola EXCEPT ![e] = LIBRE] /\ UNCHANGED <<matriz, piso, tope>>
       ELSE EmpezarRol(e, consola[e].quedan)
    /\ UNCHANGED <<papel, retirados, migracion, aMano, pedidos>>

(* The worker dies: what was written stays, the rest is not granted.       *)
Caer(e) ==
    /\ consola[e] # LIBRE
    /\ consola' = [consola EXCEPT ![e] = LIBRE]
    /\ piso' = [piso EXCEPT ![consola[e].rol] = {}]
    /\ UNCHANGED <<matriz, papel, retirados, migracion, tope, aMano, pedidos>>

(* A form without a matrix, or with one that is refused after the save. *)
CrearPapel(r) ==
    /\ Pedir /\ r \in Propios /\ papel[r] = "inexistente"
    /\ papel' = [papel EXCEPT ![r] = "activo"]
    /\ UNCHANGED <<matriz, retirados, migracion, consola, piso, tope, aMano>>

(* The seed of the management commands is one transaction. *)
SembrarPorComando ==
    LET Ahora(r, antes, unido) ==
            IF r \notin Sembrados THEN antes
            ELSE IF EscribenRol(r) = {} THEN GrantsDeLaSiembra[r] ELSE unido
    IN
    /\ Pedir
    /\ matriz' = [r \in Papeles |-> IF r \in Sembrados THEN GrantsDeLaSiembra[r] ELSE matriz[r]]
    /\ piso' = [r \in Papeles |-> Ahora(r, piso[r], piso[r] \cap GrantsDeLaSiembra[r])]
    /\ tope' = [r \in Papeles |-> Ahora(r, tope[r], tope[r] \cup GrantsDeLaSiembra[r])]
    /\ Restaurados
    /\ UNCHANGED <<migracion, consola, aMano>>

DesactivarRol(r) ==
    /\ Pedir /\ papel[r] = "activo"
    /\ papel' = [papel EXCEPT ![r] = "inactivo"]
    /\ UNCHANGED <<matriz, retirados, migracion, consola, piso, tope, aMano>>

ReactivarRol(r) ==
    /\ Pedir /\ papel[r] = "inactivo"
    /\ papel' = [papel EXCEPT ![r] = "activo"]
    /\ UNCHANGED <<matriz, retirados, migracion, consola, piso, tope, aMano>>

-----------------------------------------------------------------------------
InitPermisos ==
    /\ matriz = [r \in Papeles |-> {}] /\ piso = matriz /\ tope = matriz
    /\ papel = [r \in Papeles |-> "inexistente"]
    /\ retirados = {} /\ migracion = 0
    /\ consola = [e \in Consolas |-> LIBRE]
    /\ aMano = {} /\ pedidos = 0

NextPermisos ==
    \/ Migrar \/ SembrarPorComando
    \/ \E e \in Consolas : Sembrar(e) \/ Conceder(e) \/ SiguienteRol(e) \/ Caer(e)
    \/ \E e \in Consolas, r \in Papeles, codigos \in MatricesPedidas : EditarMatriz(e, r, codigos)
    \/ \E r \in Papeles : CrearPapel(r) \/ DesactivarRol(r) \/ ReactivarRol(r)

SpecPermisos == InitPermisos /\ [][NextPermisos]_varsPermisos

-----------------------------------------------------------------------------
TiposPermisos ==
    /\ matriz \in [Papeles -> SUBSET Codigo]
    /\ piso \in [Papeles -> SUBSET Codigo] /\ tope \in [Papeles -> SUBSET Codigo]
    /\ papel \in [Papeles -> {"inexistente", "activo", "inactivo"}]
    /\ retirados \subseteq Codigo
    /\ migracion \in 0..Len(Migraciones) /\ pedidos \in 0..MaxPedidos
    /\ consola \in [Consolas -> {LIBRE} \cup Escritura]
    /\ aMano \subseteq Papeles

(* However many consoles write the matrix of a role at once, and also when *)
(* one of them dies half-way, the role never has a permission that none of *)
(* them granted; when they have all ended it has what all of them granted  *)
(* (_sync_permissions and sync_default_roles_and_permissions take away     *)
(* before they grant).                                                     *)
MatrizAcotada ==
    \A r \in Papeles :
        /\ matriz[r] \subseteq tope[r]
        /\ EscribenRol(r) = {} => piso[r] \subseteq matriz[r]

(* "No recibe por defecto aprobación, publicación, envío ni anulación"     *)
(* (RBAC_ACCESS_MODEL.md): through every migration and seed, finished or   *)
(* cut off, a laboratory role nobody edited by hand delivers no report.    *)
SeparacionDeFunciones ==
    "laboratorista" \notin aMano => Efectiva("laboratorista") \cap Entregas = {}
=============================================================================
