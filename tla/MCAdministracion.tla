-------------------------- MODULE MCAdministracion --------------------------
(***************************************************************************)
(* The administration of the platform: sessions, accounts, roles and plant.*)
(* The parts share no state, so a behaviour works on one of them and the   *)
(* states of the parts add up instead of multiplying.                      *)
(***************************************************************************)
EXTENDS Sesiones, Cuentas, Activos, Permisos, TLC

CONSTANTS
    Partes,     \* the parts a run looks at
    Persona     \* the one the part "cuentas" is about

VARIABLE parte    \* the part this behaviour works on

Simetria == Permutations(Peticiones)

(* What the editor of a role sends. *)
Matrices ==
    {{}, {"reportes.generar", "resultados.cargar"}, {"reportes.generar", "reportes.aprobar"},
     {"activos.ver", "dashboard.ver_empresa"}}

(* Three ways to write one address, and another one. *)
Direcciones == {"ana@x", "Ana@x", "ana@X", "eva@x"}
Normales    == [c \in Direcciones |-> IF c = "ana@X" THEN "ana@x" ELSE c]
Plegadas    == [c \in Direcciones |-> IF c = "eva@x" THEN "eva" ELSE "ana"]

(* What an account form and an invitation form are sent with. *)
Accesos2 == {[correo |-> c, activa |-> TRUE, acceso |-> "ACTIVE", ambito |-> "NONE"] :
                c \in {"ana@X", "eva@x"}}
            \cup {[correo |-> "ana@x", activa |-> FALSE, acceso |-> "DISABLED", ambito |-> "NONE"]}
Fichas ==
    {[correo |-> "eva@x", empresa |-> e, rol |-> "admin_empresa", vencida |-> FALSE,
      traslado |-> FALSE] : e \in Clientes}

(* What a folder form is sent with. *)
Formas == {c \in Carpeta :
              /\ c.tipo # "machine"
              /\ c.tipo = "folder" => c.nombre = NINGUNO
              /\ c.tipo = "root" => c.maquina = NINGUNO /\ c.nombre # NINGUNO}

InitAdministracion ==
    /\ InitSesiones /\ InitCuentas /\ InitActivos /\ InitPermisos
    /\ parte \in Partes
    /\ parte # "sesiones" => fila.activa
    /\ parte # "activos" => foco = "arbol"

(* Bounds of the accounts: one person with one address and every endpoint, *)
(* or two people, several addresses, and what Global Oil does with them.   *)
UnaPersona ==
    /\ registradas' \subseteq {Persona} /\ \A u \in registradas' : cuenta'[u].correo = "ana@x"
    /\ \A i \in DOMAIN invitaciones' :
          invitaciones'[i].visto = i - 1 /\ ~invitaciones'[i].editada
VariasDirecciones ==
    /\ \/ /\ autor' = Global
          /\ \/ PasoSobreInvitacion(Global) \/ PasoSobreEnviadas(Global)
             \/ \E u \in Usuarios, pedido \in AccesosPedidos : EditarCuenta(Global, u, pedido)
       \/ \E i \in DOMAIN invitaciones : autor' = Nadie /\ (Vencer(i) \/ Aceptar(i))
    /\ \A i \in DOMAIN invitaciones' : invitaciones'[i].rol = "admin_empresa"

NextAdministracion ==
    /\ parte' = parte
    /\ \/ /\ parte = "sesiones" /\ NextSesiones
          /\ UNCHANGED <<varsCuentas, varsActivos, varsPermisos>>
       \/ /\ \/ parte = "cuentas" /\ NextCuentas /\ UnaPersona
             \/ parte = "correos" /\ VariasDirecciones
          /\ UNCHANGED <<varsSesiones, varsActivos, varsPermisos>>
       \/ /\ parte = "activos" /\ NextActivos
          /\ UNCHANGED <<varsSesiones, varsCuentas, varsPermisos>>
       \/ /\ parte = "permisos" /\ NextPermisos
          /\ UNCHANGED <<varsSesiones, varsCuentas, varsActivos>>

varsAdministracion == <<varsSesiones, varsCuentas, varsActivos, varsPermisos, parte>>

SpecAdministracion == InitAdministracion /\ [][NextAdministracion]_varsAdministracion

(* Every table holds rows of its form. *)
TiposAdministracion == TiposSesiones /\ TiposCuentas /\ TiposActivos /\ TiposPermisos
=============================================================================
