------------------------------ MODULE Sesiones ------------------------------
(***************************************************************************)
(* The browser sessions of one account: login with its throttle            *)
(* (users/api/session_security.py, LoginAV), the middleware that refuses   *)
(* revoked sessions, and every endpoint that writes the row of the         *)
(* account.  Requests run at the same time: each one reads the row into    *)
(* its own copy and writes later, either some columns (save with           *)
(* update_fields) or all of them (save, which also writes the columns it   *)
(* only read).                                                             *)
(***************************************************************************)
EXTENDS Naturals, FiniteSets

CONSTANTS
    Peticiones,          \* requests that may be in progress
    Escrituras,          \* how many of them may be writing the row at a time
    MaxEpoca,            \* bound: the last value of session_epoch
    MaxClave,            \* bound: passwords the account may have had
    LOGIN_MAX_ATTEMPTS

ASSUME SesionesAssumption ==
    /\ IsFiniteSet(Peticiones)
    /\ Escrituras \in Nat /\ MaxEpoca \in Nat /\ MaxClave \in Nat
    /\ LOGIN_MAX_ATTEMPTS \in Nat \ {0}

VARIABLES
    fila,         \* the User row: is_active, access_status, session_epoch, password
    sesiones,     \* sessions in Redis: security_epoch and the password they were opened with
    peticion,      \* what each request is doing, with its copy of the row
    intentos,     \* failed logins counted in the cache, per key
    ultimaClave,  \* history: the newest password there has been
    restablecida  \* history: the password of the last reset that ended

varsSesiones == <<fila, sesiones, peticion, intentos, ultimaClave, restablecida>>

Accesos == {"PENDING_INVITATION", "ACTIVE", "READ_ONLY", "BLOCKED", "DISABLED"}
Filas   == [activa : BOOLEAN, acceso : Accesos, epoca : Nat, clave : Nat]
Claves  == {"ip", "correo"}

\* Endpoints that save only the columns of the access.
PorColumnas == {"bloquear", "desactivar", "retirar", "desbloquear", "solo_lectura",
                "restaurar_escritura"}
\* Endpoints that save the whole row they read.
FilaEntera  == {"editar", "restablecer", "aceptar"}
\* Those that end in revoke_user_sessions.
Revocan     == {"bloquear", "desactivar", "restablecer"}

Pasos == {"libre", "comprobado", "fallido", "autenticado", "guardar", "revocar"}

TiposSesiones ==
    /\ fila \in Filas
    /\ sesiones \subseteq [epoca : Nat, clave : Nat]
    /\ peticion \in [Peticiones -> [paso : Pasos, tipo : PorColumnas \cup FilaEntera \cup {"login"},
                                   copia : Filas]]
    /\ intentos \in [Claves -> Nat]
    /\ ultimaClave \in Nat /\ restablecida \in Nat

Libre == [paso |-> "libre", tipo |-> "login",
          copia |-> [activa |-> FALSE, acceso |-> "PENDING_INVITATION", epoca |-> 0, clave |-> 0]]

(* An account whose invitation was accepted, or one still invited. *)
InitSesiones ==
    /\ fila \in {[activa |-> TRUE, acceso |-> "ACTIVE", epoca |-> 1, clave |-> 1],
                 [activa |-> FALSE, acceso |-> "PENDING_INVITATION", epoca |-> 1, clave |-> 1]}
    /\ sesiones = {}
    /\ peticion = [p \in Peticiones |-> Libre]
    /\ intentos = [k \in Claves |-> 0]
    /\ ultimaClave = 1
    /\ restablecida = 1

Paso(p, paso) == peticion' = [peticion EXCEPT ![p].paso = paso]
Terminar(p)   == peticion' = [peticion EXCEPT ![p] = Libre]

Cerrado(f) == ~f.activa \/ f.acceso \in {"BLOCKED", "DISABLED"}

-----------------------------------------------------------------------------
(* Login *)

Limitado == \E k \in Claves : intentos[k] >= LOGIN_MAX_ATTEMPTS

LoginComprobar(p) ==
    /\ peticion[p].paso = "libre"
    /\ ~Limitado
    /\ Paso(p, "comprobado")
    /\ UNCHANGED <<fila, sesiones, intentos, ultimaClave, restablecida>>

(* authenticate reads the row; the password sent is right or wrong. *)
LoginAutenticar(p) ==
    /\ peticion[p].paso = "comprobado"
    /\ \/ Paso(p, "fallido")
       \/ /\ ~Cerrado(fila)
          /\ peticion' = [peticion EXCEPT ![p] = [paso |-> "autenticado", tipo |-> "login", copia |-> fila]]
    /\ UNCHANGED <<fila, sesiones, intentos, ultimaClave, restablecida>>

RegistrarFallo == intentos' = [k \in Claves |-> intentos[k] + 1]

LoginFallar(p) ==
    /\ peticion[p].paso = "fallido"
    /\ RegistrarFallo
    /\ Terminar(p)
    /\ UNCHANGED <<fila, sesiones, ultimaClave, restablecida>>

(* Slip: the session takes the epoch of the row as it is now. *)
SesionAlEntrar(p) == [epoca |-> fila.epoca, clave |-> peticion[p].copia.clave]

(* The session keeps the epoch of the row as authenticate read it. *)
Sesion(p) == [epoca |-> peticion[p].copia.epoca, clave |-> peticion[p].copia.clave]

LoginEntrar(p) ==
    /\ peticion[p].paso = "autenticado"
    /\ sesiones' = sesiones \cup {Sesion(p)}
    /\ intentos' = [k \in Claves |-> 0]
    /\ Terminar(p)
    /\ UNCHANGED <<fila, ultimaClave, restablecida>>

(* LOGIN_LOCKOUT_SECONDS after the first failure the counter is gone. *)
VencerConteo(k) ==
    /\ intentos[k] > 0
    /\ intentos' = [intentos EXCEPT ![k] = 0]
    /\ UNCHANGED <<fila, sesiones, peticion, ultimaClave, restablecida>>

-----------------------------------------------------------------------------
(* Middleware *)

Aceptada(s) == s.epoca = fila.epoca /\ ~Cerrado(fila)

(* A request with a revoked session logs it out. *)
Rechazar(s) ==
    /\ ~Aceptada(s)
    /\ sesiones' = sesiones \ {s}
    /\ UNCHANGED <<fila, peticion, intentos, ultimaClave, restablecida>>

(* Logout, thirty minutes without use, eight hours, or Redis loses it. *)
Cerrar(s) ==
    /\ sesiones' = sesiones \ {s}
    /\ UNCHANGED <<fila, peticion, intentos, ultimaClave, restablecida>>

-----------------------------------------------------------------------------
(* Endpoints that write the row *)

Escribiendo == {p \in Peticiones : peticion[p].paso \in {"guardar", "revocar"}}

LeerFila(p, t) ==
    /\ peticion[p].paso = "libre"
    /\ Cardinality(Escribiendo) < Escrituras
    /\ t \in Revocan => fila.epoca < MaxEpoca              \* bound
    /\ t = "restablecer" => ultimaClave < MaxClave         \* bound
    /\ peticion' = [peticion EXCEPT ![p] = [paso |-> "guardar", tipo |-> t, copia |-> fila]]
    /\ UNCHANGED <<fila, sesiones, intentos, ultimaClave, restablecida>>

(* The columns each endpoint of UserSecurityViewSet saves; "retirar" is    *)
(* the removal of the profile of the user's own company.                   *)
ConAcceso(f, t) ==
    CASE t = "bloquear"     -> [f EXCEPT !.activa = FALSE, !.acceso = "BLOCKED"]
      [] t = "desactivar"   -> [f EXCEPT !.activa = FALSE, !.acceso = "DISABLED"]
      [] t = "retirar"      -> [f EXCEPT !.activa = FALSE, !.acceso = "DISABLED"]
      [] t = "desbloquear"  -> [f EXCEPT !.activa = TRUE, !.acceso = "ACTIVE"]
      [] t = "solo_lectura" -> [f EXCEPT !.activa = TRUE, !.acceso = "READ_ONLY"]
      [] t = "restaurar_escritura" -> [f EXCEPT !.acceso = "ACTIVE"]

Seguir(p) == IF peticion[p].tipo \in Revocan THEN Paso(p, "revocar") ELSE Terminar(p)

GuardarColumnas(p) ==
    /\ peticion[p].paso = "guardar" /\ peticion[p].tipo \in PorColumnas
    /\ fila' = ConAcceso(fila, peticion[p].tipo)
    /\ Seguir(p)
    /\ UNCHANGED <<sesiones, intentos, ultimaClave, restablecida>>

(* PATCH users/<pk>/ and users/me/: the columns of the access may change, *)
(* and all the others are written as they were read.                      *)
GuardarEdicion(p, activa, acceso) ==
    /\ peticion[p].paso = "guardar" /\ peticion[p].tipo = "editar"
    /\ fila' = [peticion[p].copia EXCEPT !.activa = activa, !.acceso = acceso]
    /\ Seguir(p)
    /\ UNCHANGED <<sesiones, intentos, ultimaClave, restablecida>>

GuardarClave(p) ==
    /\ peticion[p].paso = "guardar" /\ peticion[p].tipo = "restablecer"
    /\ fila' = [peticion[p].copia EXCEPT !.clave = ultimaClave + 1]
    /\ ultimaClave' = ultimaClave + 1
    /\ Seguir(p)
    /\ UNCHANGED <<sesiones, intentos, restablecida>>

(* accept_invitation: the password is set when the invitation requires it. *)
GuardarAceptacion(p) ==
    /\ peticion[p].paso = "guardar" /\ peticion[p].tipo = "aceptar"
    /\ \E clave \in {peticion[p].copia.clave, ultimaClave + 1} :
          /\ clave <= MaxClave
          /\ fila' = [peticion[p].copia EXCEPT !.activa = TRUE, !.acceso = "ACTIVE", !.clave = clave]
          /\ ultimaClave' = IF clave > ultimaClave THEN clave ELSE ultimaClave
    /\ Seguir(p)
    /\ UNCHANGED <<sesiones, intentos, restablecida>>

(* revoke_user_sessions adds one to the epoch of the copy. *)
EpocaRevocada(copia) == copia.epoca + 1

RevocarSesiones(p) ==
    /\ peticion[p].paso = "revocar"
    /\ fila' = [fila EXCEPT !.epoca = EpocaRevocada(peticion[p].copia)]
    /\ restablecida' = IF peticion[p].tipo = "restablecer" THEN fila.clave ELSE restablecida
    /\ Terminar(p)
    /\ UNCHANGED <<sesiones, intentos, ultimaClave>>

-----------------------------------------------------------------------------
NextSesiones ==
    \/ \E p \in Peticiones :
          \/ LoginComprobar(p) \/ LoginAutenticar(p) \/ LoginFallar(p) \/ LoginEntrar(p)
          \/ \E t \in PorColumnas \cup FilaEntera : LeerFila(p, t)
          \/ GuardarColumnas(p)
          \/ \E activa \in BOOLEAN, acceso \in Accesos : GuardarEdicion(p, activa, acceso)
          \/ GuardarClave(p)
          \/ GuardarAceptacion(p)
          \/ RevocarSesiones(p)
    \/ \E s \in sesiones : Rechazar(s) \/ Cerrar(s)
    \/ \E k \in Claves : VencerConteo(k)

SpecSesiones == InitSesiones /\ [][NextSesiones]_varsSesiones

-----------------------------------------------------------------------------
(* Once a password reset has ended, the middleware accepts no session that *)
(* was opened with an older password, also when the login read the row     *)
(* before the reset and wrote the session after it (establish_session,     *)
(* revoke_user_sessions).                                                  *)
SesionDeClaveVigente ==
    \A s \in sesiones : Aceptada(s) => s.clave >= restablecida

(* "Logout, cambio/restablecimiento de contrasena, bloqueo y               *)
(* desactivacion invalidan las sesiones mediante session_epoch": a session *)
(* that a revocation left behind is never accepted again.  Broken when a   *)
(* request that read the row before writes all of it afterwards.           *)
RevocadaNoVuelve ==
    [][\A s \in sesiones \cap sesiones' :
          s.epoca # fila.epoca => ~Aceptada(s)']_varsSesiones
=============================================================================
