CONSTANTS
    Peticiones = {r1, r2}
    Escrituras = 1
    MaxEpoca = 3
    MaxClave = 2
    LOGIN_MAX_ATTEMPTS = 1
    Usuarios = {u1, u2}
    Partes = {"sesiones", "cuentas", "correos", "activos", "permisos"}
    Persona = u1
    Clientes = {c1}
    Internas = {go}
    Roles = {"admin_empresa", "laboratorista"}
    MaxInvitaciones = 2
    EstadosPedidos = {"ACTIVE"}
    AccesosPedidos <- Accesos2
    Correos <- Direcciones
    Normalizado <- Normales
    Plegado <- Plegadas
    FichasPedidas <- Fichas
    Companias = {e1}
    Nombres = {x1, x2}
    Nodos = {1, 2, 3}
    Maquinas = {1, 2}
    Puntos = {1, 2}
    Muestras = {s1}
    NINGUNO = NINGUNO
    AUSENTE = AUSENTE
    CarpetasPedidas <- Formas
    MaxAsignaciones = 2
    Consolas = {r1, r2}
    MatricesPedidas <- Matrices
    MaxPedidos = 2
    LIBRE = LIBRE
SPECIFICATION SpecAdministracion
SYMMETRY Simetria
CHECK_DEADLOCK FALSE
INVARIANTS
    TiposAdministracion
    SesionDeClaveVigente
    InvitacionSustituida
    RaizFiel
    PuntoFiel
    MatrizAcotada
    SeparacionDeFunciones
PROPERTIES
    SoloEnSuEmpresa
    HistorialConservado
