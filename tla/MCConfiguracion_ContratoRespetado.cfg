CONSTANTS
    Numeros <- TresNumeros
    Escala = {1, 2}
    Escalas <- TresEscalas
    Resultados = {g1, g2}
    NADA = NADA
    Pruebas = {p1, p2}
    Claves = {k1}
    Editores = {e1, e2}
    VACIO = VACIO
    MaxVersiones = 3
    MaxEnServicio = 2
    Codigos = {c1, c2}
    TODA = TODA
    Matrices = {m1}
    MaxEdiciones = 3
    Items = {i1}
    EscalasC = {s1, s2}
    Etiquetas = {t1, t2}
    MaxRenglones = 2
    MaxTramites = 2
    NINGUNA = NINGUNA
    MaxEdicionesC = 3
    MaxPendientes = 2
    MaxActividad = 4
    MaxOrden = 2
    Muestras = {1, 2}
    Textos = {x1}
    Sitios <- TresSitios
    MaxHistorial = 1
    MaxArchivos = 2
    MaxCambios = 5
    PruebasMuestra = {1, 2}
    Casillas = {1, 2}
    Escritos = {"numero", "opcion", "etiqueta", "vacia"}
    Clientes = {e1, e2}
    NULO = NULO
    MaxMovimientos = 4
    CamposTecnicos = {1, 2}
    Titulos = {1, 2}
    CatalogosDeCampos = {"A", "B"}
    Empresas = {"a", "b"}
    Placas = {"q1", "q2"}
    Nombres = {"p1", "p2"}
    Opciones = {1, 2, 3}
    FilasEscritas <- FilasDePlanilla
    PuntosIniciales <- PuntosDePlanta
    MaxCambiosDePlanilla = 2
    SinDato = SinDato
    DESCONOCIDO = DESCONOCIDO
    Lotes = {b1, b2}
    Gestiones = {g3}
    Redactores = {e1, e2}
    Detalles = {d1}
    SINDATO = SINDATO
    ListasEnviadas <- ListasDeDetalles
    MaxGuardados = 3
    Partes = {"asignacion"}
SPECIFICATION SpecConfiguracion
INVARIANT
    ContratoRespetado
CHECK_DEADLOCK FALSE
