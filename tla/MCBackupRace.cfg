\* The shortest wait will do.
CONSTANT Wait = 1
SPECIFICATION Spec
PROPERTY DownOnlyWhenHealthy
