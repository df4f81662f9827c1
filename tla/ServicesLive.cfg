SPECIFICATION Spec
CONSTANT NoTenant = NoTenant
PROPERTIES   MailSettles
CHECK_DEADLOCK FALSE
